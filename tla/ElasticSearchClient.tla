-------------------------- MODULE ElasticSearchClient --------------------------
(***************************************************************************)
(* ELASTIC_SEARCH_CLIENT: one curl handle through which every thread posts *)
(* its log lines (LOGGER_INFO, LOGGER_WARN, LOGGER_ERROR, ASSERT_E_R).     *)
(* The payload hangs in two fields of the shared client while curl asks    *)
(* for it piece by piece, so a mutex is held from setting them to the end  *)
(* of the transfer.  recent_error is assigned after it was released.       *)
(* The three Post functions differ in what they tell curl only.            *)
(***************************************************************************)
EXTENDS Naturals, Sequences

CONSTANTS
  Posters,      \* the threads that log
  PAYLOAD_SIZE, \* the size of a line, in bytes
  BUFFER_SIZE   \* how many bytes curl asks the callback for

Free == "free"  \* nobody: the mutex is not held

ASSUME PostAssumption ==
  /\ Free \notin Posters
  /\ PAYLOAD_SIZE \in Nat /\ PAYLOAD_SIZE > 0
  /\ BUFFER_SIZE \in Nat /\ BUFFER_SIZE > 0

VARIABLES
  post,         \* where each thread is in Post_ELASTIC_SEARCH_CLIENT
  mutex_,       \* who holds it
  payload_ptr,  \* whose line it points into, and how many bytes into it
  payload_size, \* what is left of it
  uploaded,     \* the bytes curl has sent for each post: whose, and which
  aborted       \* the process has ended in a corrupted recent_error

postVars == <<post, mutex_, payload_ptr, payload_size, uploaded, aborted>>

Posting(t) == post[t] \notin {"out", "posted", "failed"}

Bytes(t, from, n) == [k \in 1..n |-> <<t, from + k>>]
Line(t)           == Bytes(t, 0, PAYLOAD_SIZE)

PostInit ==
  /\ post = [t \in Posters |-> "out"]
  /\ mutex_ = Free
  /\ payload_ptr = [of |-> Free, at |-> 0]
  /\ payload_size = 0
  /\ uploaded = [t \in Posters |-> <<>>]
  /\ aborted = FALSE

PostCall(t) ==
  /\ ~Posting(t)
  /\ post' = [post EXCEPT ![t] = "lock"]
  /\ uploaded' = [uploaded EXCEPT ![t] = <<>>]
  /\ UNCHANGED <<mutex_, payload_ptr, payload_size, aborted>>

\* Mutant: the payload is set before the mutex is taken.
LockClient_SetsEarly(t) ==
  /\ post[t] = "lock"
  /\ payload_ptr' = [of |-> t, at |-> 0]
  /\ payload_size' = PAYLOAD_SIZE
  /\ IF mutex_ = Free THEN mutex_' = t /\ post' = [post EXCEPT ![t] = "perform"]
                      ELSE UNCHANGED <<mutex_, post>>
  /\ UNCHANGED <<uploaded, aborted>>

LockClient(t) ==
  /\ post[t] = "lock"
  /\ mutex_ = Free
  /\ mutex_' = t
  /\ post' = [post EXCEPT ![t] = "payload"]
  /\ UNCHANGED <<payload_ptr, payload_size, uploaded, aborted>>

SetPayload(t) ==
  /\ post[t] = "payload"
  /\ payload_ptr' = [of |-> t, at |-> 0]
  /\ payload_size' = PAYLOAD_SIZE
  /\ post' = [post EXCEPT ![t] = "perform"]
  /\ UNCHANGED <<mutex_, uploaded, aborted>>

\* curl_easy_perform asks for the next bytes, as long as it has not got as many
\* as CURLOPT_POSTFIELDSIZE said.
Read_Callback(t) ==
  /\ post[t] = "perform"
  /\ Len(uploaded[t]) < PAYLOAD_SIZE
  /\ LET bytes_to_read == IF BUFFER_SIZE > payload_size THEN payload_size ELSE BUFFER_SIZE
     IN /\ uploaded' = [uploaded EXCEPT ![t] =
                          @ \o Bytes(payload_ptr.of, payload_ptr.at, bytes_to_read)]
        /\ payload_size' = payload_size - bytes_to_read
        /\ payload_ptr' = [payload_ptr EXCEPT !.at = @ + bytes_to_read]
  /\ UNCHANGED <<post, mutex_, aborted>>

\* The line is through, or the transfer fails or times out where it stands.
PostUnlock(t) ==
  /\ post[t] = "perform"
  /\ mutex_' = Free
  /\ \/ Len(uploaded[t]) = PAYLOAD_SIZE /\ post' = [post EXCEPT ![t] = "posted"]
     \/ post' = [post EXCEPT ![t] = "assign"]
  /\ UNCHANGED <<payload_ptr, payload_size, uploaded, aborted>>

\* The assignment of recent_error: two at once are a data race on a string.
AssignBegins(t) ==
  /\ post[t] = "assign"
  /\ post' = [post EXCEPT ![t] = "assigning"]
  /\ aborted' \in IF \E u \in Posters : post[u] = "assigning" THEN BOOLEAN ELSE {FALSE}
  /\ UNCHANGED <<mutex_, payload_ptr, payload_size, uploaded>>

AssignEnds(t) ==
  /\ post[t] = "assigning"
  /\ post' = [post EXCEPT ![t] = "failed"]
  /\ UNCHANGED <<mutex_, payload_ptr, payload_size, uploaded, aborted>>

PostStep(t) ==
  /\ ~aborted
  /\ \/ LockClient(t) \/ SetPayload(t) \/ Read_Callback(t)
     \/ PostUnlock(t) \/ AssignBegins(t) \/ AssignEnds(t)

PostNext == \E t \in Posters : PostStep(t) \/ (~aborted /\ PostCall(t))

PostSpec == PostInit /\ [][PostNext]_postVars

-----------------------------------------------------------------------------
(* Properties *)

\* However posts overlap, what is sent for each of them is the beginning of its
\* own line, all of it if the post succeeded.
PostsOwnLine ==
  \A t \in Posters :
    /\ uploaded[t] = SubSeq(Line(t), 1, Len(uploaded[t]))
    /\ post[t] = "posted" => uploaded[t] = Line(t)
=============================================================================
