--------------------------- MODULE WsClientMaster ---------------------------
(***************************************************************************)
(* The websocket client of WS_CLIENT_MASTER.cpp and WS_CLIENT.cpp.  The     *)
(* browser calls back when the socket opens, closes and has a message; a    *)
(* message is copied into an element of a shared pool and queued for the    *)
(* virtual client it names.  Threads that receive take elements from their  *)
(* queue and give them back to the pool.  The queues lock themselves, so    *)
(* each call of size, pop or push is a step.                                *)
(*                                                                          *)
(* The browser runs one callback at a time, but the loop in which a message *)
(* waits for an element sleeps with emscripten_sleep, which goes back to the*)
(* browser: while a callback is asleep there, others run.                   *)
(*                                                                          *)
(* A message is the number the server gave it among the messages to the     *)
(* same virtual client, and whether its callback had to wait (a history: the*)
(* code does not keep it); its bytes and its size are abstracted.           *)
(***************************************************************************)
EXTENDS Integers, Sequences

CONSTANTS
    Clients,                 \* the virtual clients, one receiving thread each,
                             \* numbered in the order in which they connect
    MAX_HOSTS,               \* length of active_read
    MAX_ACCUMULATED_FRAMES,  \* elements that a queue may hold
    WEB_SOCKET_POOL_SIZE,    \* elements in all
    WEB_SOCKET_TIME_OUT,     \* tries of a wait
    MaxSent                  \* bounds on the messages for each virtual client

Hosts == 0 .. MAX_HOSTS - 1

(***************************************************************************)
(* The constants of WS_CLIENT_MASTER.h: 80 elements, 20 queues of 4.  An id  *)
(* is a uint8_t, whose largest value says that there was none left.         *)
(***************************************************************************)
ASSUME WsClientAssumption ==
    /\ Clients \subseteq Nat
    /\ MAX_HOSTS \in 1 .. 255
    /\ MAX_ACCUMULATED_FRAMES \in Nat \ {0}
    /\ WEB_SOCKET_POOL_SIZE \in Nat
    /\ WEB_SOCKET_POOL_SIZE >= MAX_HOSTS * MAX_ACCUMULATED_FRAMES
    /\ WEB_SOCKET_TIME_OUT \in Nat \ {0}
    /\ MaxSent \in [Hosts -> Nat]

\* -1 in a uint8_t: what Register_Vhost returns when no queue is left.
TooMany == 255

\* A client that has not called Connect_WS_CLIENT.
None == -1

VARIABLES
    socket,       \* the browser's socket: connecting, open, closed
    accept,
    host_count,
    client_id,    \* client_id of each virtual client
    pool,         \* the number of elements in the pool
    active_read,  \* the messages queued for each host
    cb, message,  \* the callback that runs: where it is, its message and tries
    asleep,       \* the callbacks that sleep: their messages and tries
    pc, tries,    \* each receiving thread: where it is, and its tries
    holds,        \* the message in the element it has popped
    sent,         \* the messages the server has sent to each host
    got,          \* the latest message each host's thread has received
    crashed       \* what ended the program, if anything has

vars == <<socket, accept, host_count, client_id, pool, active_read, cb, message,
          asleep, pc, tries, holds, sent, got, crashed>>

callback == <<cb, message, asleep, sent>>
threads  == <<pc, tries, holds, got>>
setup    == <<socket, accept, host_count, client_id>>

\* The locals of no callback, and the contents of no element.
NoMessage == [host |-> 0, number |-> 0, time_out |-> 0]
NoElement == [number |-> 0, waited |-> FALSE]

(***************************************************************************)
(* Initialize_WS_CLIENT_MASTER up to the loop that waits for accept.        *)
(***************************************************************************)
Init ==
    /\ socket = "connecting"
    /\ accept = FALSE
    /\ host_count = 0
    /\ client_id = [c \in Clients |-> None]
    /\ pool = WEB_SOCKET_POOL_SIZE
    /\ active_read = [h \in Hosts |-> <<>>]
    /\ cb = "idle"
    /\ message = NoMessage
    /\ asleep = {}
    /\ pc = [c \in Clients |-> "initialize"]
    /\ tries = [c \in Clients |-> 0]
    /\ holds = [c \in Clients |-> NoElement]
    /\ sent = [h \in Hosts |-> 0]
    /\ got = [h \in Hosts |-> 0]
    /\ crashed = "no"

-----------------------------------------------------------------------------
(***************************************************************************)
(* The callbacks of the browser: one may start when none runs.              *)
(***************************************************************************)

On_Open ==
    /\ cb = "idle"
    /\ socket = "connecting"
    /\ socket' = "open"
    /\ accept' = TRUE
    /\ UNCHANGED <<host_count, client_id, pool, active_read, callback, threads, crashed>>

\* On_Close and On_Error: a socket of the browser never opens again.
On_Close ==
    /\ cb = "idle"
    /\ socket # "closed"
    /\ socket' = "closed"
    /\ accept' = FALSE
    /\ UNCHANGED <<host_count, client_id, pool, active_read, callback, threads, crashed>>

\* Mutant: a queue takes whatever comes.
On_Message_NoLimit(h) ==
    /\ cb = "idle"
    /\ socket = "open"
    /\ sent[h] < MaxSent[h]
    /\ sent' = [sent EXCEPT ![h] = @ + 1]
    /\ message' = [host |-> h, number |-> sent[h] + 1, time_out |-> 0]
    /\ cb' = "wait"
    /\ UNCHANGED <<setup, pool, active_read, asleep, threads, crashed>>

\* A message arrives for h; its queue may take one more element.
On_Message(h) ==
    /\ cb = "idle"
    /\ socket = "open"
    /\ sent[h] < MaxSent[h]
    /\ Len(active_read[h]) < MAX_ACCUMULATED_FRAMES
    /\ sent' = [sent EXCEPT ![h] = @ + 1]
    /\ message' = [host |-> h, number |-> sent[h] + 1, time_out |-> 0]
    /\ cb' = "wait"
    /\ UNCHANGED <<setup, pool, active_read, asleep, threads, crashed>>

\* "a reader is getting lazy... drop this packet"
DropForLazyReader(h) ==
    /\ cb = "idle"
    /\ socket = "open"
    /\ sent[h] < MaxSent[h]
    /\ Len(active_read[h]) >= MAX_ACCUMULATED_FRAMES
    /\ sent' = [sent EXCEPT ![h] = @ + 1]
    /\ UNCHANGED <<setup, pool, active_read, cb, message, asleep, threads, crashed>>

\* The callback ends.
Return == cb' = "idle" /\ message' = NoMessage

\* A pass of the loop that waits for an element: the callback goes to sleep.
PoolWait ==
    /\ cb = "wait"
    /\ pool <= 0
    /\ message.time_out < WEB_SOCKET_TIME_OUT
    /\ asleep' = asleep \cup {[message EXCEPT !.time_out = @ + 1]}
    /\ Return
    /\ UNCHANGED <<setup, pool, active_read, sent, threads, crashed>>

\* The browser goes on with a callback whose sleep is over.
Wake(m) ==
    /\ cb = "idle"
    /\ cb' = "wait"
    /\ message' = m
    /\ asleep' = asleep \ {m}
    /\ UNCHANGED <<setup, pool, active_read, sent, threads, crashed>>

\* The end of the loop: there is an element, or the tries are used up.
PoolWaitEnds ==
    /\ cb = "wait"
    /\ \/ message.time_out >= WEB_SOCKET_TIME_OUT /\ Return
       \/ /\ pool > 0 /\ message.time_out < WEB_SOCKET_TIME_OUT
          /\ cb' = "pop" /\ UNCHANGED message
    /\ UNCHANGED <<setup, pool, active_read, asleep, sent, threads, crashed>>

\* pop leaves temp as it was, NULL, if the pool is empty.
PoolPop ==
    /\ cb = "pop"
    /\ IF pool > 0
         THEN cb' = "push" /\ pool' = pool - 1 /\ UNCHANGED crashed
         ELSE crashed' = "empty" /\ UNCHANGED <<cb, pool>>
    /\ UNCHANGED <<setup, active_read, message, asleep, sent, threads>>

\* What is queued for the message of the callback.
Element == [number |-> message.number, waited |-> message.time_out > 0]

\* The message is copied and queued.
ActivePush ==
    /\ cb = "push"
    /\ active_read' = [active_read EXCEPT ![message.host] = Append(@, Element)]
    /\ Return
    /\ UNCHANGED <<setup, pool, asleep, sent, threads, crashed>>

Callback == PoolWait \/ PoolWaitEnds \/ PoolPop \/ ActivePush \/ \E m \in asleep : Wake(m)

-----------------------------------------------------------------------------
(***************************************************************************)
(* The threads of the virtual clients.                                      *)
(***************************************************************************)

\* Initialize returns when the socket is open; Connect_WS_CLIENT registers.
Connect(c) ==
    /\ pc[c] = "initialize"
    /\ accept
    /\ \A d \in Clients : d < c => pc[d] # "initialize"
    /\ IF host_count >= MAX_HOSTS
         THEN client_id' = [client_id EXCEPT ![c] = TooMany] /\ UNCHANGED host_count
         ELSE /\ client_id' = [client_id EXCEPT ![c] = host_count]
              /\ host_count' = host_count + 1
    /\ pc' = [pc EXCEPT ![c] = "idle"]
    /\ UNCHANGED <<socket, accept, pool, active_read, callback, tries, holds, got, crashed>>

\* A call of Receive or Receive_Unsafe; an id of 255 is beyond active_read.
Receive(c) ==
    /\ pc[c] = "idle"
    /\ IF client_id[c] \in Hosts
         THEN /\ pc' = [pc EXCEPT ![c] = "wait"]
              /\ tries' = [tries EXCEPT ![c] = 0]
              /\ UNCHANGED crashed
         ELSE crashed' = "index" /\ UNCHANGED <<pc, tries>>
    /\ UNCHANGED <<setup, pool, active_read, callback, holds, got>>

\* A pass of the loop that waits for a message.
ReceiveWait(c) ==
    /\ pc[c] = "wait"
    /\ active_read[client_id[c]] = <<>>
    /\ tries[c] < WEB_SOCKET_TIME_OUT
    /\ accept
    /\ tries' = [tries EXCEPT ![c] = @ + 1]
    /\ UNCHANGED <<setup, pool, active_read, callback, pc, holds, got, crashed>>

\* The end of the loop, for any of its three reasons.
ReceiveWaitEnds(c) ==
    /\ pc[c] = "wait"
    /\ \/ active_read[client_id[c]] # <<>>
       \/ tries[c] >= WEB_SOCKET_TIME_OUT
       \/ ~accept
    /\ pc' = [pc EXCEPT ![c] = "check"]
    /\ UNCHANGED <<setup, pool, active_read, callback, tries, holds, got, crashed>>

\* Mutant: a wait that ended is taken for one that found a message.
ReceiveCheck_Trusting(c) ==
    /\ pc[c] = "check"
    /\ pc' = [pc EXCEPT ![c] = IF tries[c] >= WEB_SOCKET_TIME_OUT THEN "idle" ELSE "pop"]
    /\ tries' = [tries EXCEPT ![c] = 0]
    /\ UNCHANGED <<setup, pool, active_read, callback, holds, got, crashed>>

\* The reasons are looked at again, and accept is read again; then the tries
\* are not used any more.
ReceiveCheck(c) ==
    /\ pc[c] = "check"
    /\ pc' = [pc EXCEPT ![c] =
                 IF tries[c] >= WEB_SOCKET_TIME_OUT \/ ~accept THEN "idle" ELSE "pop"]
    /\ tries' = [tries EXCEPT ![c] = 0]
    /\ UNCHANGED <<setup, pool, active_read, callback, holds, got, crashed>>

\* Mutant: the message at the end of the queue is popped.
ReceivePop_Last(c) ==
    LET h == client_id[c] n == Len(active_read[client_id[c]]) IN
    /\ pc[c] = "pop"
    /\ n > 0
    /\ holds' = [holds EXCEPT ![c] = active_read[h][n]]
    /\ active_read' = [active_read EXCEPT ![h] = SubSeq(@, 1, n - 1)]
    /\ pc' = [pc EXCEPT ![c] = "copy"]
    /\ UNCHANGED <<setup, pool, callback, tries, got, crashed>>

ReceivePop(c) ==
    LET h == client_id[c] IN
    /\ pc[c] = "pop"
    /\ IF active_read[h] # <<>>
         THEN /\ holds' = [holds EXCEPT ![c] = Head(active_read[h])]
              /\ active_read' = [active_read EXCEPT ![h] = Tail(@)]
              /\ pc' = [pc EXCEPT ![c] = "copy"]
              /\ UNCHANGED crashed
         ELSE crashed' = "empty" /\ UNCHANGED <<holds, active_read, pc>>
    /\ UNCHANGED <<setup, pool, callback, tries, got>>

\* The message is copied out and its element goes back to the pool.
ReceiveReturn(c) ==
    /\ pc[c] = "copy"
    /\ got' = [got EXCEPT ![client_id[c]] = IF @ < holds[c].number THEN holds[c].number ELSE @]
    /\ holds' = [holds EXCEPT ![c] = NoElement]
    /\ pool' = pool + 1
    /\ pc' = [pc EXCEPT ![c] = "idle"]
    /\ UNCHANGED <<setup, active_read, callback, tries, crashed>>

Receiving(c) ==
    \/ ReceiveWait(c)
    \/ ReceiveWaitEnds(c)
    \/ ReceiveCheck(c)
    \/ ReceivePop(c)
    \/ ReceiveReturn(c)

-----------------------------------------------------------------------------

Next ==
    /\ crashed = "no"
    /\ \/ On_Open
       \/ On_Close
       \/ \E h \in Hosts : On_Message(h) \/ DropForLazyReader(h)
       \/ Callback
       \/ \E c \in Clients : Connect(c) \/ Receive(c) \/ Receiving(c)

Spec == Init /\ [][Next]_vars

-----------------------------------------------------------------------------

Holding == {c \in Clients : pc[c] = "copy"}

(***************************************************************************)
(* A message finds the pool empty only while a thread is about to give an   *)
(* element back, or a queue holds a message that had to wait itself: queues *)
(* that nobody reads do not use up the pool (80 elements for 20 queues of   *)
(* 4).  A message that waited may be queued beyond the limit it was held to *)
(* when it arrived, and only such messages can leave too few for others.    *)
(***************************************************************************)
ShortageNeedsThread ==
    cb = "wait" /\ message.time_out = 0 /\ pool = 0 =>
        \/ Holding # {}
        \/ \E h \in Hosts : \E k \in 1 .. Len(active_read[h]) : active_read[h][k].waited

(***************************************************************************)
(* An element that was seen is still there when it is popped: only the      *)
(* callback that runs takes from the pool, and it does not sleep in between,*)
(* only one thread takes from each queue, and a socket that has closed never*)
(* makes accept true again between the two looks at it.                     *)
(***************************************************************************)
SeenIsPopped == crashed # "empty"

\* m may be received after what is numbered n.
MayFollow(m, n) == m.waited \/ n < m.number

(***************************************************************************)
(* A thread receives the messages for its client in the order in which the  *)
(* server sent them, whatever is dropped in between, but for a message whose*)
(* callback slept: it may come after later ones, and no other may.          *)
(***************************************************************************)
ReceivedInOrder ==
    /\ \A h \in Hosts :
          LET q == active_read[h] IN
          \A k \in 1 .. Len(q) :
             /\ q[k].number <= sent[h]
             /\ MayFollow(q[k], got[h])
             /\ \A j \in 1 .. k - 1 : MayFollow(q[k], q[j].number)
    /\ \A c \in Holding :
          LET q == active_read[client_id[c]] IN
          /\ MayFollow(holds[c], got[client_id[c]])
          /\ \A k \in 1 .. Len(q) : MayFollow(q[k], holds[c].number)
=============================================================================
