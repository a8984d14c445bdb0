-------------------------- MODULE TcpTransport_proofs --------------------------
(***************************************************************************)
(* The two protocols that run inside the calls of the transport, each for  *)
(* any threads, that the transport keeps both, and what it does with them: *)
(* who holds which socket, and where a client is connected.                *)
(*   Lookups: whoever writes the global while a thread is past its reset   *)
(* is still in its own call, hence the thread itself or one of its rivals, *)
(* and a thread without rivals finds in the global what it has put there.  *)
(*   Posts: only the holder of the mutex is between setting the payload    *)
(* and the end of the transfer, so the two fields always stand where the   *)
(* holder's upload has come to.                                            *)
(*   Sockets: a number is reused once it was closed, so nobody may close   *)
(* what is not his, and everybody's numbers have to be told apart.         *)
(***************************************************************************)
EXTENDS TcpTransport, SequenceTheorems, FiniteSetTheorems, TLAPS

(* Lookups *)

Addresses == Names \cup {IP_NOT_FOUND}

Places == {"out", "reset", "lock", "query", "select", "unlock", "destroy", "test", "read",
           "found", "not_found"}

DnsTypeInv ==
  /\ dns \in [Threads -> Places]
  /\ asked \in [Threads -> Addresses]
  /\ pending \in [Threads -> BOOLEAN]
  /\ test \in [Threads -> Addresses]
  /\ ip_addr \in [Threads -> Addresses]
  /\ ip_ret_DNS_WRAPPER \in Addresses
  /\ rivals \in [Threads -> SUBSET Addresses]

\* Threads that are in a call at the same time know of each other's names.
RivalsKnown ==
  \A t, u \in Threads : t # u /\ Looking(t) /\ Looking(u) => asked[u] \in rivals[t]

\* What a thread may find in the global, or have found there.
Explained(t, value) ==
  \/ value \in {asked[t], IP_NOT_FOUND}
  \/ rivals[t] # {} /\ value \in rivals[t]

GlobalExplained ==
  \A t \in Threads : Looking(t) /\ dns[t] # "reset" => Explained(t, ip_ret_DNS_WRAPPER)

\* A thread that is about to read has seen an address; without rivals it is
\* still in the global.
TestExplained ==
  \A t \in Threads :
    dns[t] = "read" =>
      /\ Explained(t, test[t]) /\ test[t] # IP_NOT_FOUND
      /\ rivals[t] = {} => ip_ret_DNS_WRAPPER = test[t]

DnsIInv == DnsTypeInv /\ RivalsKnown /\ GlobalExplained /\ TestExplained /\ AnswersOverlappingLookup

LEMMA DnsInitIInv == DnsInit => DnsIInv
BY DEF DnsInit, DnsIInv, DnsTypeInv, RivalsKnown, GlobalExplained, TestExplained,
       AnswersOverlappingLookup, Looking, Addresses, Places

\* A call begins: the one step that changes rivals.
LEMMA DnsCallIInv ==
  ASSUME DnsIInv, NEW t \in Threads, NEW name \in Names, DnsCall(t, name)
  PROVE  DnsIInv'
<1> USE DEF DnsIInv
<1>1. /\ dns' = [dns EXCEPT ![t] = "reset"] /\ asked' = [asked EXCEPT ![t] = name]
      /\ test' = test /\ ip_addr' = ip_addr /\ ip_ret_DNS_WRAPPER' = ip_ret_DNS_WRAPPER
      /\ pending' = pending /\ ~Looking(t)
  BY DEF DnsCall
<1>2. rivals' = [u \in Threads |->
                   IF u = t THEN {asked[v] : v \in {w \in Threads \ {t} : Looking(w)}}
                   ELSE IF Looking(u) THEN rivals[u] \cup {name} ELSE rivals[u]]
  BY DEF DnsCall
<1>3. \A u \in Threads \ {t} :
        dns'[u] = dns[u] /\ asked'[u] = asked[u] /\ (Looking(u)' <=> Looking(u))
  BY <1>1 DEF DnsTypeInv, Looking
<1>4. dns'[t] = "reset" /\ asked'[t] = name /\ Looking(t)'
  BY <1>1 DEF DnsTypeInv, Looking
<1>5. \A u \in Threads \ {t} : rivals[u] \subseteq rivals'[u] BY <1>2
<1>6. DnsTypeInv'
  <2>1. rivals' \in [Threads -> SUBSET Addresses] BY <1>2 DEF DnsTypeInv, Addresses
  <2> QED BY <1>1, <2>1 DEF DnsTypeInv, Addresses, Places
<1>7. RivalsKnown'
  <2> SUFFICES ASSUME NEW u \in Threads, NEW v \in Threads, u # v, Looking(u)', Looking(v)'
               PROVE  asked'[v] \in rivals'[u]
    BY DEF RivalsKnown
  <2>1. CASE u = t BY <1>2, <1>3, <2>1
  <2>2. CASE v = t BY <1>2, <1>3, <1>4, <2>2
  <2>3. CASE u # t /\ v # t BY <1>3, <1>5, <2>3 DEF RivalsKnown
  <2> QED BY <2>1, <2>2, <2>3
<1>8. GlobalExplained'
  BY <1>1, <1>3, <1>4, <1>5 DEF GlobalExplained, Explained
<1>9. TestExplained'
  <2> SUFFICES ASSUME NEW u \in Threads, dns'[u] = "read"
               PROVE  /\ Explained(u, test[u])' /\ test'[u] # IP_NOT_FOUND
                      /\ rivals'[u] = {} => ip_ret_DNS_WRAPPER' = test'[u]
    BY DEF TestExplained
  <2>1. u # t /\ dns[u] = "read" BY <1>3, <1>4
  <2> QED BY <1>1, <1>3, <1>5, <2>1 DEF TestExplained, Explained
<1>10. AnswersOverlappingLookup'
  <2> SUFFICES ASSUME NEW u \in Threads, dns'[u] = "found"
               PROVE  \/ ip_addr'[u] = asked'[u]
                      \/ rivals'[u] # {} /\ ip_addr'[u] \in rivals'[u] \cup {IP_NOT_FOUND}
    BY DEF AnswersOverlappingLookup
  <2>1. u # t /\ dns[u] = "found" BY <1>3, <1>4
  <2> QED BY <1>1, <1>3, <1>5, <2>1 DEF AnswersOverlappingLookup
<1> QED BY <1>6, <1>7, <1>8, <1>9, <1>10

\* What every step of a thread leaves alone.
Frame(t) ==
  /\ asked' = asked /\ rivals' = rivals
  /\ \A u \in Threads \ {t} : dns'[u] = dns[u] /\ test'[u] = test[u] /\ ip_addr'[u] = ip_addr[u]
  /\ Looking(t)

LEMMA StepFrame ==
  ASSUME DnsTypeInv, NEW t \in Threads, DnsStep(t)
  PROVE  DnsTypeInv' /\ Frame(t)
<1> USE DEF Frame, DnsTypeInv, Places, Addresses, Looking
<1>1. CASE Reset(t) BY <1>1 DEF Reset
<1>2. CASE AresFails(t) BY <1>2 DEF AresFails
<1>3. CASE Lock(t) BY <1>3 DEF Lock
<1>4. CASE Query(t) BY <1>4 DEF Query, callback
<1>5. CASE Select(t) BY <1>5 DEF Select, callback
<1>6. CASE Unlock(t) BY <1>6 DEF Unlock
<1>7. CASE Destroy(t) BY <1>7 DEF Destroy
<1>8. CASE Test(t) BY <1>8 DEF Test
<1>9. CASE ReadResult(t) BY <1>9 DEF ReadResult
<1> QED BY <1>1, <1>2, <1>3, <1>4, <1>5, <1>6, <1>7, <1>8, <1>9 DEF DnsStep

\* A step writes nothing else to the global than its own name or IP_NOT_FOUND.
LEMMA StepWrites ==
  ASSUME DnsTypeInv, NEW t \in Threads, DnsStep(t)
  PROVE  ip_ret_DNS_WRAPPER' \in {ip_ret_DNS_WRAPPER, asked[t], IP_NOT_FOUND}
BY DEF DnsStep, Reset, AresFails, Lock, Query, Select, callback, Unlock, Destroy, Test, ReadResult

LEMMA DnsStepIInv ==
  ASSUME DnsIInv, NEW t \in Threads, DnsStep(t)
  PROVE  DnsIInv'
<1> USE DEF DnsIInv
<1>1. DnsTypeInv' /\ Frame(t) BY StepFrame
<1>2. ip_ret_DNS_WRAPPER' \in {ip_ret_DNS_WRAPPER, asked[t], IP_NOT_FOUND} BY StepWrites
<1>3. \A u \in Threads \ {t} : Looking(u)' <=> Looking(u) BY <1>1 DEF Frame, Looking
<1>4. RivalsKnown' BY <1>1, <1>3 DEF RivalsKnown, Frame
<1>5. GlobalExplained'
  <2> SUFFICES ASSUME NEW u \in Threads, Looking(u)', dns'[u] # "reset"
               PROVE  Explained(u, ip_ret_DNS_WRAPPER)'
    BY DEF GlobalExplained
  <2>1. CASE u # t
    <3>1. Looking(u) /\ dns[u] # "reset" BY <1>1, <1>3, <2>1 DEF Frame
    <3>2. Explained(u, ip_ret_DNS_WRAPPER) BY <3>1 DEF GlobalExplained
    <3>3. asked[t] \in rivals[u] BY <1>1, <2>1, <3>1 DEF RivalsKnown, Frame
    <3> QED BY <1>1, <1>2, <3>2, <3>3 DEF Explained, Frame
  <2>2. CASE u = t /\ dns[t] # "reset"
    BY <1>1, <1>2, <2>2 DEF GlobalExplained, Explained, Frame
  <2>3. CASE u = t /\ dns[t] = "reset"
    <3>1. Reset(t)
      BY <2>3 DEF DnsStep, AresFails, Lock, Query, Select, Unlock, Destroy, Test, ReadResult
    <3> QED BY <1>1, <2>3, <3>1 DEF Reset, Explained, Frame
  <2> QED BY <2>1, <2>2, <2>3
<1>6. TestExplained'
  <2> SUFFICES ASSUME NEW u \in Threads, dns'[u] = "read"
               PROVE  /\ Explained(u, test[u])' /\ test'[u] # IP_NOT_FOUND
                      /\ rivals'[u] = {} => ip_ret_DNS_WRAPPER' = test'[u]
    BY DEF TestExplained
  <2>1. CASE u # t
    <3>1. dns[u] = "read" /\ test'[u] = test[u] BY <1>1, <2>1 DEF Frame
    <3>2. asked[t] \in rivals[u] BY <1>1, <2>1, <3>1 DEF RivalsKnown, Frame, Looking
    <3> QED BY <1>1, <3>1, <3>2 DEF TestExplained, Explained, Frame
  <2>2. CASE u = t
    <3>1. Test(t)
      BY <2>2 DEF DnsTypeInv, DnsStep, Reset, AresFails, Lock, Query, Select, Unlock, Destroy, ReadResult
    <3>2. /\ dns[t] = "test" /\ ip_ret_DNS_WRAPPER' = ip_ret_DNS_WRAPPER
          /\ ip_ret_DNS_WRAPPER # IP_NOT_FOUND /\ test'[t] = ip_ret_DNS_WRAPPER
      BY <2>2, <3>1 DEF Test, DnsTypeInv
    <3>3. Explained(t, ip_ret_DNS_WRAPPER) BY <3>2 DEF GlobalExplained, Looking
    <3> QED BY <1>1, <2>2, <3>2, <3>3 DEF Explained, Frame
  <2> QED BY <2>1, <2>2
<1>7. AnswersOverlappingLookup'
  <2> SUFFICES ASSUME NEW u \in Threads, dns'[u] = "found"
               PROVE  \/ ip_addr'[u] = asked'[u]
                      \/ rivals'[u] # {} /\ ip_addr'[u] \in rivals'[u] \cup {IP_NOT_FOUND}
    BY DEF AnswersOverlappingLookup
  <2>1. CASE u # t BY <1>1, <2>1 DEF AnswersOverlappingLookup, Frame
  <2>2. CASE u = t
    <3>1. ReadResult(t)
      BY <2>2, <1>1 DEF DnsTypeInv, Frame, Looking, DnsStep, Reset, AresFails, Lock, Query, Select,
                        Unlock, Destroy, Test
    <3>2. dns[t] = "read" /\ ip_addr'[t] \in {test[t], ip_ret_DNS_WRAPPER}
      BY <3>1 DEF ReadResult, DnsTypeInv
    <3>3. Explained(t, test[t]) /\ Explained(t, ip_ret_DNS_WRAPPER)
      BY <3>2 DEF TestExplained, GlobalExplained, Looking
    <3>4. test[t] # IP_NOT_FOUND /\ (rivals[t] = {} => ip_ret_DNS_WRAPPER = test[t])
      BY <3>2 DEF TestExplained
    <3> QED BY <1>1, <2>2, <3>2, <3>3, <3>4 DEF Explained, Frame
  <2> QED BY <2>1, <2>2
<1> QED BY <1>1, <1>4, <1>5, <1>6, <1>7

LEMMA LookupsInvariant == DnsSpec => []DnsIInv
<1>1. DnsIInv /\ [DnsNext]_dnsVars => DnsIInv'
  <2> SUFFICES ASSUME DnsIInv, [DnsNext]_dnsVars PROVE DnsIInv' OBVIOUS
  <2>1. CASE DnsNext BY <2>1, DnsCallIInv, DnsStepIInv DEF DnsNext
  <2>2. CASE UNCHANGED dnsVars
    BY <2>2 DEF dnsVars, DnsIInv, DnsTypeInv, RivalsKnown, GlobalExplained, TestExplained, Explained,
                AnswersOverlappingLookup, Looking
  <2> QED BY <2>1, <2>2
<1> QED BY DnsInitIInv, <1>1, PTL DEF DnsSpec

\* getaddrinfo_k, for any number of threads and names: an address it returns is
\* the one of its own name if no other lookup ran at the same time, and never
\* one that an earlier lookup has left in the global.
THEOREM AnswersAreCurrent == DnsSpec => []AnswersOverlappingLookup
<1>1. DnsIInv => AnswersOverlappingLookup BY DEF DnsIInv
<1> QED BY LookupsInvariant, <1>1, PTL

-----------------------------------------------------------------------------
(* Posts *)

PostPlaces == {"out", "lock", "payload", "perform", "assign", "assigning", "posted", "failed"}

PostTypeInv ==
  /\ post \in [Posters -> PostPlaces]
  /\ payload_ptr \in [of : Posters \cup {Free}, at : Nat]
  /\ payload_size \in Nat
  /\ uploaded \in [Posters -> Seq(Posters \X Nat)]

\* Between lock and unlock of the mutex stands its holder and nobody else.
HolderIsInside == \A t \in Posters : post[t] \in {"payload", "perform"} <=> mutex_ = t

\* The fields of the client are where the upload of the holder is.
PayloadFollows ==
  \A t \in Posters :
    post[t] = "perform" =>
      /\ payload_ptr = [of |-> t, at |-> Len(uploaded[t])]
      /\ payload_size + Len(uploaded[t]) = PAYLOAD_SIZE

UploadsOwn ==
  \A t \in Posters :
    /\ Len(uploaded[t]) <= PAYLOAD_SIZE
    /\ uploaded[t] = Bytes(t, 0, Len(uploaded[t]))
    /\ post[t] = "posted" => Len(uploaded[t]) = PAYLOAD_SIZE
    /\ post[t] \in {"lock", "payload"} => uploaded[t] = <<>>

PostIInv == PostTypeInv /\ HolderIsInside /\ PayloadFollows /\ UploadsOwn

-----------------------------------------------------------------------------
(* Pieces of a line *)

LEMMA BytesAreBytes ==
  ASSUME NEW t \in Posters, NEW from \in Nat, NEW n \in Nat
  PROVE  Bytes(t, from, n) \in Seq(Posters \X Nat) /\ Len(Bytes(t, from, n)) = n
<1>1. \A k \in 1..n : <<t, from + k>> \in Posters \X Nat OBVIOUS
<1> QED BY <1>1 DEF Bytes

\* Two pieces that meet are one piece.
LEMMA BytesMeet ==
  ASSUME NEW t \in Posters, NEW a \in Nat, NEW n \in Nat
  PROVE  Bytes(t, 0, a) \o Bytes(t, a, n) = Bytes(t, 0, a + n)
<1> DEFINE s == Bytes(t, 0, a)
           r == Bytes(t, a, n)
           w == Bytes(t, 0, a + n)
           c == s \o r
           Z == Posters \X Nat
<1>0. a + n \in Nat /\ 0 \in Nat OBVIOUS
<1>1. s \in Seq(Z) /\ Len(s) = a BY <1>0, BytesAreBytes
<1>2. r \in Seq(Z) /\ Len(r) = n BY BytesAreBytes
<1>3. w \in Seq(Z) /\ Len(w) = a + n BY <1>0, BytesAreBytes
<1>4. \A k \in 1..a : s[k] = <<t, k>> BY DEF Bytes
<1>5. \A k \in 1..n : r[k] = <<t, a + k>> BY DEF Bytes
<1>6. \A k \in 1..a + n : w[k] = <<t, k>> BY DEF Bytes
<1> HIDE DEF s, r, w, Z
<1>7. /\ c \in Seq(Z) /\ Len(c) = a + n
      /\ \A k \in 1..a + n : c[k] = IF k <= a THEN s[k] ELSE r[k - a]
  BY <1>1, <1>2, ConcatProperties
<1> HIDE DEF c
<1>8. \A k \in 1..a + n : c[k] = w[k]
  <2> SUFFICES ASSUME NEW k \in 1..a + n PROVE c[k] = w[k] OBVIOUS
  <2>1. k \in Nat /\ (k <= a => k \in 1..a) /\ (~(k <= a) => k - a \in 1..n /\ a + (k - a) = k)
    OBVIOUS
  <2>2. CASE k <= a BY <1>4, <1>6, <1>7, <2>1, <2>2
  <2>3. CASE ~(k <= a)
    <3>1. r[k - a] = <<t, k>> BY <1>5, <2>1, <2>3
    <3> QED BY <1>6, <1>7, <2>3, <3>1
  <2> QED BY <2>2, <2>3
<1>9. c = w BY <1>3, <1>7, <1>8, SeqEqual
<1> QED BY <1>9 DEF s, r, w, c

\* A piece from the start is the beginning of the line.
LEMMA BytesBegin ==
  ASSUME NEW t \in Posters, NEW n \in Nat, n <= PAYLOAD_SIZE
  PROVE  SubSeq(Line(t), 1, n) = Bytes(t, 0, n)
<1> DEFINE l == Bytes(t, 0, PAYLOAD_SIZE)
<1>1. l \in Seq(Posters \X Nat) /\ Len(l) = PAYLOAD_SIZE BY BytesAreBytes, PostAssumption
<1>2. \A k \in 1..n : l[k] = <<t, 0 + k>> BY PostAssumption DEF Bytes
<1> HIDE DEF l
<1>3. SubSeq(l, 1, n) = [k \in 1..n |-> l[k]] BY <1>1, PostAssumption
<1> QED BY <1>2, <1>3 DEF Line, Bytes, l

-----------------------------------------------------------------------------

LEMMA PostInitIInv == PostInit => PostIInv
<1> SUFFICES ASSUME PostInit PROVE PostIInv OBVIOUS
<1>1. PostTypeInv BY DEF PostInit, PostTypeInv, PostPlaces
<1>2. HolderIsInside BY PostAssumption DEF PostInit, HolderIsInside
<1>3. PayloadFollows BY DEF PostInit, PayloadFollows
<1>4. UploadsOwn
  <2> SUFFICES ASSUME NEW t \in Posters
               PROVE  /\ Len(uploaded[t]) <= PAYLOAD_SIZE
                      /\ uploaded[t] = Bytes(t, 0, Len(uploaded[t]))
                      /\ post[t] # "posted" /\ uploaded[t] = <<>>
    BY DEF UploadsOwn
  <2>1. uploaded[t] = <<>> /\ post[t] = "out" BY DEF PostInit
  <2>2. Bytes(t, 0, 0) = <<>> BY DEF Bytes
  <2> QED BY <2>1, <2>2, PostAssumption
<1> QED BY <1>1, <1>2, <1>3, <1>4 DEF PostIInv

LEMMA PostCallIInv ==
  ASSUME PostIInv, NEW t \in Posters, PostCall(t)
  PROVE  PostIInv'
<1> USE DEF PostIInv, PostCall
<1>1. PostTypeInv' BY DEF PostTypeInv, PostPlaces
<1>2. post[t] \notin {"payload", "perform"} BY DEF Posting, PostTypeInv
<1>3. HolderIsInside' BY <1>2 DEF HolderIsInside, PostTypeInv
<1>4. PayloadFollows' BY DEF PayloadFollows, PostTypeInv
<1>5. UploadsOwn'
  <2>1. Bytes(t, 0, 0) = <<>> BY DEF Bytes
  <2>2. \A u \in Posters \ {t} : post'[u] = post[u] /\ uploaded'[u] = uploaded[u] BY DEF PostTypeInv
  <2>3. post'[t] = "lock" /\ uploaded'[t] = <<>> BY DEF PostTypeInv
  <2> QED BY <2>1, <2>2, <2>3, PostAssumption DEF UploadsOwn
<1> QED BY <1>1, <1>3, <1>4, <1>5

LEMMA LockIInv ==
  ASSUME PostIInv, NEW t \in Posters, LockClient(t)
  PROVE  PostIInv'
<1> USE DEF PostIInv, LockClient
<1>1. PostTypeInv' BY DEF PostTypeInv, PostPlaces
<1>2. HolderIsInside'
  <2>1. \A u \in Posters : post[u] \notin {"payload", "perform"}
    BY PostAssumption DEF HolderIsInside
  <2> QED BY <2>1 DEF HolderIsInside, PostTypeInv
<1>3. PayloadFollows' BY DEF PayloadFollows, PostTypeInv
<1>4. UploadsOwn' BY DEF UploadsOwn, PostTypeInv
<1> QED BY <1>1, <1>2, <1>3, <1>4

LEMMA SetIInv ==
  ASSUME PostIInv, NEW t \in Posters, SetPayload(t)
  PROVE  PostIInv'
<1> USE DEF PostIInv, SetPayload
<1>1. PostTypeInv' BY PostAssumption DEF PostTypeInv, PostPlaces
<1>2. HolderIsInside' BY DEF HolderIsInside, PostTypeInv
<1>3. PayloadFollows'
  <2>1. uploaded[t] = <<>> BY DEF UploadsOwn
  <2>2. \A u \in Posters \ {t} : post'[u] # "perform" BY DEF HolderIsInside, PostTypeInv
  <2> QED BY <2>1, <2>2, PostAssumption DEF PayloadFollows
<1>4. UploadsOwn' BY DEF UploadsOwn, PostTypeInv
<1> QED BY <1>1, <1>2, <1>3, <1>4

LEMMA ReadIInv ==
  ASSUME PostIInv, NEW t \in Posters, Read_Callback(t)
  PROVE  PostIInv'
<1> DEFINE taken == IF BUFFER_SIZE > payload_size THEN payload_size ELSE BUFFER_SIZE
           at   == Len(uploaded[t])
           piece == Bytes(t, at, taken)
<1> USE DEF PostIInv
<1>1. post[t] = "perform" /\ mutex_ = t BY DEF Read_Callback, HolderIsInside
<1>2. at \in Nat /\ payload_size \in Nat /\ payload_size + at = PAYLOAD_SIZE
  <2>1. uploaded[t] \in Seq(Posters \X Nat) BY DEF PostTypeInv
  <2>2. at \in Nat BY <2>1, LenProperties
  <2> QED BY <1>1, <2>2 DEF PayloadFollows, PostTypeInv
<1>3. taken \in Nat /\ taken <= payload_size
  <2>1. BUFFER_SIZE \in Nat BY PostAssumption
  <2> QED BY <1>2, <2>1
<1>4. payload_ptr = [of |-> t, at |-> at] BY <1>1 DEF PayloadFollows
<1>5. /\ uploaded' = [uploaded EXCEPT ![t] = @ \o piece]
      /\ payload_size' = payload_size - taken
      /\ payload_ptr' = [of |-> t, at |-> at + taken]
      /\ post' = post /\ mutex_' = mutex_
  BY <1>4 DEF Read_Callback
<1>6. piece \in Seq(Posters \X Nat) /\ Len(piece) = taken BY <1>2, <1>3, BytesAreBytes
<1>6a. payload_size - taken \in Nat /\ at + taken \in Nat
      /\ payload_size - taken + (at + taken) = PAYLOAD_SIZE /\ at + taken <= PAYLOAD_SIZE
  <2> HIDE DEF taken, at
  <2> QED BY <1>2, <1>3
<1> HIDE DEF taken, piece, at
<1>7. /\ uploaded'[t] = uploaded[t] \o piece
      /\ \A u \in Posters \ {t} : uploaded'[u] = uploaded[u]
  BY <1>5 DEF PostTypeInv
<1>8. uploaded[t] \in Seq(Posters \X Nat) BY DEF PostTypeInv
<1>9. uploaded'[t] \in Seq(Posters \X Nat) /\ Len(uploaded'[t]) = at + taken
  BY <1>6, <1>7, <1>8, ConcatProperties DEF at
<1>10. PostTypeInv'
  <2>1. uploaded' \in [Posters -> Seq(Posters \X Nat)] BY <1>5, <1>7, <1>9 DEF PostTypeInv
  <2>2. payload_size' \in Nat /\ at + taken \in Nat BY <1>6a, <1>5
  <2> QED BY <1>5, <2>1, <2>2 DEF PostTypeInv
<1>11. HolderIsInside' BY <1>5 DEF HolderIsInside
<1>12. PayloadFollows'
  <2>1. \A u \in Posters \ {t} : post'[u] # "perform" BY <1>1, <1>5 DEF HolderIsInside
  <2>2. payload_size' + Len(uploaded'[t]) = PAYLOAD_SIZE BY <1>6a, <1>5, <1>9
  <2> QED BY <1>5, <1>9, <2>1, <2>2 DEF PayloadFollows
<1>13. UploadsOwn'
  <2>1. uploaded[t] = Bytes(t, 0, at) BY DEF UploadsOwn, at
  <2>2. uploaded'[t] = Bytes(t, 0, at + taken) BY <1>2, <1>3, <1>7, <2>1, BytesMeet DEF piece
  <2>3. at + taken <= PAYLOAD_SIZE BY <1>6a
  <2> QED BY <1>1, <1>5, <1>7, <1>9, <2>2, <2>3 DEF UploadsOwn
<1> QED BY <1>10, <1>11, <1>12, <1>13

LEMMA UnlockIInv ==
  ASSUME PostIInv, NEW t \in Posters, PostUnlock(t)
  PROVE  PostIInv'
<1> USE DEF PostIInv, PostUnlock
<1>1. PostTypeInv' BY DEF PostTypeInv, PostPlaces
<1>2. \A u \in Posters \ {t} : post[u] \notin {"payload", "perform"}
  BY DEF HolderIsInside
<1>3. HolderIsInside' BY <1>2, PostAssumption DEF HolderIsInside, PostTypeInv
<1>4. PayloadFollows' BY <1>2 DEF PayloadFollows, PostTypeInv
<1>5. UploadsOwn' BY DEF UploadsOwn, PostTypeInv
<1> QED BY <1>1, <1>3, <1>4, <1>5

LEMMA AssignIInv ==
  ASSUME PostIInv, NEW t \in Posters, AssignBegins(t) \/ AssignEnds(t)
  PROVE  PostIInv'
<1> USE DEF PostIInv, AssignBegins, AssignEnds
<1>1. PostTypeInv' BY DEF PostTypeInv, PostPlaces
<1>2. HolderIsInside' BY DEF HolderIsInside, PostTypeInv
<1>3. PayloadFollows' BY DEF PayloadFollows, PostTypeInv
<1>4. UploadsOwn' BY DEF UploadsOwn, PostTypeInv
<1> QED BY <1>1, <1>2, <1>3, <1>4

LEMMA PostIInvImplies == PostIInv => PostsOwnLine
<1> SUFFICES ASSUME PostIInv, NEW t \in Posters
             PROVE  /\ uploaded[t] = SubSeq(Line(t), 1, Len(uploaded[t]))
                    /\ post[t] = "posted" => uploaded[t] = Line(t)
  BY DEF PostsOwnLine
<1>1. Len(uploaded[t]) \in Nat BY DEF PostIInv, PostTypeInv
<1> QED BY <1>1, BytesBegin DEF PostIInv, UploadsOwn, Line

\* Post_ELASTIC_SEARCH_CLIENT, for any number of threads: what curl has sent of
\* a post is the beginning of the line it was called with, and the whole line
\* when it reports success.
THEOREM SendsOwnLine == PostSpec => []PostsOwnLine
<1>1. PostIInv /\ [PostNext]_postVars => PostIInv'
  <2> SUFFICES ASSUME PostIInv, [PostNext]_postVars PROVE PostIInv' OBVIOUS
  <2>1. CASE PostNext
    BY <2>1, PostCallIInv, LockIInv, SetIInv, ReadIInv, UnlockIInv, AssignIInv DEF PostNext, PostStep
  <2>2. CASE UNCHANGED postVars
    BY <2>2 DEF postVars, PostIInv, PostTypeInv, HolderIsInside, PayloadFollows, UploadsOwn
  <2> QED BY <2>1, <2>2
<1> QED BY PostInitIInv, PostIInvImplies, <1>1, PTL DEF PostSpec

-----------------------------------------------------------------------------
(* The transport *)

\* What the clients were given to connect to does not change.
IpInv == ip \in NamesOf

LEMMA IpKept ==
  ASSUME IpInv, [Next]_vars
  PROVE  IpInv'
<1>1. CASE UNCHANGED vars BY <1>1 DEF IpInv, vars, objectVars
<1>2. CASE Next
  <2>1. CASE Network BY <2>1 DEF Network, IpInv
  <2>2. CASE InitializeMaster \/ DeleteMaster
    BY <2>2 DEF InitializeMaster, DeleteMaster, objectVars, IpInv
  <2>3. CASE \E o \in Clients \cup Servers : InCall(o)
    BY <2>3 DEF InCall, LogStep, Lookup, FcntlFails, Connect, ConnectEnds, Accept, IpInv
  <2>4. CASE \E c \in Clients : InitializeClient(c) \/ ConnectBegins(c) \/ DeleteClient(c)
    BY <2>4 DEF InitializeClient, ConnectBegins, DeleteClient, IpInv
  <2>5. CASE \E s \in Servers : AcceptBegins(s) \/ DeleteServer(s)
    BY <2>5 DEF AcceptBegins, DeleteServer, objectVars, IpInv
  <2> QED BY <1>2, <2>1, <2>2, <2>3, <2>4, <2>5 DEF Next
<1> QED BY <1>1, <1>2

LEMMA GotoComposes ==
  ASSUME NEW o, NEW place, Goto(o, place)
  PROVE  [PostNext]_postVars
BY DEF Goto

LEMMA LogThenComposes ==
  ASSUME ~aborted, NEW o, NEW place, LogThen(o, place)
  PROVE  [PostNext]_postVars
BY GotoComposes DEF LogThen, PostNext

\* A call of the transport does with the log client what a thread of its own
\* may do, or leaves it alone.
LEMMA PostsCompose ==
  ASSUME [Next]_vars
  PROVE  [PostNext]_postVars
<1>1. CASE UNCHANGED vars BY <1>1 DEF vars
<1>2. CASE Next
  <2>1. ~aborted BY <1>2 DEF Next
  <2>2. CASE Network \/ InitializeMaster \/ DeleteMaster
    BY <2>2 DEF Network, InitializeMaster, DeleteMaster
  <2>3. ASSUME NEW o \in Clients \cup Servers, InCall(o)
        PROVE  [PostNext]_postVars
    <3>1. CASE LogStep(o) BY <3>1, GotoComposes DEF LogStep, PostNext
    <3>2. CASE Lookup(o) BY <2>1, <3>2, GotoComposes, LogThenComposes DEF Lookup
    <3>3. CASE Connect(o) BY <2>1, <3>3, GotoComposes, LogThenComposes DEF Connect
    <3>4. CASE ConnectEnds(o) BY <2>1, <3>4, GotoComposes, LogThenComposes DEF ConnectEnds
    <3>5. CASE Accept(o) BY <2>1, <3>5, GotoComposes, LogThenComposes DEF Accept
    <3>6. CASE FcntlFails(o) BY <2>1, <3>6, LogThenComposes DEF FcntlFails
    <3> QED BY <2>3, <3>1, <3>2, <3>3, <3>4, <3>5, <3>6 DEF InCall
  <2>4. ASSUME NEW c \in Clients,
               InitializeClient(c) \/ ConnectBegins(c) \/ DeleteClient(c)
        PROVE  [PostNext]_postVars
    BY <2>1, <2>4, GotoComposes, LogThenComposes
       DEF InitializeClient, ConnectBegins, DeleteClient
  <2>5. ASSUME NEW s \in Servers, AcceptBegins(s) \/ DeleteServer(s)
        PROVE  [PostNext]_postVars
    BY <2>1, <2>5, GotoComposes, LogThenComposes DEF AcceptBegins, DeleteServer
  <2> QED BY <1>2, <2>2, <2>3, <2>4, <2>5 DEF Next
<1> QED BY <1>1, <1>2

\* The same for the lookup: it is called for names, by threads that look up.
LEMMA LookupsCompose ==
  ASSUME IpInv, [Next]_vars
  PROVE  [DnsNext]_dnsVars
<1>1. CASE UNCHANGED vars BY <1>1 DEF vars
<1>2. CASE Next
  <2>1. CASE Network \/ InitializeMaster \/ DeleteMaster
    BY <2>1 DEF Network, InitializeMaster, DeleteMaster
  <2>2. ASSUME NEW o \in Clients \cup Servers, InCall(o)
        PROVE  [DnsNext]_dnsVars
    <3>1. CASE LogStep(o) BY <3>1 DEF LogStep
    <3>2. CASE o \in Clients /\ Lookup(o) BY <3>2, TcpAssumption DEF Lookup, DnsNext
    <3>3. CASE FcntlFails(o) \/ Connect(o) \/ ConnectEnds(o) \/ Accept(o)
      BY <3>3 DEF FcntlFails, Connect, ConnectEnds, Accept
    <3> QED BY <2>2, <3>1, <3>2, <3>3 DEF InCall
  <2>3. ASSUME NEW c \in Clients, ConnectBegins(c)
        PROVE  [DnsNext]_dnsVars
    <3>1. ip[c] \in Names \cup Literals BY TcpAssumption DEF IpInv
    <3> QED BY <2>3, <3>1, TcpAssumption DEF ConnectBegins, DnsNext
  <2>4. ASSUME NEW c \in Clients, InitializeClient(c) \/ DeleteClient(c)
        PROVE  [DnsNext]_dnsVars
    BY <2>4 DEF InitializeClient, DeleteClient
  <2>5. ASSUME NEW s \in Servers, AcceptBegins(s) \/ DeleteServer(s)
        PROVE  [DnsNext]_dnsVars
    BY <2>5 DEF AcceptBegins, DeleteServer
  <2> QED BY <1>2, <2>1, <2>2, <2>3, <2>4, <2>5 DEF Next
<1> QED BY <1>1, <1>2

\* The transport keeps the protocol of the lookup: the clients that connect are
\* threads of DnsWrapper, whatever else they do between and during their calls.
THEOREM ImplementsLookups == Spec => DnsSpec
<1>1. Init => DnsInit /\ IpInv BY DEF Init, IpInv
<1> QED BY <1>1, IpKept, LookupsCompose, PTL DEF Spec, DnsSpec

\* And that of the log client, whatever fails in whichever call.
THEOREM ImplementsPosts == Spec => PostSpec
<1>1. Init => PostInit BY DEF Init
<1> QED BY <1>1, PostsCompose, PTL DEF Spec, PostSpec

\* So in the transport too a Connect that no other lookup overlapped goes to
\* the address of its own name, and every log line that went out is whole.
THEOREM TransportLooksUpAndLogs == Spec => [](AnswersOverlappingLookup /\ PostsOwnLine)
BY ImplementsLookups, ImplementsPosts, AnswersAreCurrent, SendsOwnLine, PTL

-----------------------------------------------------------------------------
(* Descriptors *)

\* A set of numbers that is not empty has a smallest one.
LEMMA SmallestExists ==
  ASSUME NEW S \in SUBSET Nat, S # {}
  PROVE  \E x \in S : \A y \in S : x <= y
<1> DEFINE below == {0..x : x \in S}
           R == StrictSubsetOrdering(Nat)
<1>1. \A x \in S : 0..x \in FiniteSubsetsOf(Nat)
  <2> SUFFICES ASSUME NEW x \in S PROVE 0..x \in FiniteSubsetsOf(Nat) OBVIOUS
  <2>1. x \in Nat /\ 0 \in Int /\ x \in Int OBVIOUS
  <2>2. IsFiniteSet(0..x) BY <2>1, FS_Interval
  <2>3. 0..x \subseteq Nat BY <2>1
  <2> QED BY <2>2, <2>3 DEF FiniteSubsetsOf
<1>2. below \subseteq FiniteSubsetsOf(Nat) BY <1>1
<1>3. below # {} OBVIOUS
<1>4. \E b \in below : \A c \in below : ~(<<c, b>> \in R)
  <2> HIDE DEF below, R
  <2>1. IsWellFoundedOn(R, FiniteSubsetsOf(Nat)) BY FS_StrictSubsetOrderingWellFounded DEF R
  <2> QED BY <1>2, <1>3, <2>1, WFMin
<1>5. \A x, y \in S : ~(<<0..y, 0..x>> \in R) => x <= y
  <2> SUFFICES ASSUME NEW x \in S, NEW y \in S, y < x PROVE <<0..y, 0..x>> \in R OBVIOUS
  <2>1. 0..y \in FiniteSubsetsOf(Nat) /\ 0..x \in FiniteSubsetsOf(Nat) BY <1>1
  <2>2. 0..y \subseteq 0..x /\ 0..y # 0..x OBVIOUS
  <2> QED BY <2>1, <2>2 DEF StrictSubsetOrdering, FiniteSubsetsOf
<1> QED BY <1>4, <1>5

\* So socket and accept return a free descriptor when there is one.
LEMMA LowestIsFree ==
  ASSUME FreeDescriptors # {}
  PROVE  Lowest \in Descriptors /\ descriptors[Lowest] = Closed
<1>1. FreeDescriptors \in SUBSET Nat BY TcpAssumption DEF FreeDescriptors
<1>2. \E fd \in FreeDescriptors : \A e \in FreeDescriptors : fd <= e BY <1>1, SmallestExists
<1>3. Lowest \in FreeDescriptors BY <1>2 DEF Lowest
<1> QED BY <1>3 DEF FreeDescriptors

\* The kinds of a descriptor, and whose it is, are told apart.
LEMMA Kinds ==
  ASSUME NEW c, NEW d
  PROVE  /\ Closed # Listener /\ Closed # Own(c) /\ Closed # Peer(c)
         /\ Listener # Own(c) /\ Listener # Peer(c) /\ Own(c) # Peer(d)
         /\ Own(c) = Own(d) => c = d
BY DEF Closed, Listener, Own, Peer

Objects == Clients \cup Servers

SocketTypeInv ==
  /\ descriptors = [fd \in Descriptors |-> descriptors[fd]]
  /\ lSocket \in Descriptors \cup {0}
  /\ backlog \in Seq(Clients)
  /\ cSocket \in [Objects -> Descriptors \cup {0, -1}]

\* `after' always says where the object is or goes; only Goto moves it, and a
\* log line is posted before a client is ready again or found unusable, and
\* by a server that stays idle.
CallInv ==
  /\ call = [o \in Objects |-> call[o]] /\ after = [o \in Objects |-> after[o]]
  /\ \A o \in Objects : \/ call[o] = after[o]
                        \/ call[o] = "log" /\ after[o] \in {"ready", "unusable", "idle"}

SocketInv ==
  /\ \A c \in Clients :
       /\ after[c] = "new" => cSocket[c] = 0
       /\ after[c] \in {"ready", "lookup", "connect", "select", "connected"} => cSocket[c] > 0
       /\ after[c] # "deleted" /\ cSocket[c] > 0 => descriptors[cSocket[c]] = Own(c)
  /\ \A s \in Servers :
       cSocket[s] > 0 => \E c \in Clients : descriptors[cSocket[s]] = Peer(c)
  /\ lSocket # 0 => descriptors[lSocket] = Listener
  /\ \A s, r \in Servers : s # r /\ cSocket[s] > 0 => cSocket[s] # cSocket[r]

LEMMA InitSockets == Init => SocketTypeInv /\ CallInv /\ SocketInv
<1> SUFFICES ASSUME Init PROVE SocketTypeInv /\ CallInv /\ SocketInv OBVIOUS
<1>1. SocketTypeInv BY DEF Init, SocketTypeInv, Objects
<1>2. CallInv BY DEF Init, CallInv, Objects
<1>3. SocketInv BY DEF Init, SocketInv
<1> QED BY <1>1, <1>2, <1>3

LEMMA GotoCall ==
  ASSUME CallInv, NEW o \in Objects, NEW place, Goto(o, place)
  PROVE  CallInv' /\ after' = [after EXCEPT ![o] = place]
BY DEF CallInv, Goto

LEMMA LogThenCall ==
  ASSUME CallInv, NEW o \in Objects, NEW place \in {"ready", "unusable", "idle"}, LogThen(o, place)
  PROVE  CallInv' /\ after' = [after EXCEPT ![o] = place]
<1>1. CASE o \in Posters BY <1>1 DEF CallInv, LogThen
<1>2. CASE o \notin Posters BY <1>2, GotoCall DEF LogThen
<1> QED BY <1>1, <1>2

LEMMA LogStepCall ==
  ASSUME CallInv, NEW o \in Objects, LogStep(o)
  PROVE  CallInv' /\ after' = after
<1>1. CASE UNCHANGED <<call, after>> BY <1>1 DEF CallInv
<1>2. CASE Goto(o, after[o])
  <2>1. CallInv' /\ after' = [after EXCEPT ![o] = after[o]] BY <1>2, GotoCall
  <2> QED BY <2>1 DEF CallInv
<1> QED BY <1>1, <1>2 DEF LogStep

\* Where an action finds an object and where it takes it.
Moves(o, from, to) ==
  after[o] \in from /\ (\E p \in to : after' = [after EXCEPT ![o] = p]) /\ CallInv'

LEMMA ClientMoves ==
  ASSUME CallInv, NEW c \in Clients
  PROVE  /\ InitializeClient(c) => Moves(c, {"new"}, {"ready", "unusable"})
         /\ ConnectBegins(c) => Moves(c, {"ready"}, {"lookup", "connect"})
         /\ Lookup(c) => Moves(c, {"lookup"}, {"lookup", "connect", "ready"})
         /\ FcntlFails(c) => Moves(c, {"connect"}, {"ready"})
         /\ Connect(c) => Moves(c, {"connect"}, {"select", "ready"})
         /\ ConnectEnds(c) => Moves(c, {"select"}, {"connected", "ready"})
         /\ DeleteClient(c) => Moves(c, {"ready", "unusable", "connected"}, {"deleted"})
<1> USE DEF Objects, Moves
<1>1. \A p : Goto(c, p) => CallInv' /\ after' = [after EXCEPT ![c] = p] BY GotoCall
<1>2. \A p \in {"ready", "unusable", "idle"} :
        LogThen(c, p) => CallInv' /\ after' = [after EXCEPT ![c] = p] BY LogThenCall
<1>3. call[c] # "log" => call[c] = after[c] BY DEF CallInv
<1>4. UNCHANGED <<call, after>> => CallInv' /\ after' = [after EXCEPT ![c] = after[c]]
  BY DEF CallInv
<1> HIDE DEF Moves
<1>5. InitializeClient(c) => Moves(c, {"new"}, {"ready", "unusable"})
  BY <1>1, <1>2, <1>3 DEF InitializeClient, Moves
<1>6. ConnectBegins(c) => Moves(c, {"ready"}, {"lookup", "connect"})
  BY <1>1, <1>3 DEF ConnectBegins, Moves
<1>7. Lookup(c) => Moves(c, {"lookup"}, {"lookup", "connect", "ready"})
  BY <1>1, <1>2, <1>3, <1>4 DEF Lookup, Moves
<1>8. Connect(c) => Moves(c, {"connect"}, {"select", "ready"})
  BY <1>1, <1>2, <1>3 DEF Connect, Moves
<1>9. ConnectEnds(c) => Moves(c, {"select"}, {"connected", "ready"})
  BY <1>1, <1>2, <1>3 DEF ConnectEnds, Moves
<1>10. DeleteClient(c) => Moves(c, {"ready", "unusable", "connected"}, {"deleted"})
  BY <1>1, <1>3 DEF DeleteClient, Moves
<1>11. FcntlFails(c) => Moves(c, {"connect"}, {"ready"})
  BY <1>2, <1>3 DEF FcntlFails, Moves
<1> QED BY <1>5, <1>6, <1>7, <1>8, <1>9, <1>10, <1>11

LEMMA ServerMoves ==
  ASSUME CallInv, NEW s \in Servers
  PROVE  /\ AcceptBegins(s) => Moves(s, {"idle"}, {"accept", "idle"})
         /\ Accept(s) => Moves(s, {"accept"}, {"accepted", "idle"})
         /\ DeleteServer(s) => Moves(s, {"idle", "accepted"}, {"idle"})
<1> USE DEF Objects
<1>1. \A p : Goto(s, p) => CallInv' /\ after' = [after EXCEPT ![s] = p] BY GotoCall
<1>2. \A p \in {"ready", "unusable", "idle"} :
        LogThen(s, p) => CallInv' /\ after' = [after EXCEPT ![s] = p] BY LogThenCall
<1>3. call[s] # "log" => call[s] = after[s] BY DEF CallInv
<1>4. AcceptBegins(s) => Moves(s, {"idle"}, {"accept", "idle"})
  BY <1>1, <1>2, <1>3 DEF AcceptBegins, Moves
<1>5. Accept(s) => Moves(s, {"accept"}, {"accepted", "idle"})
  BY <1>1, <1>2, <1>3 DEF Accept, Moves
<1>6. DeleteServer(s) => Moves(s, {"idle", "accepted"}, {"idle"})
  BY <1>1, <1>2, <1>3 DEF DeleteServer, Moves
<1> QED BY <1>4, <1>5, <1>6

\* The others stay where they are.
LEMMA OthersStay ==
  ASSUME CallInv, NEW o \in Objects, NEW from, NEW to, Moves(o, from, to)
  PROVE  after'[o] \in to /\ \A u \in Objects : u # o => after'[u] = after[u]
BY DEF CallInv, Moves

LEMMA StepCall ==
  ASSUME CallInv, [Next]_vars
  PROVE  CallInv'
<1>1. CASE UNCHANGED <<call, after>> BY <1>1 DEF CallInv
<1>2. CASE UNCHANGED vars BY <1>1, <1>2 DEF vars, objectVars
<1>3. CASE Network \/ InitializeMaster \/ DeleteMaster
  BY <1>1, <1>3 DEF Network, InitializeMaster, DeleteMaster, objectVars
<1>4. ASSUME NEW o \in Objects, InCall(o) PROVE CallInv'
  BY <1>4, LogStepCall, ClientMoves, ServerMoves DEF InCall, Moves
<1>5. ASSUME NEW c \in Clients, InitializeClient(c) \/ ConnectBegins(c) \/ DeleteClient(c)
      PROVE  CallInv'
  BY <1>5, ClientMoves DEF Moves
<1>6. ASSUME NEW s \in Servers, AcceptBegins(s) \/ DeleteServer(s) PROVE CallInv'
  BY <1>6, ServerMoves DEF Moves
<1> QED BY <1>2, <1>3, <1>4, <1>5, <1>6 DEF Next, Objects

\* The places in which a client has its socket.
Held == {"ready", "lookup", "connect", "select", "connected"}

SocketIInv == SocketTypeInv /\ CallInv /\ SocketInv

\* Most actions leave the descriptors alone and move a client that holds its
\* socket to a place where it still does.
LEMMA SocketsUntouched ==
  ASSUME SocketIInv, CallInv', UNCHANGED <<descriptors, lSocket, cSocket>>,
         backlog' \in Seq(Clients),
         \A c \in Clients : after'[c] = after[c] \/ (after[c] \in Held /\ after'[c] \in Held)
  PROVE  SocketIInv'
<1>1. SocketTypeInv' BY DEF SocketIInv, SocketTypeInv
<1>2. SocketInv'
  <2>1. \A c \in Clients :
          /\ after'[c] = "new" => cSocket'[c] = 0
          /\ after'[c] \in Held => cSocket'[c] > 0
          /\ after'[c] # "deleted" /\ cSocket'[c] > 0 => descriptors'[cSocket'[c]] = Own(c)
    BY DEF SocketIInv, SocketInv, Held
  <2> QED BY <2>1 DEF SocketIInv, SocketInv, Held
<1> QED BY <1>1, <1>2 DEF SocketIInv

\* A descriptor is opened: what was open stays as it was.
LEMMA OpenKeeps ==
  ASSUME SocketTypeInv, FreeDescriptors # {}, NEW socket,
         descriptors' = [descriptors EXCEPT ![Lowest] = socket]
  PROVE  /\ Lowest \in Descriptors /\ Lowest \in Int /\ Lowest > 0
         /\ descriptors[Lowest] = Closed /\ descriptors'[Lowest] = socket
         /\ \A fd \in Descriptors : descriptors[fd] # Closed => descriptors'[fd] = descriptors[fd]
         /\ descriptors' = [fd \in Descriptors |-> descriptors'[fd]]
<1>1. Lowest \in Descriptors /\ descriptors[Lowest] = Closed BY LowestIsFree
<1>2. Lowest \in Int /\ Lowest > 0 BY <1>1, TcpAssumption
<1> HIDE DEF Lowest
<1> QED BY <1>1, <1>2 DEF SocketTypeInv

\* So everybody who holds a socket still holds it.
Holds(o) ==
  /\ o \in Clients /\ after[o] # "deleted" /\ cSocket[o] > 0 => descriptors[cSocket[o]] = Own(o)
  /\ o \in Servers /\ cSocket[o] > 0 => \E c \in Clients : descriptors[cSocket[o]] = Peer(c)

LEMMA OthersHold ==
  ASSUME SocketIInv, NEW o \in Objects, cSocket'[o] = cSocket[o], after'[o] = after[o],
         \A fd \in Descriptors :
           descriptors[fd] # Closed /\ fd = cSocket[o] => descriptors'[fd] = descriptors[fd]
  PROVE  Holds(o)'
<1>1. Holds(o) BY DEF SocketIInv, SocketInv, Holds
<1>2. cSocket[o] > 0 => cSocket[o] \in Descriptors BY DEF SocketIInv, SocketTypeInv
<1> QED BY <1>1, <1>2, Kinds DEF Holds

\* The invariant in parts: everybody holds, the listener stands, no two servers
\* hold the same.
LEMMA SocketParts ==
  ASSUME \A o \in Objects : Holds(o)',
         \A c \in Clients : /\ after'[c] = "new" => cSocket'[c] = 0
                            /\ after'[c] \in Held => cSocket'[c] > 0,
         lSocket' # 0 => descriptors'[lSocket'] = Listener,
         \A s, r \in Servers : s # r /\ cSocket'[s] > 0 => cSocket'[s] # cSocket'[r]
  PROVE  SocketInv'
BY DEF SocketInv, Holds, Objects, Held

LEMMA InitializeClientSockets ==
  ASSUME SocketIInv, NEW c \in Clients, InitializeClient(c)
  PROVE  SocketIInv'
<1> USE DEF SocketIInv
<1>1. Moves(c, {"new"}, {"ready", "unusable"}) BY ClientMoves
<1>2. CallInv' /\ after[c] = "new" BY <1>1 DEF Moves
<1>3. after'[c] \in {"ready", "unusable"} /\ \A u \in Objects : u # c => after'[u] = after[u]
  BY <1>1, OthersStay DEF Objects
<1>4. UNCHANGED <<lSocket, backlog>> BY DEF InitializeClient
<1>5. /\ \A u \in Objects : u # c => cSocket'[u] = cSocket[u]
      /\ \A s \in Servers : cSocket'[s] = cSocket[s]
  BY TcpAssumption DEF InitializeClient, SocketTypeInv, Objects
<1>6. \A fd \in Descriptors : descriptors[fd] # Closed => descriptors'[fd] = descriptors[fd]
  BY OpenKeeps DEF InitializeClient
<1>7. /\ Holds(c)' /\ SocketTypeInv'
      /\ after'[c] \in Held => cSocket'[c] > 0
  <2>1. CASE /\ FreeDescriptors # {} /\ descriptors' = [descriptors EXCEPT ![Lowest] = Own(c)]
             /\ cSocket' = [cSocket EXCEPT ![c] = Lowest]
    <3>1. /\ Lowest \in Descriptors /\ Lowest \in Int /\ Lowest > 0 /\ descriptors'[Lowest] = Own(c)
          /\ descriptors' = [fd \in Descriptors |-> descriptors'[fd]]
      BY <2>1, OpenKeeps
    <3> HIDE DEF Lowest
    <3>2. cSocket'[c] = Lowest BY <2>1 DEF SocketTypeInv, Objects
    <3>3. SocketTypeInv' BY <1>4, <2>1, <3>1 DEF SocketTypeInv, Objects
    <3> QED BY <3>1, <3>2, <3>3, TcpAssumption DEF Holds
  <2>2. CASE /\ FreeDescriptors = {} /\ UNCHANGED descriptors
             /\ cSocket' = [cSocket EXCEPT ![c] = -1] /\ LogThen(c, "unusable")
    <3>1. after'[c] = "unusable" /\ cSocket'[c] = -1
      <4>1. c \in Objects /\ "unusable" \in {"ready", "unusable", "idle"} BY DEF Objects
      <4>2. after' = [after EXCEPT ![c] = "unusable"] BY <2>2, <4>1, LogThenCall
      <4>3. after'[c] = "unusable" BY <4>1, <4>2 DEF CallInv
      <4> QED BY <2>2, <4>1, <4>3 DEF SocketTypeInv
    <3>2. SocketTypeInv' BY <1>4, <2>2 DEF SocketTypeInv, Objects
    <3> QED BY <3>1, <3>2, TcpAssumption DEF Holds, Held
  <2> QED BY <2>1, <2>2 DEF InitializeClient
<1>8. \A o \in Objects : Holds(o)' BY <1>3, <1>5, <1>6, <1>7, OthersHold
<1>9. \A u \in Clients : /\ after'[u] = "new" => cSocket'[u] = 0
                         /\ after'[u] \in Held => cSocket'[u] > 0
  BY <1>3, <1>5, <1>7 DEF SocketInv, Held, Objects
<1>10. lSocket' # 0 => descriptors'[lSocket'] = Listener
  BY <1>4, <1>6, Kinds DEF SocketInv, SocketTypeInv
<1>11. \A s, r \in Servers : s # r /\ cSocket'[s] > 0 => cSocket'[s] # cSocket'[r]
  BY <1>5 DEF SocketInv
<1> QED BY <1>2, <1>7, <1>8, <1>9, <1>10, <1>11, SocketParts

LEMMA AcceptSockets ==
  ASSUME SocketIInv, NEW s \in Servers, Accept(s)
  PROVE  SocketIInv'
<1> USE DEF SocketIInv
<1>1. Moves(s, {"accept"}, {"accepted", "idle"}) BY ServerMoves
<1>2. CallInv' BY <1>1 DEF Moves
<1>3. \A u \in Objects : u # s => after'[u] = after[u] BY <1>1, OthersStay DEF Objects
<1>4. UNCHANGED lSocket BY DEF Accept
<1>5. \A u \in Objects : u # s => cSocket'[u] = cSocket[u] BY DEF Accept, SocketTypeInv, Objects
<1>6. \A fd \in Descriptors : descriptors[fd] # Closed => descriptors'[fd] = descriptors[fd]
  BY OpenKeeps DEF Accept
<1>7. /\ Holds(s)' /\ SocketTypeInv'
      /\ cSocket'[s] > 0 => cSocket'[s] \in Descriptors /\ descriptors[cSocket'[s]] = Closed
  <2>1. CASE /\ FreeDescriptors # {} /\ backlog # <<>> /\ backlog' = Tail(backlog)
             /\ descriptors' = [descriptors EXCEPT ![Lowest] = Peer(Head(backlog))]
             /\ cSocket' = [cSocket EXCEPT ![s] = Lowest]
    <3>1. /\ Lowest \in Descriptors /\ Lowest \in Int /\ Lowest > 0
          /\ descriptors[Lowest] = Closed /\ descriptors'[Lowest] = Peer(Head(backlog))
          /\ descriptors' = [fd \in Descriptors |-> descriptors'[fd]]
      BY <2>1, OpenKeeps
    <3> HIDE DEF Lowest
    <3>2. Head(backlog) \in Clients /\ backlog' \in Seq(Clients) BY <2>1 DEF SocketTypeInv
    <3>3. cSocket'[s] = Lowest BY <2>1 DEF SocketTypeInv, Objects
    <3>4. SocketTypeInv' BY <1>4, <2>1, <3>1, <3>2 DEF SocketTypeInv, Objects
    <3> QED BY <3>1, <3>2, <3>3, <3>4, TcpAssumption DEF Holds
  <2>2. CASE UNCHANGED <<backlog, descriptors>> /\ cSocket' = [cSocket EXCEPT ![s] = -1]
    <3>1. cSocket'[s] = -1 BY <2>2 DEF SocketTypeInv, Objects
    <3>2. SocketTypeInv' BY <1>4, <2>2 DEF SocketTypeInv, Objects
    <3> QED BY <3>1, <3>2, TcpAssumption DEF Holds
  <2> QED BY <2>1, <2>2 DEF Accept
<1>8. \A o \in Objects : Holds(o)' BY <1>3, <1>5, <1>6, <1>7, OthersHold
<1>9. \A u \in Clients : /\ after'[u] = "new" => cSocket'[u] = 0
                         /\ after'[u] \in Held => cSocket'[u] > 0
  BY <1>3, <1>5, TcpAssumption DEF SocketInv, Held, Objects
<1>10. lSocket' # 0 => descriptors'[lSocket'] = Listener
  BY <1>4, <1>6, Kinds DEF SocketInv, SocketTypeInv
<1>11. \A r \in Servers : r # s /\ cSocket[r] > 0 =>
         cSocket[r] \in Descriptors /\ descriptors[cSocket[r]] # Closed
  BY Kinds DEF SocketInv, SocketTypeInv, Objects
<1>12. \A q, r \in Servers : q # r /\ cSocket'[q] > 0 => cSocket'[q] # cSocket'[r]
  <2> SUFFICES ASSUME NEW q \in Servers, NEW r \in Servers, q # r, cSocket'[q] > 0
               PROVE  cSocket'[q] # cSocket'[r]
    OBVIOUS
  <2>1. CASE q # s /\ r # s BY <1>5, <2>1 DEF SocketInv, Objects
  <2>2. CASE q = s /\ r # s BY <1>5, <1>7, <1>11, <2>2 DEF Objects
  <2>3. CASE r = s /\ q # s BY <1>5, <1>7, <1>11, <2>3 DEF Objects
  <2> QED BY <2>1, <2>2, <2>3
<1> QED BY <1>2, <1>7, <1>8, <1>9, <1>10, <1>12, SocketParts

\* A descriptor is closed: nobody else held it.
LEMMA CloseKeeps ==
  ASSUME SocketTypeInv, NEW fd, Close(fd)
  PROVE  /\ descriptors' = [e \in Descriptors |-> descriptors'[e]]
         /\ \A e \in Descriptors : e # fd => descriptors'[e] = descriptors[e]
         /\ backlog' \in Seq(Clients)
BY DEF SocketTypeInv, Close

LEMMA DeleteClientSockets ==
  ASSUME SocketIInv, NEW c \in Clients, DeleteClient(c)
  PROVE  SocketIInv'
<1> USE DEF SocketIInv
<1>1. Moves(c, {"ready", "unusable", "connected"}, {"deleted"}) BY ClientMoves
<1>2. CallInv' /\ after[c] \in {"ready", "unusable", "connected"} BY <1>1 DEF Moves
<1>3. after'[c] = "deleted" /\ \A u \in Objects : u # c => after'[u] = after[u]
  BY <1>1, OthersStay DEF Objects
<1>4. UNCHANGED <<lSocket, cSocket>> /\ Close(cSocket[c]) BY DEF DeleteClient
<1>5. /\ descriptors' = [e \in Descriptors |-> descriptors'[e]] /\ backlog' \in Seq(Clients)
      /\ \A e \in Descriptors : e # cSocket[c] => descriptors'[e] = descriptors[e]
  BY <1>4, CloseKeeps
<1>6. SocketTypeInv' BY <1>4, <1>5 DEF SocketTypeInv
<1>7. \A e \in Descriptors : e = cSocket[c] => descriptors[e] = Own(c)
  <2> SUFFICES ASSUME cSocket[c] \in Descriptors PROVE descriptors[cSocket[c]] = Own(c) OBVIOUS
  <2>1. \A n \in Nat \ {0} : n > 0 OBVIOUS
  <2>2. after[c] # "deleted" BY <1>2
  <2>3. cSocket[c] > 0
    <3>1. Descriptors \subseteq Nat \ {0} BY TcpAssumption
    <3> QED BY <2>1, <3>1
  <2> QED BY <2>2, <2>3 DEF SocketInv
<1>8. \A o \in Objects : Holds(o)'
  <2> SUFFICES ASSUME NEW o \in Objects PROVE Holds(o)' OBVIOUS
  <2>1. CASE o = c BY <1>3, <2>1, TcpAssumption DEF Holds
  <2>2. CASE o # c
    <3>1. Holds(o) BY DEF SocketInv, Holds
    <3>2. cSocket[o] > 0 => cSocket[o] \in Descriptors BY DEF SocketTypeInv
    <3>3. CASE o \in Clients
      BY <1>3, <1>4, <1>5, <1>7, <2>2, <3>1, <3>2, <3>3, Kinds, TcpAssumption DEF Holds
    <3>4. CASE o \in Servers
      BY <1>3, <1>4, <1>5, <1>7, <2>2, <3>1, <3>2, <3>4, Kinds, TcpAssumption DEF Holds
    <3> QED BY <3>3, <3>4 DEF Objects
  <2> QED BY <2>1, <2>2
<1>9. \A u \in Clients : /\ after'[u] = "new" => cSocket'[u] = 0
                         /\ after'[u] \in Held => cSocket'[u] > 0
  BY <1>3, <1>4 DEF SocketInv, Held, Objects
<1>10. lSocket' # 0 => descriptors'[lSocket'] = Listener
  BY <1>4, <1>5, <1>7, Kinds DEF SocketInv, SocketTypeInv
<1>11. \A s, r \in Servers : s # r /\ cSocket'[s] > 0 => cSocket'[s] # cSocket'[r]
  BY <1>4 DEF SocketInv
<1> QED BY <1>2, <1>6, <1>8, <1>9, <1>10, <1>11, SocketParts

LEMMA DeleteServerSockets ==
  ASSUME SocketIInv, NEW s \in Servers, DeleteServer(s)
  PROVE  SocketIInv'
<1> USE DEF SocketIInv
<1>1. Moves(s, {"idle", "accepted"}, {"idle"}) BY ServerMoves
<1>2. CallInv' BY <1>1 DEF Moves
<1>3. \A c \in Clients : after'[c] = after[c] BY <1>1, OthersStay, TcpAssumption DEF Objects
<1>4. UNCHANGED lSocket BY DEF DeleteServer
<1>5. CASE UNCHANGED <<descriptors, backlog, cSocket>>
  BY <1>2, <1>3, <1>4, <1>5, SocketsUntouched DEF SocketTypeInv
<1>6. CASE cSocket[s] > 0 /\ Close(cSocket[s]) /\ cSocket' = [cSocket EXCEPT ![s] = 0]
  <2>1. cSocket'[s] = 0 /\ \A u \in Objects : u # s => cSocket'[u] = cSocket[u]
    BY <1>6 DEF SocketTypeInv, Objects
  <2>2. /\ descriptors' = [e \in Descriptors |-> descriptors'[e]] /\ backlog' \in Seq(Clients)
        /\ \A e \in Descriptors : e # cSocket[s] => descriptors'[e] = descriptors[e]
    BY <1>6, CloseKeeps
  <2>3. SocketTypeInv' BY <1>4, <1>6, <2>2 DEF SocketTypeInv, Objects
  <2>4. PICK d \in Clients : descriptors[cSocket[s]] = Peer(d) BY <1>6 DEF SocketInv
  <2>5. \A o \in Objects : Holds(o)'
    <3> SUFFICES ASSUME NEW o \in Objects PROVE Holds(o)' OBVIOUS
    <3>1. CASE o = s BY <2>1, <3>1, TcpAssumption DEF Holds
    <3>2. CASE o # s
      <4>1. Holds(o) BY DEF SocketInv, Holds
      <4>2. cSocket'[o] = cSocket[o] /\ (cSocket[o] > 0 => cSocket[o] \in Descriptors)
        BY <2>1, <3>2 DEF SocketTypeInv
      <4>3. CASE o \in Clients
        BY <1>3, <2>2, <2>4, <4>1, <4>2, <4>3, Kinds, TcpAssumption DEF Holds
      <4>4. CASE o \in Servers
        <5>1. cSocket[o] > 0 => cSocket[o] # cSocket[s] BY <3>2, <4>4 DEF SocketInv
        <5> QED BY <2>2, <4>1, <4>2, <4>4, <5>1, TcpAssumption DEF Holds
      <4> QED BY <4>3, <4>4 DEF Objects
    <3> QED BY <3>1, <3>2
  <2>6. \A u \in Clients : /\ after'[u] = "new" => cSocket'[u] = 0
                           /\ after'[u] \in Held => cSocket'[u] > 0
    BY <1>3, <2>1, TcpAssumption DEF SocketInv, Held, Objects
  <2>7. lSocket' # 0 => descriptors'[lSocket'] = Listener
    BY <1>4, <2>2, <2>4, Kinds DEF SocketInv, SocketTypeInv
  <2>8. \A q, r \in Servers : q # r /\ cSocket'[q] > 0 => cSocket'[q] # cSocket'[r]
    BY <2>1 DEF SocketInv, Objects
  <2> QED BY <1>2, <2>3, <2>5, <2>6, <2>7, <2>8, SocketParts
<1> QED BY <1>5, <1>6 DEF DeleteServer

LEMMA MasterSockets ==
  ASSUME SocketIInv, InitializeMaster \/ DeleteMaster
  PROVE  SocketIInv'
<1> USE DEF SocketIInv
<1>1. UNCHANGED <<cSocket, call, after>> BY DEF InitializeMaster, DeleteMaster, objectVars
<1>2. CallInv' BY <1>1 DEF CallInv
<1>3. CASE InitializeMaster
  <2>1. /\ FreeDescriptors # {} /\ lSocket' = Lowest /\ backlog' = backlog
        /\ descriptors' = [descriptors EXCEPT ![Lowest] = Listener]
    BY <1>3 DEF InitializeMaster
  <2>2. /\ lSocket' \in Descriptors /\ descriptors'[lSocket'] = Listener
        /\ \A fd \in Descriptors : descriptors[fd] # Closed => descriptors'[fd] = descriptors[fd]
        /\ descriptors' = [fd \in Descriptors |-> descriptors'[fd]]
    BY <2>1, OpenKeeps
  <2>3. SocketTypeInv' BY <1>1, <2>1, <2>2 DEF SocketTypeInv
  <2>4. \A o \in Objects : Holds(o)' BY <1>1, <2>2, OthersHold
  <2> QED BY <1>1, <1>2, <2>2, <2>3, <2>4, SocketParts DEF SocketInv, Held
<1>4. CASE DeleteMaster
  <2>1. lSocket # 0 /\ lSocket' = 0 /\ Close(lSocket) BY <1>4 DEF DeleteMaster
  <2>2. /\ descriptors' = [e \in Descriptors |-> descriptors'[e]] /\ backlog' \in Seq(Clients)
        /\ \A e \in Descriptors : e # lSocket => descriptors'[e] = descriptors[e]
    BY <2>1, CloseKeeps
  <2>3. SocketTypeInv' BY <1>1, <2>1, <2>2 DEF SocketTypeInv
  <2>4. descriptors[lSocket] = Listener BY <2>1 DEF SocketInv
  <2>5. \A o \in Objects : Holds(o)'
    <3> SUFFICES ASSUME NEW o \in Objects PROVE Holds(o)' OBVIOUS
    <3>1. Holds(o) BY DEF SocketInv, Holds
    <3>2. cSocket[o] > 0 => cSocket[o] \in Descriptors BY DEF SocketTypeInv
    <3> QED BY <1>1, <2>2, <2>4, <3>1, <3>2, Kinds DEF Holds
  <2> QED BY <1>1, <1>2, <2>1, <2>3, <2>5, SocketParts DEF SocketInv, Held
<1> QED BY <1>3, <1>4

LEMMA StepSockets ==
  ASSUME SocketIInv, [Next]_vars
  PROVE  SocketIInv'
<1> USE DEF SocketIInv
<1>1. CallInv' BY StepCall
<1>2. CASE UNCHANGED vars
  BY <1>1, <1>2, SocketsUntouched DEF vars, kernelVars, objectVars, SocketTypeInv
<1>3. CASE Network
  <2>1. UNCHANGED <<descriptors, lSocket, cSocket, after>> BY <1>3 DEF Network
  <2>2. backlog' \in Seq(Clients) BY <1>3 DEF Network, Establish, SocketTypeInv
  <2> QED BY <1>1, <2>1, <2>2, SocketsUntouched
<1>4. ASSUME NEW o \in Objects, InCall(o) PROVE SocketIInv'
  <2>1. CASE LogStep(o)
    <3>1. UNCHANGED <<descriptors, lSocket, cSocket, backlog, after>>
      BY <2>1, LogStepCall DEF LogStep, kernelVars
    <3> QED BY <1>1, <3>1, SocketsUntouched DEF SocketTypeInv
  <2>2. CASE o \in Clients /\ Lookup(o)
    <3>1. Moves(o, {"lookup"}, {"lookup", "connect", "ready"}) BY <2>2, ClientMoves
    <3>2. UNCHANGED <<descriptors, lSocket, cSocket, backlog>> BY <2>2 DEF Lookup, kernelVars
    <3>3. after[o] \in Held BY <3>1 DEF Moves, Held
    <3>4. after'[o] \in Held /\ \A u \in Objects : u # o => after'[u] = after[u]
      BY <3>1, OthersStay DEF Held
    <3> QED BY <1>1, <3>2, <3>3, <3>4, SocketsUntouched DEF SocketTypeInv, Objects
  <2>3. CASE o \in Clients /\ Connect(o)
    <3>1. Moves(o, {"connect"}, {"select", "ready"}) BY <2>3, ClientMoves
    <3>2. UNCHANGED <<descriptors, lSocket, cSocket>> BY <2>3 DEF Connect
    <3>3. after[o] \in Held BY <3>1 DEF Moves, Held
    <3>4. after'[o] \in Held /\ \A u \in Objects : u # o => after'[u] = after[u]
      BY <3>1, OthersStay DEF Held
    <3>5. backlog' \in Seq(Clients) BY <2>3 DEF Connect, Establish, SocketTypeInv
    <3> QED BY <1>1, <3>2, <3>3, <3>4, <3>5, SocketsUntouched DEF Objects
  <2>4. CASE o \in Clients /\ ConnectEnds(o)
    <3>1. Moves(o, {"select"}, {"connected", "ready"}) BY <2>4, ClientMoves
    <3>2. UNCHANGED <<descriptors, lSocket, cSocket, backlog>> BY <2>4 DEF ConnectEnds
    <3>3. after[o] \in Held BY <3>1 DEF Moves, Held
    <3>4. after'[o] \in Held /\ \A u \in Objects : u # o => after'[u] = after[u]
      BY <3>1, OthersStay DEF Held
    <3> QED BY <1>1, <3>2, <3>3, <3>4, SocketsUntouched DEF SocketTypeInv, Objects
  <2>5. CASE o \in Clients /\ FcntlFails(o)
    <3>1. Moves(o, {"connect"}, {"ready"}) BY <2>5, ClientMoves
    <3>2. UNCHANGED <<descriptors, lSocket, cSocket, backlog>> BY <2>5 DEF FcntlFails, kernelVars
    <3>3. after[o] \in Held BY <3>1 DEF Moves, Held
    <3>4. after'[o] \in Held /\ \A u \in Objects : u # o => after'[u] = after[u]
      BY <3>1, OthersStay DEF Held
    <3> QED BY <1>1, <3>2, <3>3, <3>4, SocketsUntouched DEF SocketTypeInv, Objects
  <2> QED BY <1>4, <2>1, <2>2, <2>3, <2>4, <2>5, AcceptSockets DEF InCall
<1>5. ASSUME NEW c \in Clients, ConnectBegins(c) PROVE SocketIInv'
  <2>1. Moves(c, {"ready"}, {"lookup", "connect"}) BY <1>5, ClientMoves
  <2>2. UNCHANGED <<descriptors, lSocket, cSocket, backlog>> BY <1>5 DEF ConnectBegins, kernelVars
  <2>3. after[c] \in Held BY <2>1 DEF Moves, Held
  <2>4. after'[c] \in Held /\ \A u \in Objects : u # c => after'[u] = after[u]
    BY <2>1, OthersStay DEF Held, Objects
  <2> QED BY <1>1, <2>2, <2>3, <2>4, SocketsUntouched DEF SocketTypeInv, Objects
<1>6. ASSUME NEW s \in Servers, AcceptBegins(s) PROVE SocketIInv'
  <2>1. UNCHANGED <<descriptors, lSocket, cSocket, backlog>> BY <1>6 DEF AcceptBegins, kernelVars
  <2>2. \A c \in Clients : after'[c] = after[c]
    BY <1>6, ServerMoves, OthersStay, TcpAssumption DEF Objects
  <2> QED BY <1>1, <2>1, <2>2, SocketsUntouched DEF SocketTypeInv
<1> QED BY <1>2, <1>3, <1>4, <1>5, <1>6, InitializeClientSockets,
           DeleteClientSockets, DeleteServerSockets, MasterSockets DEF Next, Objects

LEMMA SocketsImplied == SocketIInv => HoldsOwnSocket
BY DEF SocketIInv, SocketInv, CallInv, HoldsOwnSocket, Objects

\* socket, accept and close of the three objects, for any number of them and any
\* descriptors: each holds its own socket, however the numbers are reused.
THEOREM DescriptorsAreOwn == Spec => []HoldsOwnSocket
BY InitSockets, StepSockets, SocketsImplied, PTL DEF Spec, SocketIInv

-----------------------------------------------------------------------------
(* Connections *)

ConnTypeInv ==
  /\ conn = [c \in Clients |-> conn[c]] /\ blocking = [c \in Clients |-> blocking[c]]
  /\ openedBy = [c \in Clients |-> openedBy[c]] /\ connects = [c \in Clients |-> connects[c]]

\* What a Connect has got to: the call that is waiting for the handshake has
\* started it, the one that succeeded has finished it.
Connecting(c) ==
  /\ after[c] \in {"lookup", "connect"} /\ ip[c] \notin Literals => asked[c] = ip[c]
  /\ after[c] = "connect" /\ ip[c] \notin Literals => dns[c] = "found"
  /\ after[c] \in {"select", "connected"} =>
       openedBy[c].connect = connects[c] /\ (openedBy[c].to = ip[c] \/ rivals[c] # {})
  /\ after[c] = "connected" => conn[c] = "established" /\ blocking[c]

ConnInv == ConnTypeInv /\ \A c \in Clients : Connecting(c)

LEMMA InitConn == Init => ConnInv
<1> SUFFICES ASSUME Init PROVE ConnInv OBVIOUS
<1>1. ConnTypeInv BY DEF Init, ConnTypeInv
<1>2. \A c \in Clients : after[c] = "new" BY TcpAssumption DEF Init
<1> QED BY <1>1, <1>2 DEF ConnInv, Connecting

\* A thread that looks up, or begins to, changes nothing for the others: their
\* rivals can only become more.
LEMMA LookupOthers ==
  ASSUME DnsIInv, NEW t \in Threads, DnsStep(t) \/ \E name \in Names : DnsCall(t, name),
         NEW c \in Threads, c # t
  PROVE  dns'[c] = dns[c] /\ asked'[c] = asked[c] /\ (rivals[c] # {} => rivals'[c] # {})
<1>1. CASE DnsStep(t)
  BY <1>1, StepFrame DEF DnsIInv, Frame
<1>2. CASE \E name \in Names : DnsCall(t, name)
  BY <1>2 DEF DnsCall, DnsIInv, DnsTypeInv
<1> QED BY <1>1, <1>2

\* Nothing of a client that is not in the step changes, but that the network
\* establishes or refuses what is still shaking hands.
LEMMA OthersConnect ==
  ASSUME NEW c \in Clients, Connecting(c),
         after'[c] = after[c], ip' = ip, openedBy'[c] = openedBy[c], connects'[c] = connects[c],
         dns'[c] = dns[c], asked'[c] = asked[c], rivals[c] # {} => rivals'[c] # {},
         blocking'[c] = blocking[c], conn[c] = "established" => conn'[c] = "established"
  PROVE  Connecting(c)'
BY DEF Connecting

\* Closing a descriptor ends the connection of its owner only.
LEMMA CloseConn ==
  ASSUME NEW fd, Close(fd), NEW c \in Clients, fd \in Descriptors => descriptors[fd] # Own(c)
  PROVE  conn'[c] = conn[c]
BY Kinds DEF Close

IInv == SocketIInv /\ ConnInv

LEMMA LookupConn ==
  ASSUME IInv, DnsIInv, NEW c \in Clients, Lookup(c)
  PROVE  ConnInv'
<1> USE DEF IInv, SocketIInv, ConnInv
<1>1. Moves(c, {"lookup"}, {"lookup", "connect", "ready"}) BY ClientMoves
<1>2. after[c] = "lookup" BY <1>1 DEF Moves
<1>3. \A u \in Clients : u # c => after'[u] = after[u] BY <1>1, OthersStay DEF Objects
<1>4. UNCHANGED <<conn, blocking, openedBy, connects, ip>> BY DEF Lookup, kernelVars
<1>5. ConnTypeInv' BY <1>4 DEF ConnTypeInv
<1>6. \A u \in Clients : u # c => Connecting(u)'
  <2> SUFFICES ASSUME NEW u \in Clients, u # c PROVE Connecting(u)' OBVIOUS
  <2>1. dns'[u] = dns[u] /\ asked'[u] = asked[u] /\ (rivals[u] # {} => rivals'[u] # {})
    <3>1. CASE DnsStep(c) BY <3>1, LookupOthers, TcpAssumption
    <3>2. CASE UNCHANGED dnsVars BY <3>2 DEF dnsVars
    <3> QED BY <3>1, <3>2 DEF Lookup
  <2> QED BY <1>3, <1>4, <2>1, OthersConnect
<1>7. Connecting(c)'
  <2>1. CASE DnsStep(c) /\ UNCHANGED <<call, after, postVars>>
    <3>1. asked' = asked BY <2>1, StepFrame, TcpAssumption DEF DnsIInv, Frame
    <3> QED BY <1>2, <1>4, <2>1, <3>1 DEF Connecting
  <2>2. CASE dns[c] = "found" /\ Goto(c, "connect") /\ UNCHANGED dnsVars
    <3>1. after'[c] = "connect" BY <2>2, GotoCall DEF Objects, CallInv
    <3> QED BY <1>2, <1>4, <2>2, <3>1 DEF Connecting, dnsVars
  <2>3. CASE LogThen(c, "ready")
    <3>1. "ready" \in {"ready", "unusable", "idle"} /\ c \in Objects BY DEF Objects
    <3>2. after' = [after EXCEPT ![c] = "ready"] BY <2>3, <3>1, LogThenCall
    <3>3. after'[c] = "ready" BY <3>1, <3>2 DEF CallInv
    <3> QED BY <3>3 DEF Connecting
  <2> QED BY <2>1, <2>2, <2>3 DEF Lookup
<1> QED BY <1>5, <1>6, <1>7

\* connect goes to the address its own lookup has found.
LEMMA ConnectConn ==
  ASSUME IInv, DnsIInv, NEW c \in Clients, Connect(c)
  PROVE  ConnInv'
<1> USE DEF IInv, SocketIInv, ConnInv
<1>1. Moves(c, {"connect"}, {"select", "ready"}) BY ClientMoves
<1>2. after[c] = "connect" BY <1>1 DEF Moves
<1>3. after'[c] \in {"select", "ready"} /\ \A u \in Clients : u # c => after'[u] = after[u]
  BY <1>1, OthersStay DEF Objects
<1>4. UNCHANGED <<dns, asked, rivals, connects, ip>> BY DEF Connect, dnsVars
<1>5. ConnTypeInv' BY <1>4 DEF Connect, Establish, ConnTypeInv
<1>6. \A u \in Clients : u # c =>
        conn'[u] = conn[u] /\ blocking'[u] = blocking[u] /\ openedBy'[u] = openedBy[u]
  BY DEF Connect, Establish, ConnTypeInv
<1>7. \A u \in Clients : u # c => Connecting(u)'
  BY <1>3, <1>4, <1>6, OthersConnect
<1>8. Connecting(c)'
  <2>1. CASE after'[c] = "ready" BY <2>1 DEF Connecting
  <2>2. CASE after'[c] = "select"
    <3>1. \A p \in {"ready", "unusable", "idle"} : LogThen(c, p) => after'[c] = p
      <4> SUFFICES ASSUME NEW p \in {"ready", "unusable", "idle"}, LogThen(c, p)
                   PROVE  after'[c] = p
        OBVIOUS
      <4>1. c \in Objects BY DEF Objects
      <4>2. after' = [after EXCEPT ![c] = p] BY <4>1, LogThenCall
      <4> QED BY <4>1, <4>2 DEF CallInv
    <3>2. openedBy' = [openedBy EXCEPT ![c] = [connect |-> connects[c], to |-> Destination(c)]]
      BY <2>2, <3>1 DEF Connect
    <3>3. openedBy'[c].connect = connects[c] /\ openedBy'[c].to = Destination(c)
      BY <3>2 DEF ConnTypeInv
    <3>4. Destination(c) = ip[c] \/ rivals[c] # {}
      <4>1. CASE ip[c] \in Literals BY <4>1 DEF Destination
      <4>2. CASE ip[c] \notin Literals
        BY <1>2, <4>2, TcpAssumption DEF Destination, Connecting, DnsIInv, AnswersOverlappingLookup
      <4> QED BY <4>1, <4>2
    <3> QED BY <1>4, <2>2, <3>3, <3>4 DEF Connecting
  <2> QED BY <1>3, <2>1, <2>2
<1> QED BY <1>5, <1>7, <1>8

LEMMA ConnectEndsConn ==
  ASSUME IInv, NEW c \in Clients, ConnectEnds(c)
  PROVE  ConnInv'
<1> USE DEF IInv, SocketIInv, ConnInv
<1>1. Moves(c, {"select"}, {"connected", "ready"}) BY ClientMoves
<1>2. after[c] = "select" BY <1>1 DEF Moves
<1>3. after'[c] \in {"connected", "ready"} /\ \A u \in Clients : u # c => after'[u] = after[u]
  BY <1>1, OthersStay DEF Objects
<1>4. UNCHANGED <<dns, asked, rivals, connects, ip, conn, openedBy>> BY DEF ConnectEnds, dnsVars
<1>5. ConnTypeInv' BY <1>4 DEF ConnectEnds, ConnTypeInv
<1>6. \A u \in Clients : u # c => blocking'[u] = blocking[u] BY DEF ConnectEnds, ConnTypeInv
<1>7. \A u \in Clients : u # c => Connecting(u)' BY <1>3, <1>4, <1>6, OthersConnect
<1>8. Connecting(c)'
  <2>1. CASE conn[c] = "established" /\ blocking' = [blocking EXCEPT ![c] = TRUE]
    <3>1. blocking'[c] BY <2>1 DEF ConnTypeInv
    <3> QED BY <1>2, <1>3, <1>4, <2>1, <3>1 DEF Connecting
  <2>2. CASE LogThen(c, "ready")
    <3>1. "ready" \in {"ready", "unusable", "idle"} /\ c \in Objects BY DEF Objects
    <3>2. after' = [after EXCEPT ![c] = "ready"] BY <2>2, <3>1, LogThenCall
    <3>3. after'[c] = "ready" BY <3>1, <3>2 DEF CallInv
    <3> QED BY <3>3 DEF Connecting
  <2> QED BY <2>1, <2>2 DEF ConnectEnds
<1> QED BY <1>5, <1>7, <1>8

LEMMA ConnectBeginsConn ==
  ASSUME IInv, DnsIInv, IpInv, NEW c \in Clients, ConnectBegins(c)
  PROVE  ConnInv'
<1> USE DEF IInv, SocketIInv, ConnInv
<1>1. Moves(c, {"ready"}, {"lookup", "connect"}) BY ClientMoves
<1>2. after'[c] \in {"lookup", "connect"} /\ \A u \in Clients : u # c => after'[u] = after[u]
  BY <1>1, OthersStay DEF Objects
<1>3. UNCHANGED <<ip, conn, blocking, openedBy>> BY DEF ConnectBegins, kernelVars
<1>4. ConnTypeInv' BY <1>3 DEF ConnectBegins, ConnTypeInv
<1>5. \A u \in Clients : u # c => connects'[u] = connects[u] BY DEF ConnectBegins, ConnTypeInv
<1>6. ip[c] \in Names \cup Literals BY TcpAssumption DEF IpInv
<1>7. \A u \in Clients : u # c => Connecting(u)'
  <2> SUFFICES ASSUME NEW u \in Clients, u # c PROVE Connecting(u)' OBVIOUS
  <2>1. dns'[u] = dns[u] /\ asked'[u] = asked[u] /\ (rivals[u] # {} => rivals'[u] # {})
    <3>1. CASE DnsCall(c, ip[c]) /\ ip[c] \notin Literals
      BY <1>6, <3>1, LookupOthers, TcpAssumption
    <3>2. CASE UNCHANGED dnsVars BY <3>2 DEF dnsVars
    <3> QED BY <3>1, <3>2 DEF ConnectBegins
  <2> QED BY <1>2, <1>3, <1>5, <2>1, OthersConnect
<1>8. Connecting(c)'
  <2>1. CASE ip[c] \in Literals BY <1>2, <1>3, <2>1 DEF Connecting
  <2>2. CASE ip[c] \notin Literals
    <3>1. Goto(c, "lookup") /\ DnsCall(c, ip[c]) BY <2>2 DEF ConnectBegins
    <3>2. after'[c] = "lookup" BY <3>1, GotoCall DEF Objects, CallInv
    <3>3. asked'[c] = ip[c] BY <3>1, TcpAssumption DEF DnsCall, DnsIInv, DnsTypeInv
    <3> QED BY <1>3, <3>2, <3>3 DEF Connecting
  <2> QED BY <2>1, <2>2
<1> QED BY <1>4, <1>7, <1>8

\* Nothing of the connections changes.
LEMMA ConnUntouched ==
  ASSUME IInv, UNCHANGED <<dns, asked, rivals, ip, conn, blocking, openedBy, connects>>,
         \A c \in Clients : after'[c] = after[c]
  PROVE  ConnInv'
BY OthersConnect DEF IInv, ConnInv, ConnTypeInv

LEMMA ClientConn ==
  ASSUME IInv, NEW c \in Clients, InitializeClient(c) \/ DeleteClient(c)
  PROVE  ConnInv'
<1> USE DEF IInv, SocketIInv, ConnInv
<1>1. UNCHANGED <<dns, asked, rivals, ip, blocking, openedBy, connects>>
  BY DEF InitializeClient, DeleteClient, dnsVars
<1>2. after'[c] \in {"ready", "unusable", "deleted"} /\ \A u \in Clients : u # c => after'[u] = after[u]
  <2>1. CASE InitializeClient(c)
    <3>1. Moves(c, {"new"}, {"ready", "unusable"}) BY <2>1, ClientMoves
    <3> QED BY <3>1, OthersStay DEF Objects
  <2>2. CASE DeleteClient(c)
    <3>1. Moves(c, {"ready", "unusable", "connected"}, {"deleted"}) BY <2>2, ClientMoves
    <3> QED BY <3>1, OthersStay DEF Objects
  <2> QED BY <2>1, <2>2
<1>3. ConnTypeInv' BY <1>1 DEF InitializeClient, DeleteClient, Close, ConnTypeInv
<1>4. \A u \in Clients : u # c => conn'[u] = conn[u]
  <2>1. CASE InitializeClient(c) BY <2>1 DEF InitializeClient
  <2>2. CASE DeleteClient(c)
    <3>1. Moves(c, {"ready", "unusable", "connected"}, {"deleted"}) BY <2>2, ClientMoves
    <3>2. after[c] # "deleted" BY <3>1 DEF Moves
    <3>3. \A fd \in Descriptors : fd = cSocket[c] => descriptors[fd] = Own(c)
      <4>1. cSocket[c] > 0 => descriptors[cSocket[c]] = Own(c) BY <3>2 DEF SocketInv
      <4>2. \A fd \in Descriptors : fd \in Nat /\ fd > 0 BY TcpAssumption
      <4> QED BY <4>1, <4>2
    <3> QED BY <2>2, <3>3, CloseConn, Kinds DEF DeleteClient
  <2> QED BY <2>1, <2>2
<1>5. \A u \in Clients : u # c => Connecting(u)' BY <1>1, <1>2, <1>4, OthersConnect
<1>6. Connecting(c)' BY <1>2 DEF Connecting
<1> QED BY <1>3, <1>5, <1>6

LEMMA ServerConn ==
  ASSUME IInv, NEW s \in Servers, AcceptBegins(s) \/ Accept(s) \/ DeleteServer(s)
  PROVE  ConnInv'
<1> USE DEF IInv, SocketIInv, ConnInv
<1>1. UNCHANGED <<dns, asked, rivals, ip, blocking, openedBy, connects>>
  BY DEF AcceptBegins, Accept, DeleteServer, dnsVars, kernelVars, objectVars
<1>2. \A c \in Clients : after'[c] = after[c]
  <2>1. CASE AcceptBegins(s) BY <2>1, ServerMoves, OthersStay, TcpAssumption DEF Objects
  <2>2. CASE Accept(s) BY <2>2, ServerMoves, OthersStay, TcpAssumption DEF Objects
  <2>3. CASE DeleteServer(s) BY <2>3, ServerMoves, OthersStay, TcpAssumption DEF Objects
  <2> QED BY <2>1, <2>2, <2>3
<1>3. conn' = conn
  <2>1. CASE AcceptBegins(s) \/ Accept(s)
    BY <2>1 DEF AcceptBegins, Accept, kernelVars
  <2>2. CASE DeleteServer(s) /\ cSocket[s] > 0 /\ Close(cSocket[s])
    <3>1. \E d \in Clients : descriptors[cSocket[s]] = Peer(d) BY <2>2 DEF SocketInv
    <3>2. \A c \in Clients : conn'[c] = conn[c] BY <2>2, <3>1, CloseConn, Kinds
    <3>3. conn' = [c \in Clients |-> conn'[c]] BY <2>2 DEF Close
    <3> QED BY <3>2, <3>3 DEF ConnTypeInv
  <2> QED BY <2>1, <2>2 DEF DeleteServer
<1> QED BY <1>1, <1>2, <1>3, ConnUntouched

LEMMA MasterConn ==
  ASSUME IInv, InitializeMaster \/ DeleteMaster
  PROVE  ConnInv'
<1> USE DEF IInv, SocketIInv, ConnInv
<1>1. UNCHANGED <<dns, asked, rivals, ip, blocking, openedBy, connects, after>>
  BY DEF InitializeMaster, DeleteMaster, dnsVars, objectVars
<1>2. conn' = conn
  <2>1. CASE InitializeMaster BY <2>1 DEF InitializeMaster
  <2>2. CASE DeleteMaster
    <3>1. Close(lSocket) /\ descriptors[lSocket] = Listener BY <2>2 DEF DeleteMaster, SocketInv
    <3>2. \A c \in Clients : conn'[c] = conn[c] BY <3>1, CloseConn, Kinds
    <3>3. conn' = [c \in Clients |-> conn'[c]] BY <3>1 DEF Close
    <3> QED BY <3>2, <3>3 DEF ConnTypeInv
  <2> QED BY <2>1, <2>2
<1> QED BY <1>1, <1>2, ConnUntouched

LEMMA NetworkConn ==
  ASSUME IInv, Network
  PROVE  ConnInv'
<1> USE DEF IInv, ConnInv
<1>1. UNCHANGED <<dns, asked, rivals, ip, blocking, openedBy, connects, after>>
  BY DEF Network, dnsVars
<1>2. conn' = [c \in Clients |-> conn'[c]]
      /\ \A c \in Clients : conn[c] = "established" => conn'[c] = "established"
  BY DEF Network, Establish, ConnTypeInv
<1>3. ConnTypeInv' BY <1>1, <1>2 DEF ConnTypeInv
<1> QED BY <1>1, <1>2, <1>3, OthersConnect

LEMMA StepConn ==
  ASSUME IInv, DnsIInv, IpInv, [Next]_vars
  PROVE  ConnInv'
<1>1. CASE UNCHANGED vars
  BY <1>1, ConnUntouched DEF vars, dnsVars, kernelVars, objectVars
<1>2. ASSUME NEW o \in Objects, LogStep(o) PROVE ConnInv'
  BY <1>2, LogStepCall, ConnUntouched DEF LogStep, dnsVars, kernelVars, IInv, SocketIInv
<1>3. ASSUME NEW c \in Clients, FcntlFails(c) PROVE ConnInv'
  <2>1. Moves(c, {"connect"}, {"ready"}) BY <1>3, ClientMoves DEF IInv, SocketIInv
  <2>2. after'[c] = "ready" /\ \A u \in Clients : u # c => after'[u] = after[u]
    BY <2>1, OthersStay DEF IInv, SocketIInv, Objects
  <2>3. UNCHANGED <<dns, asked, rivals, ip, conn, blocking, openedBy, connects>>
    BY <1>3 DEF FcntlFails, dnsVars, kernelVars
  <2>4. \A u \in Clients : u # c => Connecting(u)'
    BY <2>2, <2>3, OthersConnect DEF IInv, ConnInv
  <2>5. Connecting(c)' BY <2>2 DEF Connecting
  <2>6. ConnTypeInv' BY <2>3 DEF IInv, ConnInv, ConnTypeInv
  <2> QED BY <2>4, <2>5, <2>6 DEF ConnInv
<1> QED BY <1>1, <1>2, <1>3, LookupConn, ConnectConn, ConnectEndsConn, ConnectBeginsConn, ClientConn,
           ServerConn, MasterConn, NetworkConn DEF Next, InCall, Objects

LEMMA ConnImplied == IInv => ConnectedIsUsable
<1> SUFFICES ASSUME IInv, NEW c \in Clients, call[c] = "connected"
             PROVE  /\ descriptors[cSocket[c]] = Own(c)
                    /\ conn[c] = "established" /\ blocking[c]
                    /\ openedBy[c].connect = connects[c]
                    /\ openedBy[c].to = ip[c] \/ rivals[c] # {}
  BY DEF ConnectedIsUsable
<1>1. after[c] = "connected" BY DEF IInv, SocketIInv, CallInv, Objects
<1> QED BY <1>1 DEF IInv, SocketIInv, SocketInv, ConnInv, Connecting

\* Connect_TCP_CLIENT, for any number of clients, names and retries: when it
\* returns true the client has a blocking socket, connected by that call, to
\* the address of its own name unless another lookup overlapped.
THEOREM ConnectsToItsOwn == Spec => []ConnectedIsUsable
<1>1. Init => IInv /\ IpInv BY InitSockets, InitConn DEF IInv, SocketIInv, Init, IpInv
<1>2. IInv /\ IpInv /\ DnsIInv /\ [Next]_vars => (IInv /\ IpInv)'
  BY StepSockets, StepConn, IpKept DEF IInv
<1> QED BY <1>1, <1>2, ConnImplied, ImplementsLookups, LookupsInvariant, PTL DEF Spec
=============================================================================
