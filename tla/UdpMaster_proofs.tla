--------------------------- MODULE UdpMaster_proofs ---------------------------
(***************************************************************************)
(* The UDP transport keeps its packets and the order of its queues, and a  *)
(* server's Delete drains what it says, for any number of endpoints and    *)
(* queues, any pool, attempts and arrivals.                                *)
(*   Who can hold a packet is `Hands': the receive thread where it receives, *)
(* a receiver exactly between its pop and its push.  That nobody fills the *)
(* queue a server drains is `Joined'.  A queue is the latest of what has   *)
(* arrived only as long as it is no longer than that: `Queues'.            *)
(***************************************************************************)
EXTENDS UdpMaster, FiniteSetTheorems, TLAPS

TypeInv ==
  /\ recv_queues \in [Types -> Seq(Nat)]
  /\ arrived \in [Types -> 0..MaxArrivals]
  /\ recv_pool \in Nat /\ leaked \in Nat
  /\ on \in Ids
  /\ owner \in {"idle", "join", "drain", "pop", "end"}
  /\ loop \in {"none", "while", "test", "take", "recv", "ended"}
  /\ held \in BOOLEAN /\ running \in BOOLEAN /\ recv_thread \in BOOLEAN
  /\ pc \in [Ids -> {"idle", "poll", "peek", "check", "index", "pop", "poolpop", "push"}]
  /\ temp \in [Ids -> Nat]

Hands ==
  /\ loop = "recv" => held
  /\ loop \in {"none", "test", "take", "ended"} => ~held
  /\ \A e \in Ids : temp[e] # Nothing <=> pc[e] = "push"

Joined ==
  /\ recv_thread <=> loop # "none"
  /\ side = "server" /\ owner \in {"drain", "pop", "end"} => ~recv_thread

ThreadsInv == TypeInv /\ Hands /\ Joined

\* q holds the latest of the n packets that arrived for it.
Latest(q, n) == Len(q) <= n /\ q = [k \in 1..Len(q) |-> n - Len(q) + k]

Queues == \A t \in Types : Latest(recv_queues[t], arrived[t])

IInv == ThreadsInv /\ Queues /\ DeleteDrains

LEMMA Constants ==
  /\ MaxArrivals \in Nat /\ MAX_UDP_CONNECTIONS \in Nat /\ Ids \subseteq Types
  /\ Nothing = 0 /\ Stale \in Nat /\ Stale # 0
BY UdpAssumption DEF Nothing, Stale

-----------------------------------------------------------------------------
(* Queues *)

LEMMA LatestTail ==
  ASSUME NEW q \in Seq(Nat), NEW n \in Nat, Latest(q, n), q # <<>>
  PROVE  /\ Latest(Tail(q), n) /\ Tail(q) \in Seq(Nat)
         /\ Len(Tail(q)) = Len(q) - 1 /\ Len(q) \in 1..n
         /\ Head(q) \in Nat /\ Head(q) # 0
<1> DEFINE r == Tail(q)
<1>1. /\ Len(q) \in Nat /\ Len(q) >= 1 /\ r \in Seq(Nat) /\ Len(r) = Len(q) - 1
      /\ DOMAIN r = 1..Len(r)
      /\ \A k \in 1..Len(r) : r[k] = q[k + 1]
      /\ Head(q) = q[1]
  OBVIOUS
<1>2. Len(q) <= n /\ \A k \in 1..Len(q) : q[k] = n - Len(q) + k
  BY DEF Latest
<1> HIDE DEF r
<1>3. \A k \in 1..Len(r) : r[k] = n - Len(r) + k
  BY <1>1, <1>2
<1>4. r = [k \in 1..Len(r) |-> n - Len(r) + k]
  <2>1. r = [k \in 1..Len(r) |-> r[k]] BY <1>1
  <2> QED BY <2>1, <1>3
<1>5. Latest(r, n) BY <1>1, <1>2, <1>4 DEF Latest
<1>6. q[1] \in Nat /\ q[1] # 0 BY <1>1, <1>2
<1> QED BY <1>1, <1>2, <1>5, <1>6 DEF r

LEMMA LatestAppend ==
  ASSUME NEW q \in Seq(Nat), NEW n \in Nat, Latest(q, n)
  PROVE  /\ Latest(Append(q, n + 1), n + 1)
         /\ Append(q, n + 1) \in Seq(Nat)
         /\ Len(Append(q, n + 1)) = Len(q) + 1 /\ Len(q) \in 0..n
<1> DEFINE r == Append(q, n + 1)
<1>1. /\ Len(q) \in Nat /\ r \in Seq(Nat) /\ Len(r) = Len(q) + 1
      /\ DOMAIN r = 1..Len(r)
      /\ \A k \in 1..Len(q) : r[k] = q[k]
      /\ r[Len(q) + 1] = n + 1
  OBVIOUS
<1>2. Len(q) <= n /\ \A k \in 1..Len(q) : q[k] = n - Len(q) + k
  BY DEF Latest
<1> HIDE DEF r
<1>3. ASSUME NEW k \in 1..Len(r) PROVE r[k] = n + 1 - Len(r) + k
  <2>1. CASE k \in 1..Len(q) BY <2>1, <1>1, <1>2
  <2>2. CASE k = Len(q) + 1 BY <2>2, <1>1
  <2> QED BY <2>1, <2>2, <1>1
<1>4. r = [k \in 1..Len(r) |-> n + 1 - Len(r) + k]
  <2>1. r = [k \in 1..Len(r) |-> r[k]] BY <1>1
  <2> QED BY <2>1, <1>3
<1>5. Latest(r, n + 1) BY <1>1, <1>2, <1>4 DEF Latest
<1> QED BY <1>1, <1>2, <1>5 DEF r

-----------------------------------------------------------------------------
(* The threads *)

LEMMA InitIInv == Init => IInv
<1> SUFFICES ASSUME Init PROVE IInv OBVIOUS
<1>1. TypeInv
  <2>1. <<>> \in Seq(Nat) /\ 0 \in 0..MaxArrivals BY Constants
  <2> QED BY <2>1, Constants, UdpAssumption DEF Init, TypeInv
<1>2. Hands /\ Joined BY DEF Init, Hands, Joined
<1>3. Queues
  <2> SUFFICES ASSUME NEW t \in Types PROVE Latest(<<>>, 0)
    BY DEF Init, Queues
  <2>1. Len(<<>>) = 0 /\ <<>> = [k \in 1..0 |-> 0 - 0 + k] OBVIOUS
  <2> QED BY <2>1 DEF Latest
<1> QED BY <1>1, <1>2, <1>3 DEF IInv, ThreadsInv, Init, DeleteDrains

\* A step that leaves every queue and every arrival alone.
LEMMA Untouched ==
  ASSUME IInv, UNCHANGED <<side, recv_queues, arrived>>, ThreadsInv',
         side = "server" /\ owner' = "end" => recv_queues[on'] = <<>>
  PROVE  IInv'
BY DEF IInv, Queues, DeleteDrains

LEMMA OwnerKeeps ==
  ASSUME IInv, UNCHANGED side, NEW e \in Ids, Accept(e) \/ Initialize(e) \/ Delete(e)
  PROVE  IInv'
<1> USE DEF IInv, ThreadsInv
<1>1. ThreadsInv'
  <2>1. CASE Accept(e)
    BY <2>1 DEF Accept, TypeInv, Hands, Joined, recvVars
  <2>2. CASE Initialize(e)
    BY <2>2 DEF Initialize, TypeInv, Hands, Joined, loopVars, recvVars
  <2>3. CASE Delete(e)
    BY <2>3 DEF Delete, Close, TypeInv, Hands, Joined, loopVars, recvVars
  <2> QED BY <2>1, <2>2, <2>3
<1>2. owner' # "end" /\ UNCHANGED <<recv_queues, arrived>>
  BY DEF Accept, Initialize, Delete, Close, loopVars
<1> QED BY <1>1, <1>2, Untouched

\* A queue loses its first packet.
LEMMA ShorterQueue ==
  ASSUME IInv, UNCHANGED <<side, arrived, on>>, owner' = "end" => owner = "end",
         NEW t \in Types, recv_queues[t] # <<>>,
         recv_queues' = [recv_queues EXCEPT ![t] = Tail(@)]
  PROVE  /\ Queues' /\ DeleteDrains'
         /\ recv_queues' \in [Types -> Seq(Nat)]
         /\ Head(recv_queues[t]) \in Nat /\ Head(recv_queues[t]) # Nothing
<1>1. /\ recv_queues \in [Types -> Seq(Nat)] /\ arrived[t] \in Nat
      /\ recv_queues[t] \in Seq(Nat)
  BY Constants DEF IInv, ThreadsInv, TypeInv
<1>2. Latest(recv_queues[t], arrived[t]) BY DEF IInv, Queues
<1>3. /\ Latest(Tail(recv_queues[t]), arrived[t]) /\ Tail(recv_queues[t]) \in Seq(Nat)
      /\ Head(recv_queues[t]) \in Nat /\ Head(recv_queues[t]) # 0
  BY <1>1, <1>2, LatestTail
<1>4. /\ recv_queues'[t] = Tail(recv_queues[t])
      /\ \A u \in Types : u # t => recv_queues'[u] = recv_queues[u]
  BY <1>1
<1>5. Queues' BY <1>3, <1>4 DEF IInv, Queues
<1>6. DeleteDrains'
  <2> SUFFICES ASSUME side = "server", owner = "end" PROVE recv_queues'[on] = <<>>
    BY DEF DeleteDrains
  <2>1. recv_queues[on] = <<>> /\ on \in Types
    BY Constants DEF IInv, DeleteDrains, ThreadsInv, TypeInv
  <2> QED BY <2>1, <1>4
<1>7. recv_queues' \in [Types -> Seq(Nat)] BY <1>1, <1>3
<1> QED BY <1>3, <1>5, <1>6, <1>7, Constants

LEMMA DeletingKeeps ==
  ASSUME IInv, UNCHANGED side, Deleting
  PROVE  IInv'
<1>1. ThreadsInv BY DEF IInv
<1>2. CASE DeleteJoin
  <2>1. ThreadsInv'
    BY <1>1, <1>2 DEF DeleteJoin, ThreadsInv, TypeInv, Hands, Joined, recvVars
  <2>2. UNCHANGED <<recv_queues, arrived>> /\ ~(side = "server" /\ owner' = "end")
    BY <1>2 DEF DeleteJoin
  <2> QED BY <2>1, <2>2, Untouched
<1>3. CASE DeleteDrain
  <2>1. ThreadsInv'
    BY <1>1, <1>3 DEF DeleteDrain, ThreadsInv, TypeInv, Hands, Joined, loopVars, recvVars
  <2>2. UNCHANGED <<recv_queues, arrived>> /\ owner' # "end"
    BY <1>3 DEF DeleteDrain, loopVars
  <2> QED BY <2>1, <2>2, Untouched
<1>6. CASE DeletePop
  <2>1. /\ on \in Types /\ owner = "pop" /\ owner' = "drain" /\ recv_pool' = recv_pool + 1
        /\ UNCHANGED <<open, on, running, accepted, recv_thread, starts, loopVars, recvVars>>
    BY <1>1, <1>6, Constants DEF DeletePop, ThreadsInv, TypeInv
  <2>2. UNCHANGED <<side, arrived, on>> /\ owner' # "end" BY <2>1 DEF loopVars
  <2>3. CASE PopsNothing
    <3>1. recv_queues' = recv_queues BY <1>6, <2>3 DEF DeletePop
    <3>2. ThreadsInv'
      BY <1>1, <2>1, <3>1 DEF loopVars, recvVars, ThreadsInv, TypeInv, Hands, Joined
    <3> QED BY <2>2, <3>1, <3>2, Untouched
  <2>4. CASE ~PopsNothing
    <3>1. recv_queues[on] # <<>> /\ recv_queues' = [recv_queues EXCEPT ![on] = Tail(@)]
      BY <1>6, <2>1, <2>4 DEF DeletePop, PopsNothing
    <3>2. Queues' /\ DeleteDrains' /\ recv_queues' \in [Types -> Seq(Nat)]
      BY <2>1, <2>2, <3>1, ShorterQueue
    <3>3. ThreadsInv'
      BY <1>1, <2>1, <3>2 DEF loopVars, recvVars, ThreadsInv, TypeInv, Hands, Joined
    <3> QED BY <3>2, <3>3 DEF IInv
  <2> QED BY <2>3, <2>4
<1>4. CASE DeleteDrained
  <2>1. ThreadsInv'
    BY <1>1, <1>4 DEF DeleteDrained, Close, ThreadsInv, TypeInv, Hands, Joined, loopVars, recvVars
  <2>2. UNCHANGED <<recv_queues, arrived, on>> /\ recv_queues[on] = <<>>
    BY <1>4 DEF DeleteDrained, loopVars
  <2> QED BY <2>1, <2>2, Untouched
<1>5. CASE DeleteEnd
  <2>1. ThreadsInv'
    BY <1>1, <1>5 DEF DeleteEnd, ThreadsInv, TypeInv, Hands, Joined, loopVars, recvVars
  <2>2. UNCHANGED <<recv_queues, arrived>> /\ owner' # "end"
    BY <1>5 DEF DeleteEnd, loopVars
  <2> QED BY <2>1, <2>2, Untouched
<1> QED BY <1>2, <1>3, <1>4, <1>5, <1>6 DEF Deleting

LEMMA LoopKeeps ==
  ASSUME IInv, UNCHANGED side, RecvLoop
  PROVE  IInv'
<1>1. ThreadsInv /\ (side = "server" /\ owner = "end" => recv_queues[on] = <<>>)
  BY DEF IInv, DeleteDrains
<1>2. CASE LoopWhile
  <2>1. ThreadsInv'
    <3>1. TypeInv'
      <4>1. UNCHANGED <<recv_queues, arrived, recv_pool, on, owner, running, recv_thread, pc, temp>>
        BY <1>2 DEF LoopWhile, ownerVars, recvVars
      <4>2. held' \in BOOLEAN /\ (leaked' = leaked \/ leaked' = leaked + 1)
        <5>1. held' = held \/ held' = FALSE BY <1>2, Zenon DEF LoopWhile
        <5>2. leaked' = leaked \/ leaked' = leaked + 1 BY <1>2, Zenon DEF LoopWhile
        <5> QED BY <1>1, <5>1, <5>2 DEF ThreadsInv, TypeInv
      <4>3. loop' \in {"recv", "test", "ended"} BY <1>2 DEF LoopWhile
      <4> QED BY <1>1, <4>1, <4>2, <4>3 DEF ThreadsInv, TypeInv
    <3>2. Hands' /\ Joined'
      BY <1>1, <1>2 DEF LoopWhile, ThreadsInv, TypeInv, Hands, Joined, ownerVars, recvVars
    <3> QED BY <3>1, <3>2 DEF ThreadsInv
  <2> QED BY <1>1, <1>2, <2>1, Untouched DEF LoopWhile, ownerVars
<1>3. CASE LoopTest
  <2>1. ThreadsInv'
    BY <1>1, <1>3 DEF LoopTest, ThreadsInv, TypeInv, Hands, Joined, ownerVars, recvVars
  <2> QED BY <1>1, <1>3, <2>1, Untouched DEF LoopTest, ownerVars
<1>4. CASE LoopTake
  <2>1. ThreadsInv'
    <3>1. TypeInv'
      <4>1. UNCHANGED <<recv_queues, arrived, leaked, on, owner, running, recv_thread, pc, temp>>
        BY <1>4 DEF LoopTake, ownerVars, recvVars
      <4>2. held' \in BOOLEAN
        <5>1. held' = held \/ held' = TRUE BY <1>4, Zenon DEF LoopTake
        <5> QED BY <1>1, <5>1 DEF ThreadsInv, TypeInv
      <4>4. recv_pool' = recv_pool \/ (recv_pool # 0 /\ recv_pool' = recv_pool - 1)
        BY <1>4, Zenon DEF LoopTake
      <4>3. loop' \in {"take", "recv"} BY <1>4 DEF LoopTake
      <4> QED BY <1>1, <4>1, <4>2, <4>3, <4>4 DEF ThreadsInv, TypeInv
    <3>2. Hands' /\ Joined'
      BY <1>1, <1>4 DEF LoopTake, ThreadsInv, TypeInv, Hands, Joined, ownerVars, recvVars
    <3> QED BY <3>1, <3>2 DEF ThreadsInv
  <2> QED BY <1>1, <1>4, <2>1, Untouched DEF LoopTake, ownerVars
<1>5. CASE LoopRecvNothing
  <2>1. ThreadsInv'
    BY <1>1, <1>5 DEF LoopRecvNothing, ThreadsInv, TypeInv, Hands, Joined, ownerVars, recvVars
  <2> QED BY <1>1, <1>5, <2>1, Untouched DEF LoopRecvNothing, ownerVars
<1>6. ASSUME NEW t \in Types, LoopRecv(t) PROVE IInv'
  <2>1. /\ loop = "recv" /\ loop' = "while" /\ held' = FALSE /\ arrived[t] < MaxArrivals
        /\ arrived' = [arrived EXCEPT ![t] = @ + 1]
        /\ recv_queues' = [recv_queues EXCEPT ![t] = Append(@, arrived'[t])]
        /\ UNCHANGED <<ownerVars, leaked, recv_pool, recvVars>>
    BY <1>6 DEF LoopRecv
  <2>2. /\ recv_queues \in [Types -> Seq(Nat)] /\ arrived \in [Types -> 0..MaxArrivals]
        /\ recv_queues[t] \in Seq(Nat) /\ arrived[t] \in Nat
    BY <1>1, Constants DEF ThreadsInv, TypeInv
  <2>3. Latest(recv_queues[t], arrived[t]) BY DEF IInv, Queues
  <2>4. arrived'[t] = arrived[t] + 1 BY <2>1, <2>2
  <2>5. /\ Latest(Append(recv_queues[t], arrived[t] + 1), arrived[t] + 1)
        /\ Append(recv_queues[t], arrived[t] + 1) \in Seq(Nat)
    BY <2>2, <2>3, LatestAppend
  <2>6. /\ recv_queues'[t] = Append(recv_queues[t], arrived[t] + 1)
        /\ \A u \in Types : u # t => recv_queues'[u] = recv_queues[u] /\ arrived'[u] = arrived[u]
    BY <2>1, <2>2, <2>4
  <2>7. Queues' BY <2>4, <2>5, <2>6 DEF IInv, Queues
  <2>8. recv_queues' \in [Types -> Seq(Nat)] BY <2>1, <2>2, <2>4, <2>5
  <2>9. arrived' \in [Types -> 0..MaxArrivals] BY <2>1, <2>2, Constants
  <2>10. ThreadsInv'
    BY <1>1, <2>1, <2>8, <2>9 DEF ownerVars, recvVars, ThreadsInv, TypeInv, Hands, Joined
  <2>11. DeleteDrains'
    BY <1>1, <2>1 DEF ownerVars, ThreadsInv, Joined, TypeInv, DeleteDrains
  <2> QED BY <2>7, <2>10, <2>11 DEF IInv
<1> QED BY <1>2, <1>3, <1>4, <1>5, <1>6 DEF RecvLoop

LEMMA ReceiversKeep ==
  ASSUME IInv, UNCHANGED side, NEW e \in Ids, Receive(e) \/ Receiving(e)
  PROVE  IInv'
<1>1. ThreadsInv /\ (side = "server" /\ owner = "end" => recv_queues[on] = <<>>)
  BY DEF IInv, DeleteDrains
<1>2. CASE Receive(e)
  <2>1. ThreadsInv'
    BY <1>1, <1>2 DEF Receive, Goto, ThreadsInv, TypeInv, Hands, Joined, ownerVars, loopVars
  <2> QED BY <1>1, <1>2, <2>1, Untouched DEF Receive, ownerVars, loopVars
<1>3. CASE ReceivePoll(e)
  <2>1. ThreadsInv'
    BY <1>1, <1>3 DEF ReceivePoll, Goto, ThreadsInv, TypeInv, Hands, Joined, ownerVars, loopVars
  <2> QED BY <1>1, <1>3, <2>1, Untouched DEF ReceivePoll, ownerVars, loopVars
<1>4. CASE ReceivePeek(e)
  <2>1. ThreadsInv'
    BY <1>1, <1>4 DEF ReceivePeek, Goto, ThreadsInv, TypeInv, Hands, Joined, ownerVars, loopVars
  <2> QED BY <1>1, <1>4, <2>1, Untouched DEF ReceivePeek, ownerVars, loopVars
<1>5. CASE ReceiveCheck(e)
  <2>1. ThreadsInv'
    BY <1>1, <1>5 DEF ReceiveCheck, Goto, ThreadsInv, TypeInv, Hands, Joined, ownerVars, loopVars
  <2> QED BY <1>1, <1>5, <2>1, Untouched DEF ReceiveCheck, ownerVars, loopVars
<1>6. CASE ReceivePop(e)
  <2>1. pc[e] = "pop" /\ UNCHANGED <<ownerVars, loopVars>> BY <1>6 DEF ReceivePop
  <2>2. CASE UNCHANGED <<recv_pool, recv_queues, temp, pc>>
    <3>1. ThreadsInv'
      BY <1>1, <2>1, <2>2 DEF ThreadsInv, TypeInv, Hands, Joined, ownerVars, loopVars
    <3> QED BY <1>1, <2>1, <2>2, <3>1, Untouched DEF ownerVars, loopVars
  <2>3. CASE /\ recv_queues[e] # <<>>
             /\ temp' = [temp EXCEPT ![e] = Head(recv_queues[e])]
             /\ recv_queues' = [recv_queues EXCEPT ![e] = Tail(@)]
             /\ Goto(e, "push") /\ recv_pool' = recv_pool
    <3>1. e \in Types /\ UNCHANGED <<side, arrived, owner, on>>
      BY <2>1, Constants DEF ownerVars, loopVars
    <3>2. /\ Queues' /\ DeleteDrains' /\ recv_queues' \in [Types -> Seq(Nat)]
          /\ Head(recv_queues[e]) \in Nat /\ Head(recv_queues[e]) # Nothing
      BY <2>3, <3>1, ShorterQueue
    <3>3. ThreadsInv'
      BY <1>1, <2>1, <2>3, <3>2 DEF Goto, ThreadsInv, TypeInv, Hands, Joined, ownerVars, loopVars
    <3> QED BY <3>2, <3>3 DEF IInv
  <2> QED BY <1>6, <2>2, <2>3 DEF ReceivePop
<1>8. CASE ReceiveIndex(e)
  <2>1. ThreadsInv'
    BY <1>1, <1>8 DEF ReceiveIndex, Goto, ThreadsInv, TypeInv, Hands, Joined, ownerVars, loopVars
  <2> QED BY <1>1, <1>8, <2>1, Untouched DEF ReceiveIndex, ownerVars, loopVars
<1>9. CASE ReceivePoolPop(e)
  <2>1. /\ pc[e] = "poolpop" /\ UNCHANGED <<ownerVars, loopVars, recv_queues>>
    BY <1>9 DEF ReceivePoolPop
  <2>2. CASE UNCHANGED <<recv_pool, temp, pc>>
    <3>1. ThreadsInv'
      BY <1>1, <2>1, <2>2 DEF ThreadsInv, TypeInv, Hands, Joined, ownerVars, loopVars
    <3> QED BY <1>1, <2>1, <3>1, Untouched DEF ownerVars, loopVars
  <2>3. CASE /\ recv_pool # 0
             /\ temp' = [temp EXCEPT ![e] = Stale]
             /\ recv_pool' = recv_pool - 1
             /\ Goto(e, "push")
    <3>1. ThreadsInv'
      BY <1>1, <2>1, <2>3, Constants
         DEF Goto, ThreadsInv, TypeInv, Hands, Joined, ownerVars, loopVars
    <3> QED BY <1>1, <2>1, <3>1, Untouched DEF ownerVars, loopVars
  <2> QED BY <1>9, <2>2, <2>3 DEF ReceivePoolPop
<1>7. CASE ReceivePush(e)
  <2>1. ThreadsInv'
    BY <1>1, <1>7, Constants
       DEF ReceivePush, Goto, ThreadsInv, TypeInv, Hands, Joined, ownerVars, loopVars
  <2> QED BY <1>1, <1>7, <2>1, Untouched DEF ReceivePush, ownerVars, loopVars
<1> QED BY <1>2, <1>3, <1>4, <1>5, <1>6, <1>7, <1>8, <1>9 DEF Receiving

LEMMA NextIInv == IInv /\ [Next]_vars => IInv'
<1> SUFFICES ASSUME IInv, [Next]_vars PROVE IInv' OBVIOUS
<1>1. CASE UNCHANGED vars
  BY <1>1 DEF vars, ownerVars, loopVars, recvVars, IInv, ThreadsInv, TypeInv, Hands, Joined,
              Queues, DeleteDrains
<1> QED BY <1>1, OwnerKeeps, DeletingKeeps, LoopKeeps, ReceiversKeep DEF Next

\* Recv_Loop and Receive: a queue always holds the latest packets that arrived
\* for its endpoint, in order and with no gap, for any number of endpoints.
THEOREM QueuesInOrder == Spec => []QueuedInOrder
<1>1. IInv => QueuedInOrder BY DEF IInv, Queues, Latest, QueuedInOrder
<1> QED BY <1>1, InitIInv, NextIInv, PTL DEF Spec

\* Delete_UDP_SERVER joins the receive thread before it drains: what it drained
\* stays empty until it returns, whoever receives meanwhile.
THEOREM ServerDeleteDrains == Spec => []DeleteDrains
<1>1. IInv => DeleteDrains BY DEF IInv
<1> QED BY <1>1, InitIInv, NextIInv, PTL DEF Spec

-----------------------------------------------------------------------------
(* The packets *)

LEMMA QueuedCounted == IsFiniteSet(Queued) /\ Cardinality(Queued) \in Nat
<1>1. IsFiniteSet(Types)
  <2>1. MAX_UDP_CONNECTIONS - 1 \in Int BY Constants
  <2> QED BY <2>1, FS_Interval DEF Types
<1>2. IsFiniteSet(1..MaxArrivals) BY Constants, FS_Interval
<1>3. IsFiniteSet(Types \X (1..MaxArrivals)) BY <1>1, <1>2, FS_Product
<1> QED BY <1>3, FS_Subset, FS_CardinalityType DEF Queued

LEMMA HoldingCounted == IsFiniteSet(Holding) /\ Cardinality(Holding) \in Nat
<1>1. IsFiniteSet(Types)
  <2>1. MAX_UDP_CONNECTIONS - 1 \in Int BY Constants
  <2> QED BY <2>1, FS_Interval DEF Types
<1>2. IsFiniteSet(Ids) BY <1>1, Constants, FS_Subset
<1> QED BY <1>2, FS_Subset, FS_CardinalityType DEF Holding

\* A queue one longer is one packet more.
LEMMA QueueGrows ==
  ASSUME NEW t \in Types, Len(recv_queues[t]) \in 0..MaxArrivals - 1,
         Len(recv_queues'[t]) = Len(recv_queues[t]) + 1,
         \A u \in Types : u # t => recv_queues'[u] = recv_queues[u]
  PROVE  Cardinality(Queued)' = Cardinality(Queued) + 1
<1> DEFINE new == <<t, Len(recv_queues[t]) + 1>>
<1>1. new \in Types \X (1..MaxArrivals) /\ new[1] = t /\ new[2] = Len(recv_queues[t]) + 1
  BY Constants
<1>2. ASSUME NEW p \in Types \X (1..MaxArrivals)
      PROVE  p[2] <= Len(recv_queues'[p[1]]) <=> p[2] <= Len(recv_queues[p[1]]) \/ p = new
  <2>1. PICK u \in Types, k \in 1..MaxArrivals : p = <<u, k>> OBVIOUS
  <2>2. p[1] = u /\ p[2] = k /\ k \in Int BY <2>1, Constants
  <2>3. CASE u = t BY <2>1, <2>2, <2>3
  <2>4. CASE u # t BY <2>1, <2>2, <2>4
  <2> QED BY <2>3, <2>4
<1>3. new \notin Queued BY <1>1 DEF Queued
<1> HIDE DEF new
<1>4. Queued' = Queued \cup {new} BY <1>1, <1>2 DEF Queued
<1> QED BY <1>3, <1>4, QueuedCounted, FS_AddElement

\* A queue one shorter is one packet less.
LEMMA QueueShrinks ==
  ASSUME NEW t \in Types, Len(recv_queues[t]) \in 1..MaxArrivals,
         Len(recv_queues'[t]) = Len(recv_queues[t]) - 1,
         \A u \in Types : u # t => recv_queues'[u] = recv_queues[u]
  PROVE  Cardinality(Queued)' = Cardinality(Queued) - 1 /\ Cardinality(Queued) > 0
<1> DEFINE old == <<t, Len(recv_queues[t])>>
<1>1. old \in Types \X (1..MaxArrivals) /\ old[1] = t /\ old[2] = Len(recv_queues[t])
  BY Constants
<1>2. ASSUME NEW p \in Types \X (1..MaxArrivals)
      PROVE  p[2] <= Len(recv_queues'[p[1]]) <=> p[2] <= Len(recv_queues[p[1]]) /\ p # old
  <2>1. PICK u \in Types, k \in 1..MaxArrivals : p = <<u, k>> OBVIOUS
  <2>2. p[1] = u /\ p[2] = k /\ k \in Int BY <2>1, Constants
  <2>3. CASE u = t BY <2>1, <2>2, <2>3
  <2>4. CASE u # t BY <2>1, <2>2, <2>4
  <2> QED BY <2>3, <2>4
<1>3. old \in Queued BY <1>1 DEF Queued
<1> HIDE DEF old
<1>4. Queued' = Queued \ {old} BY <1>1, <1>2 DEF Queued
<1>5. Cardinality(Queued \ {old}) = Cardinality(Queued) - 1 BY <1>3, QueuedCounted, FS_RemoveElement
<1>6. Cardinality(Queued) # 0 BY <1>3, QueuedCounted, FS_EmptySet
<1> QED BY <1>4, <1>5, <1>6, QueuedCounted

LEMMA HoldingTakes ==
  ASSUME TypeInv, NEW e \in Ids, temp[e] = Nothing, NEW x, x # Nothing,
         temp' = [temp EXCEPT ![e] = x]
  PROVE  Cardinality(Holding)' = Cardinality(Holding) + 1
<1>1. Holding' = Holding \cup {e} /\ e \notin Holding BY DEF Holding, TypeInv
<1> QED BY <1>1, HoldingCounted, FS_AddElement

LEMMA HoldingGives ==
  ASSUME TypeInv, NEW e \in Ids, temp[e] # Nothing, temp' = [temp EXCEPT ![e] = Nothing]
  PROVE  Cardinality(Holding)' = Cardinality(Holding) - 1 /\ Cardinality(Holding) > 0
<1>1. Holding' = Holding \ {e} /\ e \in Holding BY DEF Holding, TypeInv
<1>2. Cardinality(Holding \ {e}) = Cardinality(Holding) - 1
  BY <1>1, HoldingCounted, FS_RemoveElement
<1>3. Cardinality(Holding) # 0 BY <1>1, HoldingCounted, FS_EmptySet
<1> QED BY <1>1, <1>2, <1>3, HoldingCounted

HeldPacket == IF held THEN 1 ELSE 0

LEMMA InUseParts ==
  /\ InUse = Cardinality(Queued) + Cardinality(Holding) + HeldPacket
  /\ InUse' = Cardinality(Queued)' + Cardinality(Holding)' + HeldPacket'
  /\ Cardinality(Queued) \in Nat /\ Cardinality(Holding) \in Nat /\ HeldPacket \in {0, 1}
  /\ InUse \in Nat
<1>1. HeldPacket \in {0, 1} BY DEF HeldPacket
<1>2. /\ InUse = Cardinality(Queued) + Cardinality(Holding) + HeldPacket
      /\ InUse' = Cardinality(Queued)' + Cardinality(Holding)' + HeldPacket'
  BY DEF InUse, HeldPacket
<1> QED BY <1>1, <1>2, QueuedCounted, HoldingCounted

PoolStep == [Pool!Take \/ Pool!Give \/ Pool!Remove \/ Pool!Turn]_<<recv_pool, InUse, leaked, Phase>>

LEMMA InitPool == Init => Pool!Fill
<1> SUFFICES ASSUME Init PROVE Pool!Fill OBVIOUS
<1>1. Holding = {} BY DEF Init, Holding
<1>2. Queued = {}
  <2> SUFFICES ASSUME NEW p \in Queued PROVE FALSE OBVIOUS
  <2>1. p[1] \in Types /\ p[2] \in 1..MaxArrivals /\ p[2] <= Len(recv_queues[p[1]]) BY DEF Queued
  <2>2. Len(recv_queues[p[1]]) = 0 BY <2>1 DEF Init
  <2> QED BY <2>1, <2>2, Constants
<1>3. InUse = 0 BY <1>1, <1>2, InUseParts, FS_EmptySet DEF Init, HeldPacket
<1> QED BY <1>3 DEF Init, Pool!Fill, Phase

\* A step that moves no packet, but may tell the receive thread to stop or go on.
LEMMA OnlyPhase ==
  ASSUME UNCHANGED <<recv_pool, recv_queues, temp, held, leaked>>
  PROVE  PoolStep
<1>1. InUse' = InUse BY DEF InUse, Queued, Holding
<1>2. Phase \in {"open", "closing"} /\ Phase' \in {"open", "closing"} BY DEF Phase
<1> QED BY <1>1, <1>2 DEF PoolStep, Pool!Turn

LEMMA OwnerPool ==
  ASSUME NEW e \in Ids, Accept(e) \/ Initialize(e) \/ Delete(e)
  PROVE  PoolStep
<1>1. UNCHANGED <<recv_pool, recv_queues, temp, held, leaked>>
  BY DEF Accept, Initialize, Delete, loopVars, recvVars
<1> QED BY <1>1, OnlyPhase

\* What popping the first packet of a queue does to the count of the queued.
LEMMA PopQueued ==
  ASSUME IInv, NEW t \in Types, recv_queues[t] # <<>>,
         recv_queues' = [recv_queues EXCEPT ![t] = Tail(@)]
  PROVE  /\ Cardinality(Queued)' = Cardinality(Queued) - 1 /\ Cardinality(Queued) > 0
         /\ Head(recv_queues[t]) # Nothing
<1>1. /\ recv_queues \in [Types -> Seq(Nat)] /\ recv_queues[t] \in Seq(Nat)
      /\ arrived[t] \in 0..MaxArrivals
  BY DEF IInv, ThreadsInv, TypeInv
<1>2. Latest(recv_queues[t], arrived[t]) /\ arrived[t] \in Nat
  BY <1>1, Constants DEF IInv, Queues
<1>3. /\ Len(Tail(recv_queues[t])) = Len(recv_queues[t]) - 1
      /\ Len(recv_queues[t]) \in 1..arrived[t] /\ Head(recv_queues[t]) # 0
  BY <1>1, <1>2, LatestTail
<1>4. Len(recv_queues[t]) \in 1..MaxArrivals BY <1>1, <1>3, Constants
<1>5. /\ recv_queues'[t] = Tail(recv_queues[t])
      /\ \A u \in Types : u # t => recv_queues'[u] = recv_queues[u]
  BY <1>1
<1> QED BY <1>3, <1>4, <1>5, QueueShrinks, Constants

LEMMA DeletingPool ==
  ASSUME IInv, Deleting
  PROVE  PoolStep \/ (DeletePop /\ PopsNothing)
<1>1. CASE DeleteJoin \/ DeleteDrain \/ DeleteDrained \/ DeleteEnd
  <2>1. UNCHANGED <<recv_pool, recv_queues, temp, held, leaked>>
    BY <1>1 DEF DeleteJoin, DeleteDrain, DeleteDrained, DeleteEnd, loopVars, recvVars
  <2> QED BY <2>1, OnlyPhase
<1>2. CASE DeletePop /\ ~PopsNothing
  <2>1. /\ recv_queues[on] # <<>>
        /\ recv_queues' = [recv_queues EXCEPT ![on] = Tail(@)]
        /\ recv_pool' = recv_pool + 1
        /\ UNCHANGED <<running, held, leaked, temp>>
    BY <1>2 DEF DeletePop, PopsNothing, loopVars, recvVars
  <2>2. on \in Types BY Constants DEF IInv, ThreadsInv, TypeInv
  <2>3. Cardinality(Queued)' = Cardinality(Queued) - 1 /\ Cardinality(Queued) > 0
    BY <2>1, <2>2, PopQueued
  <2>4. Holding' = Holding /\ HeldPacket' = HeldPacket BY <2>1 DEF Holding, HeldPacket
  <2>5. InUse' = InUse - 1 /\ InUse > 0 BY <2>3, <2>4, InUseParts
  <2> QED BY <2>1, <2>5 DEF PoolStep, Pool!Give, Phase
<1> QED BY <1>1, <1>2 DEF Deleting

LEMMA LoopPool ==
  ASSUME IInv, RecvLoop
  PROVE  PoolStep
<1>1. Hands /\ TypeInv BY DEF IInv, ThreadsInv
<1>2. CASE LoopTest \/ LoopRecvNothing
  <2>1. UNCHANGED <<recv_pool, recv_queues, temp, held, leaked>>
    BY <1>2 DEF LoopTest, LoopRecvNothing, recvVars
  <2> QED BY <2>1, OnlyPhase
<1>3. CASE LoopWhile
  <2>1. UNCHANGED <<running, recv_pool, recv_queues, temp>>
    BY <1>3 DEF LoopWhile, ownerVars, recvVars
  <2>2. CASE UNCHANGED <<held, leaked>> BY <2>1, <2>2, OnlyPhase
  <2>3. CASE ~running /\ held /\ held' = FALSE /\ leaked' = leaked + 1
    <3>1. Holding' = Holding /\ Queued' = Queued BY <2>1 DEF Holding, Queued
    <3>2. HeldPacket = 1 /\ HeldPacket' = 0 BY <2>3 DEF HeldPacket
    <3>3. InUse' = InUse - 1 /\ InUse > 0 BY <3>1, <3>2, InUseParts
    <3> QED BY <2>1, <2>3, <3>3 DEF PoolStep, Pool!Remove, Phase
  <2>4. CASE ~held /\ held' = FALSE /\ leaked' = leaked
    <3>1. held' = held BY <1>1, <2>4 DEF TypeInv
    <3> QED BY <2>1, <2>4, <3>1, OnlyPhase
  <2> QED BY <1>3, <2>2, <2>3, <2>4 DEF LoopWhile
<1>4. CASE LoopTake
  <2>1. UNCHANGED <<running, recv_queues, temp, leaked>> /\ ~held
    BY <1>1, <1>4 DEF LoopTake, Hands, ownerVars, recvVars
  <2>2. CASE UNCHANGED <<recv_pool, held>> BY <2>1, <2>2, OnlyPhase
  <2>3. CASE recv_pool # 0 /\ recv_pool' = recv_pool - 1 /\ held' = TRUE
    <3>1. Holding' = Holding /\ Queued' = Queued BY <2>1 DEF Holding, Queued
    <3>2. HeldPacket = 0 /\ HeldPacket' = 1 BY <2>1, <2>3 DEF HeldPacket
    <3>3. InUse' = InUse + 1 BY <3>1, <3>2, InUseParts
    <3>4. recv_pool > 0 BY <1>1, <2>3 DEF TypeInv
    <3> QED BY <2>1, <2>3, <3>3, <3>4 DEF PoolStep, Pool!Take, Phase
  <2> QED BY <1>4, <2>2, <2>3 DEF LoopTake
<1>5. ASSUME NEW t \in Types, LoopRecv(t) PROVE PoolStep
  <2>1. /\ loop = "recv" /\ held' = FALSE /\ arrived[t] < MaxArrivals
        /\ arrived' = [arrived EXCEPT ![t] = @ + 1]
        /\ recv_queues' = [recv_queues EXCEPT ![t] = Append(@, arrived'[t])]
        /\ UNCHANGED <<running, leaked, recv_pool, temp>>
    BY <1>5 DEF LoopRecv, ownerVars, recvVars
  <2>2. /\ recv_queues \in [Types -> Seq(Nat)] /\ recv_queues[t] \in Seq(Nat)
        /\ arrived \in [Types -> 0..MaxArrivals] /\ arrived[t] \in Nat
    BY <1>1, Constants DEF TypeInv
  <2>3. Latest(recv_queues[t], arrived[t]) BY DEF IInv, Queues
  <2>4. arrived'[t] = arrived[t] + 1 BY <2>1, <2>2
  <2>5. /\ recv_queues'[t] = Append(recv_queues[t], arrived[t] + 1)
        /\ \A u \in Types : u # t => recv_queues'[u] = recv_queues[u]
    BY <2>1, <2>2, <2>4
  <2>6. /\ Len(recv_queues'[t]) = Len(recv_queues[t]) + 1
        /\ Len(recv_queues[t]) \in 0..arrived[t]
    BY <2>2, <2>3, <2>5, LatestAppend
  <2>7. Len(recv_queues[t]) \in 0..MaxArrivals - 1 BY <2>1, <2>2, <2>6, Constants
  <2>8. Cardinality(Queued)' = Cardinality(Queued) + 1 BY <2>5, <2>6, <2>7, QueueGrows
  <2>9. Holding' = Holding BY <2>1 DEF Holding
  <2>10. HeldPacket = 1 /\ HeldPacket' = 0 BY <1>1, <2>1 DEF Hands, HeldPacket
  <2>11. InUse' = InUse BY <2>8, <2>9, <2>10, InUseParts
  <2> QED BY <2>1, <2>11 DEF PoolStep, Phase
<1> QED BY <1>2, <1>3, <1>4, <1>5 DEF RecvLoop

LEMMA ReceiversPool ==
  ASSUME IInv, NEW e \in Ids, Receive(e) \/ Receiving(e)
  PROVE  PoolStep
<1>1. Hands /\ TypeInv BY DEF IInv, ThreadsInv
<1>2. CASE Receive(e) \/ ReceivePoll(e) \/ ReceivePeek(e) \/ ReceiveCheck(e) \/ ReceiveIndex(e)
  <2>1. UNCHANGED <<recv_pool, recv_queues, temp, held, leaked>>
    BY <1>2 DEF Receive, ReceivePoll, ReceivePeek, ReceiveCheck, ReceiveIndex, loopVars
  <2> QED BY <2>1, OnlyPhase
<1>3. CASE ReceivePop(e)
  <2>1. UNCHANGED <<running, held, leaked>> /\ temp[e] = Nothing
    BY <1>1, <1>3 DEF ReceivePop, Hands, ownerVars, loopVars
  <2>2. HeldPacket' = HeldPacket BY <2>1 DEF HeldPacket
  <2>3. CASE UNCHANGED <<recv_pool, recv_queues, temp>> BY <2>1, <2>3, OnlyPhase
  <2>4. CASE /\ recv_queues[e] # <<>>
             /\ temp' = [temp EXCEPT ![e] = Head(recv_queues[e])]
             /\ recv_queues' = [recv_queues EXCEPT ![e] = Tail(@)]
             /\ recv_pool' = recv_pool
    <3>1. e \in Types BY Constants
    <3>2. /\ Cardinality(Queued)' = Cardinality(Queued) - 1
          /\ Head(recv_queues[e]) # Nothing
      BY <2>4, <3>1, PopQueued
    <3>3. Cardinality(Holding)' = Cardinality(Holding) + 1
      BY <1>1, <2>1, <2>4, <3>2, HoldingTakes
    <3>4. InUse' = InUse BY <2>2, <3>2, <3>3, InUseParts
    <3> QED BY <2>1, <2>4, <3>4 DEF PoolStep, Phase
  <2> QED BY <1>3, <2>3, <2>4 DEF ReceivePop
<1>5. CASE ReceivePoolPop(e)
  <2>1. UNCHANGED <<running, held, leaked, recv_queues>> /\ temp[e] = Nothing
    BY <1>1, <1>5 DEF ReceivePoolPop, Hands, ownerVars, loopVars
  <2>2. HeldPacket' = HeldPacket /\ Queued' = Queued BY <2>1 DEF HeldPacket, Queued
  <2>3. CASE UNCHANGED <<recv_pool, temp>> BY <2>1, <2>3, OnlyPhase
  <2>4. CASE /\ recv_pool # 0
             /\ temp' = [temp EXCEPT ![e] = Stale]
             /\ recv_pool' = recv_pool - 1
    <3>1. Cardinality(Holding)' = Cardinality(Holding) + 1
      BY <1>1, <2>1, <2>4, Constants, HoldingTakes
    <3>2. InUse' = InUse + 1 BY <2>2, <3>1, InUseParts
    <3>3. recv_pool > 0 BY <1>1, <2>4 DEF TypeInv
    <3> QED BY <2>1, <2>4, <3>2, <3>3 DEF PoolStep, Pool!Take, Phase
  <2> QED BY <1>5, <2>3, <2>4 DEF ReceivePoolPop
<1>4. CASE ReceivePush(e)
  <2>1. /\ recv_pool' = recv_pool + 1 /\ temp' = [temp EXCEPT ![e] = Nothing]
        /\ temp[e] # Nothing
        /\ UNCHANGED <<running, held, leaked, recv_queues>>
    BY <1>1, <1>4 DEF ReceivePush, Hands, ownerVars, loopVars
  <2>2. Cardinality(Holding)' = Cardinality(Holding) - 1 /\ Cardinality(Holding) > 0
    BY <1>1, <2>1, HoldingGives
  <2>3. Queued' = Queued /\ HeldPacket' = HeldPacket BY <2>1 DEF Queued, HeldPacket
  <2>4. InUse' = InUse - 1 /\ InUse > 0 BY <2>2, <2>3, InUseParts
  <2> QED BY <2>1, <2>4 DEF PoolStep, Pool!Give, Phase
<1> QED BY <1>2, <1>3, <1>4, <1>5 DEF Receiving

LEMMA StepPool ==
  ASSUME IInv, [Next]_vars
  PROVE  PoolStep \/ (DeletePop /\ PopsNothing)
<1>1. CASE UNCHANGED vars BY <1>1, OnlyPhase DEF vars, loopVars, recvVars
<1> QED BY <1>1, OwnerPool, DeletingPool, LoopPool, ReceiversPool DEF Next

\* UDP_SERVER_MASTER and UDP_CLIENT_MASTER, with any number of endpoints, queues
\* and packets: every step of every thread is one of an ElementPool, which only
\* a stopped receive thread loses a packet of, but the pop of a queue that a
\* Receive has emptied since Delete found it not empty.
THEOREM PoolRefinement == Spec => ImplementsPool
<1>1. IInv /\ [Next]_vars
      => [Pool!Step \/ (DeletePop /\ PopsNothing)]_<<recv_pool, InUse, leaked, Phase>>
  BY StepPool DEF PoolStep, Pool!Step
<1> QED BY <1>1, InitIInv, NextIInv, InitPool, PTL DEF Spec, ImplementsPool
=============================================================================
