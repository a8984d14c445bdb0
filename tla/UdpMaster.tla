------------------------------ MODULE UdpMaster ------------------------------
(***************************************************************************)
(* The UDP transport: UDP_SERVER_MASTER with its virtual UDP_SERVERs, or   *)
(* UDP_CLIENT_MASTER with its virtual UDP_CLIENTs, which differ only in    *)
(* the order of Delete and in one test of Receive.                         *)
(* POOL_QUEUE_SIZE packets circulate: the receive thread takes one from    *)
(* recv_pool, receives into it, and queues it for the virtual endpoint its *)
(* first byte names; a Receive copies it out and puts it back.             *)
(*   owner     - accepts (or connects), deletes and initialises again;     *)
(*   loop      - Recv_Loop, started by Accept and joined by Delete;        *)
(*   receivers - one thread per endpoint, in Receive.                      *)
(* Packets are interchangeable: the pool is a count, and a queue holds the *)
(* serial numbers of what arrived.                                         *)
(***************************************************************************)
EXTENDS Integers, Sequences, FiniteSets

CONSTANTS
  Sides,                \* the sides to model: "server", "client"
  Ids,                  \* the virtual endpoints somebody uses
  MAX_UDP_CONNECTIONS,  \* queues: a packet may name one that nobody uses
  POOL_QUEUE_SIZE, RECV_ATTEMPTS,
  MaxStarts,            \* bound on the receive threads started
  MaxArrivals           \* bound on the packets per endpoint

Types == 0..MAX_UDP_CONNECTIONS - 1

ASSUME UdpAssumption ==
  /\ Sides \subseteq {"server", "client"}
  /\ MAX_UDP_CONNECTIONS \in Nat /\ Ids \subseteq Types
  /\ POOL_QUEUE_SIZE \in Nat /\ RECV_ATTEMPTS \in Nat
  /\ MaxStarts \in Nat /\ MaxArrivals \in Nat

VARIABLES
  side,        \* the side of this transport
  open,        \* open[e]: the endpoint's id is not -1
  owner, on,   \* what the owner does, and on which endpoint
  running, accepted, recv_thread,
  loop, held,  \* the receive thread; its temp_buff is a packet
  recv_pool, recv_queues,
  leaked,      \* packets whose last pointer was dropped
  starts,      \* how many receive threads were started
  arrived,     \* how many packets for each endpoint were queued so far
  pc, attempts,
  temp,        \* the packet a receiver holds: its serial number, Nothing or Stale
  crashed      \* an uninitialised pointer was used, or put in the pool

ownerVars == <<open, owner, on, running, accepted, recv_thread, starts>>
loopVars  == <<loop, held, arrived, leaked>>
recvVars  == <<pc, attempts, temp>>
vars == <<side, ownerVars, loopVars, recv_pool, recv_queues, recvVars, crashed>>

Nothing == 0
Stale   == MaxArrivals + 1

Init ==
  /\ side \in Sides
  /\ open = [e \in Ids |-> TRUE]
  /\ owner = "idle" /\ on \in Ids
  /\ running = FALSE /\ accepted = FALSE /\ recv_thread = FALSE
  /\ loop = "none" /\ held = FALSE
  /\ recv_pool = POOL_QUEUE_SIZE
  /\ recv_queues = [t \in Types |-> <<>>]
  /\ leaked = 0 /\ starts = 0
  /\ arrived = [t \in Types |-> 0]
  /\ pc = [e \in Ids |-> "idle"]
  /\ attempts = [e \in Ids |-> 0]
  /\ temp = [e \in Ids |-> Nothing]
  /\ crashed = FALSE

-----------------------------------------------------------------------------
(* The owner *)

\* The handshake succeeds; if it fails, or a sibling has accepted already, or
\* a receive thread is there, nothing changes.
Accept(e) ==
  /\ owner = "idle"
  /\ open[e]
  /\ ~accepted
  /\ ~recv_thread
  /\ starts < MaxStarts
  /\ starts' = starts + 1
  /\ running' = TRUE
  /\ recv_thread' = TRUE
  /\ loop' = "while"
  /\ accepted' = TRUE
  /\ UNCHANGED <<open, owner, on, held, arrived, leaked, recv_pool, recv_queues, recvVars, crashed>>

\* A deleted endpoint is initialised again, with the same id.
Initialize(e) ==
  /\ owner = "idle"
  /\ ~open[e]
  /\ pc[e] = "idle"
  /\ open' = [open EXCEPT ![e] = TRUE]
  /\ UNCHANGED <<owner, on, running, accepted, recv_thread, starts, loopVars, recv_pool,
                 recv_queues, recvVars, crashed>>

\* Mutant: the receive thread is not told to stop.
Close_KeepsRunning(e, next) ==
  /\ open' = [open EXCEPT ![e] = FALSE]
  /\ owner' = IF recv_thread THEN "join" ELSE next
  /\ UNCHANGED running

\* Close the endpoint, and tell the thread, which all endpoints share, to stop.
Close(e, next) ==
  /\ open' = [open EXCEPT ![e] = FALSE]
  /\ running' = FALSE
  /\ owner' = IF recv_thread THEN "join" ELSE next

\* Mutant: the queue is drained while the receive thread still runs.
Delete_NoStop(e) ==
  /\ owner = "idle"
  /\ open[e]
  /\ on' = e
  /\ open' = [open EXCEPT ![e] = FALSE]
  /\ owner' = "drain"
  /\ UNCHANGED <<running, accepted, recv_thread, starts, loopVars, recv_pool, recv_queues,
                 recvVars, crashed>>

\* A server closes, joins, then drains; a client drains, then closes and joins.
Delete(e) ==
  /\ owner = "idle"
  /\ open[e]
  /\ on' = e
  /\ IF side = "server" THEN Close(e, "drain")
                        ELSE owner' = "drain" /\ UNCHANGED <<open, running>>
  /\ UNCHANGED <<accepted, recv_thread, starts, loopVars, recv_pool, recv_queues, recvVars, crashed>>

DeleteJoin ==
  /\ owner = "join"
  /\ loop = "ended"
  /\ recv_thread' = FALSE
  /\ loop' = "none"
  /\ owner' = IF side = "server" THEN "drain" ELSE "end"
  /\ UNCHANGED <<open, on, running, accepted, starts, held, arrived, leaked, recv_pool,
                 recv_queues, recvVars, crashed>>

DeleteDrain ==
  /\ owner = "drain"
  /\ recv_queues[on] # <<>>
  /\ owner' = "pop"
  /\ UNCHANGED <<open, on, running, accepted, recv_thread, starts, loopVars, recv_pool,
                 recv_queues, recvVars, crashed>>

\* A Receive has emptied the queue since: pop returns an uninitialised pointer.
PopsNothing == owner = "pop" /\ recv_queues[on] = <<>>

\* What was popped is pushed into the pool, whatever it is.
DeletePop ==
  /\ owner = "pop"
  /\ owner' = "drain"
  /\ recv_pool' = recv_pool + 1
  /\ crashed' = PopsNothing
  /\ recv_queues' = IF PopsNothing THEN recv_queues
                                   ELSE [recv_queues EXCEPT ![on] = Tail(@)]
  /\ UNCHANGED <<open, on, running, accepted, recv_thread, starts, loopVars, recvVars>>

DeleteDrained ==
  /\ owner = "drain"
  /\ recv_queues[on] = <<>>
  /\ IF side = "server" THEN owner' = "end" /\ UNCHANGED <<open, running>>
                        ELSE Close(on, "end")
  /\ UNCHANGED <<on, accepted, recv_thread, starts, loopVars, recv_pool, recv_queues, recvVars, crashed>>

DeleteEnd ==
  /\ owner = "end"
  /\ accepted' = FALSE
  /\ owner' = "idle"
  /\ UNCHANGED <<open, on, running, recv_thread, starts, loopVars, recv_pool, recv_queues,
                 recvVars, crashed>>

Deleting == DeleteJoin \/ DeleteDrain \/ DeletePop \/ DeleteDrained \/ DeleteEnd

-----------------------------------------------------------------------------
(* The receive thread *)

\* A packet still held when the thread ends is never given back.
LoopWhile ==
  /\ loop = "while"
  /\ \/ running /\ loop' = (IF held THEN "recv" ELSE "test") /\ UNCHANGED <<held, leaked>>
     \/ /\ ~running
        /\ loop' = "ended"
        /\ held' = FALSE
        /\ leaked' = IF held THEN leaked + 1 ELSE leaked
  /\ UNCHANGED <<ownerVars, arrived, recv_pool, recv_queues, recvVars, crashed>>

LoopTest ==
  /\ loop = "test"
  /\ loop' = IF recv_pool = 0 THEN "while" ELSE "take"
  /\ UNCHANGED <<ownerVars, held, arrived, leaked, recv_pool, recv_queues, recvVars, crashed>>

LoopTake ==
  /\ loop = "take"
  /\ IF recv_pool = 0 THEN crashed' = TRUE /\ UNCHANGED <<recv_pool, held, loop>>
     ELSE /\ recv_pool' = recv_pool - 1
          /\ held' = TRUE
          /\ loop' = "recv"
          /\ UNCHANGED crashed
  /\ UNCHANGED <<ownerVars, arrived, leaked, recv_queues, recvVars>>

\* Mutant: the packet goes to the front of its queue.
LoopRecv_Front(t) ==
  /\ loop = "recv"
  /\ arrived[t] < MaxArrivals
  /\ arrived' = [arrived EXCEPT ![t] = @ + 1]
  /\ recv_queues' = [recv_queues EXCEPT ![t] = <<arrived'[t]>> \o @]
  /\ held' = FALSE
  /\ loop' = "while"
  /\ UNCHANGED <<ownerVars, leaked, recv_pool, recvVars, crashed>>

\* A packet for one of the queues, whether or not anybody reads it.
LoopRecv(t) ==
  /\ loop = "recv"
  /\ arrived[t] < MaxArrivals
  /\ arrived' = [arrived EXCEPT ![t] = @ + 1]
  /\ recv_queues' = [recv_queues EXCEPT ![t] = Append(@, arrived'[t])]
  /\ held' = FALSE
  /\ loop' = "while"
  /\ UNCHANGED <<ownerVars, leaked, recv_pool, recvVars, crashed>>

\* The timeout of the socket, or a packet too short or for no queue.
LoopRecvNothing ==
  /\ loop = "recv"
  /\ loop' = "while"
  /\ UNCHANGED <<ownerVars, held, arrived, leaked, recv_pool, recv_queues, recvVars, crashed>>

RecvLoop == LoopWhile \/ LoopTest \/ LoopTake \/ LoopRecvNothing \/ \E t \in Types : LoopRecv(t)

-----------------------------------------------------------------------------
(* A receiver: Receive (and Receive_Unsafe, which differs in what it returns). *)
(* `id' is read anew at each use.  Once it is -1, recv_queues[-1] is in the    *)
(* struct's layout the pointer before the array: recv_pool.                    *)

Goto(e, l) == pc' = [pc EXCEPT ![e] = l]

Receive(e) ==
  /\ pc[e] = "idle"
  /\ open[e]
  /\ Goto(e, "poll")
  /\ attempts' = [attempts EXCEPT ![e] = RECV_ATTEMPTS]
  /\ UNCHANGED <<ownerVars, loopVars, recv_pool, recv_queues, temp, crashed>>

\* The client does not look at id again once it polls.
ReceivePoll(e) ==
  /\ pc[e] = "poll"
  /\ IF attempts[e] = 0 \/ (side = "server" /\ ~open[e])
       THEN Goto(e, "idle") /\ UNCHANGED attempts
       ELSE Goto(e, "peek") /\ attempts' = [attempts EXCEPT ![e] = @ - 1]
  /\ UNCHANGED <<ownerVars, loopVars, recv_pool, recv_queues, temp, crashed>>

\* How many packets recv_queues[id] holds.
QueueLength(e) == IF open[e] THEN Len(recv_queues[e]) ELSE recv_pool

ReceivePeek(e) ==
  /\ pc[e] = "peek"
  /\ Goto(e, IF QueueLength(e) = 0 THEN "poll" ELSE IF side = "server" THEN "check" ELSE "index")
  /\ UNCHANGED <<ownerVars, loopVars, recv_pool, recv_queues, attempts, temp, crashed>>

ReceiveCheck(e) ==
  /\ pc[e] = "check"
  /\ Goto(e, IF open[e] THEN "index" ELSE "idle")
  /\ UNCHANGED <<ownerVars, loopVars, recv_pool, recv_queues, attempts, temp, crashed>>

\* The queue is looked up before pop takes its mutex.
ReceiveIndex(e) ==
  /\ pc[e] = "index"
  /\ Goto(e, IF open[e] THEN "pop" ELSE "poolpop")
  /\ UNCHANGED <<ownerVars, loopVars, recv_pool, recv_queues, attempts, temp, crashed>>

\* pop of an empty queue returns an uninitialised pointer, and it is used.
ReceivePop(e) ==
  /\ pc[e] = "pop"
  /\ IF recv_queues[e] = <<>>
       THEN crashed' = TRUE /\ UNCHANGED <<recv_queues, temp, pc>>
       ELSE /\ temp' = [temp EXCEPT ![e] = Head(recv_queues[e])]
            /\ recv_queues' = [recv_queues EXCEPT ![e] = Tail(@)]
            /\ Goto(e, "push")
            /\ UNCHANGED crashed
  /\ UNCHANGED <<ownerVars, loopVars, recv_pool, attempts>>

\* The packet of a deleted endpoint's Receive comes from the pool.
ReceivePoolPop(e) ==
  /\ pc[e] = "poolpop"
  /\ IF recv_pool = 0
       THEN crashed' = TRUE /\ UNCHANGED <<recv_pool, temp, pc>>
       ELSE /\ temp' = [temp EXCEPT ![e] = Stale]
            /\ recv_pool' = recv_pool - 1
            /\ Goto(e, "push")
            /\ UNCHANGED crashed
  /\ UNCHANGED <<ownerVars, loopVars, recv_queues, attempts>>

\* Mutant: the packet is not given back.
ReceivePush_Leaks(e) ==
  /\ pc[e] = "push"
  /\ temp' = [temp EXCEPT ![e] = Nothing]
  /\ Goto(e, "idle")
  /\ UNCHANGED <<ownerVars, loopVars, recv_pool, recv_queues, attempts, crashed>>

\* Copied out, the packet goes back.  (Its size, which Receive returns, is read
\* only then, when the receive thread may have it again; sizes are left out.)
ReceivePush(e) ==
  /\ pc[e] = "push"
  /\ recv_pool' = recv_pool + 1
  /\ temp' = [temp EXCEPT ![e] = Nothing]
  /\ Goto(e, "idle")
  /\ UNCHANGED <<ownerVars, loopVars, recv_queues, attempts, crashed>>

Receiving(e) ==
  \/ ReceivePoll(e) \/ ReceivePeek(e) \/ ReceiveCheck(e) \/ ReceiveIndex(e)
  \/ ReceivePop(e) \/ ReceivePoolPop(e) \/ ReceivePush(e)

Next ==
  /\ ~crashed
  /\ UNCHANGED side
  /\ \/ \E e \in Ids : Accept(e) \/ Initialize(e) \/ Delete(e) \/ Receive(e) \/ Receiving(e)
     \/ Deleting \/ RecvLoop

\* All threads are scheduled; the socket has a timeout, so recvfrom comes back.
Fairness ==
  /\ WF_vars(~crashed /\ Deleting /\ UNCHANGED side)
  /\ WF_vars(~crashed /\ RecvLoop /\ UNCHANGED side)
  /\ \A e \in Ids : WF_vars(~crashed /\ Receiving(e) /\ UNCHANGED side)

Spec == Init /\ [][Next]_vars
FairSpec == Spec /\ Fairness

-----------------------------------------------------------------------------
(* Properties *)

\* The packets queued, each as its queue and its place in it.
Queued == {p \in Types \X (1..MaxArrivals) : p[2] <= Len(recv_queues[p[1]])}

Holding == {e \in Ids : temp[e] # Nothing}

InUse == Cardinality(Queued) + Cardinality(Holding) + (IF held THEN 1 ELSE 0)

Phase == IF running THEN "open" ELSE "closing"

Pool == INSTANCE ElementPool WITH
          Size <- POOL_QUEUE_SIZE, free <- recv_pool, busy <- InUse, gone <- leaked,
          phase <- Phase

\* Packets circulate one at a time between the pool, the receive thread, the
\* queues and the receivers: none is lost but the one the receive thread holds
\* when it is stopped, and none is doubled, but where Delete pops the queue a
\* Receive has just emptied.  That step, and no other interleaving of Receive,
\* Delete and the receive thread, gives the pool a pointer nobody took from it.
ImplementsPool ==
  /\ Pool!Fill
  /\ [][Pool!Step \/ (DeletePop /\ PopsNothing)]_<<recv_pool, InUse, leaked, Phase>>

\* What is queued for an endpoint is the latest of what arrived for it, with
\* no gap and in order: nothing is lost but what Receive and Delete took.
QueuedInOrder ==
  \A t \in Types :
    LET n == Len(recv_queues[t])
    IN recv_queues[t] = [k \in 1..n |-> arrived[t] - n + k]

\* A server's Delete leaves the endpoint's queue empty: the thread that fills
\* it was joined before it was drained.  (Not so a client's.)
DeleteDrains == side = "server" /\ owner = "end" => recv_queues[on] = <<>>

\* Recv_Loop on an empty pool: "what? should never happen".
PoolNeverEmpty == loop = "test" => recv_pool > 0

\* A Delete returns, because the receive thread it joins sees the flag within
\* one timeout of the socket, and so does a Receive, whatever becomes of the
\* endpoint under it.
CallsReturn ==
  /\ owner = "join" ~> owner = "idle" \/ crashed
  /\ \A e \in Ids : pc[e] # "idle" ~> pc[e] = "idle" \/ crashed
=============================================================================
