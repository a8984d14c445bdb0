------------------------ MODULE WsServerMaster_proofs ------------------------
(***************************************************************************)
(* The websocket transport keeps its stock of elements, for any number of  *)
(* services, senders and clients, any pool, time-outs and limits.          *)
(*   Counting needs to know who can hold an element: a sender exactly      *)
(* between its pop and its push, and nobody once Delete has joined         *)
(* everybody (`Joined').  That a sender's element does not vanish between  *)
(* its look and its pop is `SeenElement', carried through the second test. *)
(***************************************************************************)
EXTENDS WsServerMaster, FiniteSetTheorems, TLAPS

Frames == [from : Senders, n : Nat]

TypeInv ==
  /\ pool \in Nat /\ freed \in Nat /\ registered \in Nat
  /\ owner \in {"wait", "register", "fill", "stopping", "join", "drain", "deleted"}
  /\ svc \in {"start", "service", "recycle", "ended"}
  /\ active_write \in Seq(Frames)
  /\ pc \in [Senders -> {"unborn", "idle", "loop", "test", "pop", "push"}]
  /\ temp \in [Senders -> BOOLEAN]
  /\ seen \in [Senders -> BOOLEAN]
  /\ accepted \in [Senders -> Nat]

\* A sender has an element in its hands between its pop and its push, and its
\* thread is started once.
HandsAtPush ==
  \A s \in Senders : /\ temp[s] <=> pc[s] = "push"
                     /\ s > registered => pc[s] = "unborn"

Joined ==
  /\ owner \in {"join", "drain", "deleted"} => Quiet
  /\ owner \in {"drain", "deleted"} => svc = "ended"

SeenElement ==
  \A s \in Senders : seen[s] /\ pc[s] \in {"test", "pop"} => pool > 0

ThreadsInv == TypeInv /\ HandsAtPush /\ Joined /\ SeenElement

Conserved == pool + InUse + freed = WEB_SOCKET_POOL_SIZE

IInv == ThreadsInv /\ Conserved

LEMMA InitThreads == Init => ThreadsInv
BY WsAssumption DEF Init, ThreadsInv, TypeInv, HandsAtPush, Joined, SeenElement, Quiet

-----------------------------------------------------------------------------
(* The threads *)

LEMMA OwnerThreads ==
  ASSUME ThreadsInv, Owner \/ StopSenders
  PROVE  ThreadsInv'
<1> USE DEF ThreadsInv
<1>1. CASE WaitRound
  BY <1>1 DEF WaitRound, TypeInv, HandsAtPush, Joined, SeenElement, Quiet, hostVars, queues,
              senderVars, svcVars
<1>2. CASE WaitOver
  BY <1>2 DEF WaitOver, TypeInv, HandsAtPush, Joined, SeenElement, Quiet, hostVars, queues,
              senderVars, svcVars
<1>3. CASE RegisterSlot
  BY <1>3 DEF RegisterSlot, TypeInv, HandsAtPush, Joined, SeenElement, Quiet, queues,
              senderVars, svcVars
<1>4. CASE StopSenders
  BY <1>4 DEF StopSenders, TypeInv, HandsAtPush, Joined, SeenElement, Quiet, hostVars, queues,
              senderVars, svcVars
<1>5. CASE RegisterFill \/ RegisterRefused
  <2>1. /\ registered' = registered + 1 /\ pc' = Born(registered + 1)
        /\ owner' = "register"
        /\ UNCHANGED <<freed, pool, active_write, temp, seen, accepted, svc>>
    BY <1>5 DEF RegisterFill, RegisterRefused, queues, svcVars
  <2>2. \A s \in Senders :
          /\ pc'[s] = IF s = registered + 1 THEN "idle" ELSE pc[s]
          /\ s = registered + 1 => pc[s] = "unborn"
    BY <2>1 DEF Born, TypeInv, HandsAtPush
  <2>3. pc' \in [Senders -> {"unborn", "idle", "loop", "test", "pop", "push"}]
    BY <2>1 DEF Born, TypeInv
  <2>4. TypeInv' BY <2>1, <2>3 DEF TypeInv
  <2>5. HandsAtPush' BY <2>1, <2>2, WsAssumption DEF HandsAtPush, TypeInv
  <2>6. Joined' BY <2>1 DEF Joined
  <2>7. SeenElement' BY <2>1, <2>2 DEF SeenElement
  <2> QED BY <2>4, <2>5, <2>6, <2>7
<1> QED BY <1>1, <1>2, <1>3, <1>4, <1>5 DEF Owner

LEMMA DeletionThreads ==
  ASSUME ThreadsInv, Deletion
  PROVE  ThreadsInv'
<1> USE DEF ThreadsInv
<1>1. CASE Delete
  BY <1>1 DEF Delete, TypeInv, HandsAtPush, Joined, SeenElement, Quiet, hostVars, queues,
              senderVars, svcVars
<1>2. CASE JoinService
  BY <1>2 DEF JoinService, TypeInv, HandsAtPush, Joined, SeenElement, Quiet, hostVars, queues,
              senderVars
<1>3. CASE DrainActive
  <2>1. /\ owner = "drain" /\ freed' = freed + 1 /\ active_write' = Tail(active_write)
        /\ active_write # <<>>
        /\ UNCHANGED <<owner, registered, pool, pc, temp, seen, accepted, svc>>
    BY <1>3 DEF DrainActive, senderVars, svcVars
  <2>2. TypeInv' BY <2>1 DEF TypeInv
  <2>3. HandsAtPush' BY <2>1 DEF HandsAtPush
  <2>4. Joined' BY <2>1 DEF Joined, Quiet
  <2>5. SeenElement' BY <2>1 DEF SeenElement
  <2> QED BY <2>2, <2>3, <2>4, <2>5
<1>4. CASE DrainPool
  BY <1>4 DEF DrainPool, TypeInv, HandsAtPush, Joined, SeenElement, Quiet, hostVars,
              senderVars, svcVars
<1>5. CASE DeleteQueues
  BY <1>5 DEF DeleteQueues, TypeInv, HandsAtPush, Joined, SeenElement, Quiet, queues,
              senderVars, svcVars
<1> QED BY <1>1, <1>2, <1>3, <1>4, <1>5 DEF Deletion

LEMMA SenderThreads ==
  ASSUME ThreadsInv, NEW s \in Senders, Send(s) \/ Sending(s)
  PROVE  ThreadsInv'
<1> USE DEF ThreadsInv
<1>1. pc[s] \in {"idle", "loop", "test", "pop", "push"}
  BY DEF Send, Sending, SendWait, SendLeaveLoop, SendTest, SendPop, SendPush
<1>2. CASE Send(s)
  BY <1>2 DEF Send, Goto, TypeInv, HandsAtPush, Joined, SeenElement, Quiet, ownerVars, queues, svcVars
<1>3. CASE SendWait(s)
  BY <1>3 DEF SendWait, TypeInv, HandsAtPush, Joined, SeenElement, Quiet, ownerVars, queues, svcVars
<1>4. CASE SendLeaveLoop(s)
  BY <1>4 DEF SendLeaveLoop, Goto, TypeInv, HandsAtPush, Joined, SeenElement, Quiet, ownerVars,
              queues, svcVars
<1>5. CASE SendTest(s)
  BY <1>5 DEF SendTest, Goto, TypeInv, HandsAtPush, Joined, SeenElement, Quiet, ownerVars, queues, svcVars
<1>6. CASE SendPop(s)
  <2>1. /\ pc[s] = "pop" /\ pc \in [Senders -> {"unborn", "idle", "loop", "test", "pop", "push"}]
        /\ UNCHANGED <<owner, registered, freed, active_write, accepted, svc>>
    BY <1>6 DEF SendPop, ownerVars, svcVars, TypeInv
  <2>2. CASE pool = 0
    <3>1. UNCHANGED <<pool, pc, temp, seen>> BY <1>6, <2>2 DEF SendPop
    <3> QED BY <2>1, <3>1 DEF TypeInv, HandsAtPush, Joined, SeenElement, Quiet
  <2>3. CASE pool > 0
    <3>1. /\ pool' = pool - 1 /\ temp' = [temp EXCEPT ![s] = TRUE]
          /\ seen' = [t \in Senders |-> seen[t] /\ t = s]
          /\ pc' = [pc EXCEPT ![s] = "push"]
      BY <1>6, <2>3 DEF SendPop, Goto
    <3>2. seen' \in [Senders -> BOOLEAN] BY <3>1 DEF TypeInv
    <3>3. TypeInv' BY <2>1, <2>3, <3>1, <3>2 DEF TypeInv
    <3>4. HandsAtPush' BY <2>1, <3>1 DEF HandsAtPush, TypeInv
    <3>5. Joined' BY <2>1, <3>1 DEF Joined, Quiet
    <3>6. SeenElement' BY <2>1, <3>1 DEF SeenElement
    <3> QED BY <3>3, <3>4, <3>5, <3>6
  <2> QED BY <2>2, <2>3 DEF TypeInv
<1>7. CASE SendPush(s)
  <2>1. /\ pc[s] = "push" /\ pc' = [pc EXCEPT ![s] = "idle"]
        /\ active_write' = Append(active_write, [from |-> s, n |-> accepted[s] + 1])
        /\ accepted' = [accepted EXCEPT ![s] = @ + 1]
        /\ temp' = [temp EXCEPT ![s] = FALSE]
        /\ UNCHANGED <<owner, registered, freed, pool, seen, svc>>
    BY <1>7 DEF SendPush, Goto, ownerVars, svcVars
  <2>2. active_write' \in Seq(Frames)
    <3>1. [from |-> s, n |-> accepted[s] + 1] \in Frames BY DEF TypeInv, Frames
    <3> QED BY <2>1, <3>1 DEF TypeInv
  <2>3. TypeInv' BY <2>1, <2>2 DEF TypeInv
  <2>4. HandsAtPush' BY <2>1 DEF HandsAtPush, TypeInv
  <2>5. Joined' BY <2>1 DEF Joined, Quiet, TypeInv
  <2>6. SeenElement' BY <2>1 DEF SeenElement, TypeInv
  <2> QED BY <2>3, <2>4, <2>5, <2>6
<1> QED BY <1>2, <1>3, <1>4, <1>5, <1>6, <1>7 DEF Sending

LEMMA ServiceThreads ==
  ASSUME ThreadsInv, Service \/ Writing \/ Network
  PROVE  ThreadsInv'
<1> USE DEF ThreadsInv
<1>1. CASE Service
  BY <1>1 DEF Service, ServiceStart, ServiceLoop, Recycle, TypeInv, HandsAtPush, Joined,
              SeenElement, Quiet, ownerVars, queues, senderVars
<1>2. CASE Writing
  <2>1. /\ svc = "service" /\ svc' \in {"service", "recycle"}
        /\ \/ active_write # <<>> /\ active_write' = Tail(active_write)
           \/ active_write' = active_write
        /\ UNCHANGED <<owner, registered, freed, pool, pc, temp, seen, accepted>>
    BY <1>2 DEF Writing, Writeable, ownerVars, senderVars
  <2>2. active_write' \in Seq(Frames)
    <3>1. CASE active_write' = active_write BY <3>1 DEF TypeInv
    <3>2. CASE active_write # <<>> /\ active_write' = Tail(active_write) BY <3>2 DEF TypeInv
    <3> QED BY <2>1, <3>1, <3>2
  <2>3. TypeInv' BY <2>1, <2>2 DEF TypeInv
  <2>4. HandsAtPush' BY <2>1 DEF HandsAtPush
  <2>5. Joined' BY <2>1 DEF Joined, Quiet
  <2>6. SeenElement' BY <2>1 DEF SeenElement
  <2> QED BY <2>3, <2>4, <2>5, <2>6
<1>3. CASE Network
  BY <1>3 DEF Network, Established, Closed, Receive, TypeInv, HandsAtPush, Joined, SeenElement,
              Quiet, ownerVars, queues, senderVars, svcVars
<1> QED BY <1>1, <1>2, <1>3

LEMMA ThreadsKept ==
  ASSUME ThreadsInv, [Next]_vars
  PROVE  ThreadsInv'
<1>1. CASE UNCHANGED vars
  BY <1>1 DEF vars, ownerVars, queues, senderVars, svcVars, ThreadsInv, TypeInv, HandsAtPush,
              Joined, SeenElement, Quiet
<1> QED BY <1>1, OwnerThreads, DeletionThreads, SenderThreads, ServiceThreads DEF Next

-----------------------------------------------------------------------------
(* The elements *)

Hands == {s \in Senders : temp[s]}

LEMMA HandsCounted == IsFiniteSet(Hands) /\ Cardinality(Hands) \in Nat
<1>1. IsFiniteSet(1..Services) BY FS_Interval, WsAssumption
<1>2. IsFiniteSet(Senders) BY <1>1, FS_Subset, WsAssumption
<1> QED BY <1>2, FS_Subset, FS_CardinalityType DEF Hands

LEMMA HandsTake ==
  ASSUME TypeInv, NEW s \in Senders, ~temp[s], temp' = [temp EXCEPT ![s] = TRUE]
  PROVE  Cardinality(Hands)' = Cardinality(Hands) + 1
<1>1. Hands' = Hands \cup {s} /\ s \notin Hands BY DEF Hands, TypeInv
<1> QED BY <1>1, HandsCounted, FS_AddElement

LEMMA HandsGive ==
  ASSUME TypeInv, NEW s \in Senders, temp[s], temp' = [temp EXCEPT ![s] = FALSE]
  PROVE  Cardinality(Hands)' = Cardinality(Hands) - 1
<1>1. Hands' = Hands \ {s} /\ s \in Hands BY DEF Hands, TypeInv
<1> QED BY <1>1, HandsCounted, FS_RemoveElement

\* The three places an element can be in use, as numbers.
Recycling == IF svc = "recycle" THEN 1 ELSE 0

LEMMA InUseParts ==
  /\ InUse = Len(active_write) + Cardinality(Hands) + Recycling
  /\ InUse' = Len(active_write') + Cardinality(Hands)' + Recycling'
BY DEF InUse, Hands, Recycling

LEMMA InUseCounted ==
  ASSUME TypeInv
  PROVE  /\ Len(active_write) \in Nat /\ Cardinality(Hands) \in Nat /\ Recycling \in Nat
         /\ InUse \in Nat
<1>1. Len(active_write) \in Nat BY DEF TypeInv
<1>2. Recycling \in Nat BY DEF Recycling
<1> QED BY <1>1, <1>2, HandsCounted, InUseParts

PoolStep == [Pool!Take \/ Pool!Give \/ Pool!Remove \/ Pool!Turn]_<<pool, InUse, freed, Phase>>

\* A step that neither moves an element nor opens or closes the transport.
Idle ==
  /\ UNCHANGED <<pool, active_write, temp, freed>>
  /\ Recycling' = Recycling
  /\ Phase' = Phase

LEMMA IdleStutters == Idle => PoolStep
BY DEF Idle, PoolStep, InUse, Recycling

LEMMA InitPool == Init => Pool!Fill
<1> SUFFICES ASSUME Init PROVE Pool!Fill OBVIOUS
<1>1. Hands = {} BY DEF Init, Hands
<1>2. InUse = 0 BY <1>1, InUseParts, FS_EmptySet DEF Init, Recycling
<1> QED BY <1>2 DEF Init, Pool!Fill, Phase

LEMMA OwnerPool ==
  ASSUME Owner \/ StopSenders
  PROVE  PoolStep
<1>1. Idle
  BY DEF Owner, WaitRound, WaitOver, RegisterSlot, RegisterFill, RegisterRefused, StopSenders,
         queues, senderVars, svcVars, Idle, Recycling, Phase
<1> QED BY <1>1, IdleStutters

LEMMA DeletionPool ==
  ASSUME IInv, Deletion
  PROVE  PoolStep
<1> USE DEF IInv, ThreadsInv
<1>1. CASE Delete
  BY <1>1, IdleStutters DEF Delete, queues, senderVars, svcVars, Idle, Recycling, Phase
<1>2. CASE JoinService
  <2>1. InUse' = InUse BY <1>2 DEF JoinService, queues, senderVars, InUse
  <2> QED BY <1>2, <2>1 DEF JoinService, queues, Phase, PoolStep, Pool!Turn
<1>3. CASE DrainActive
  <2>1. Len(active_write') = Len(active_write) - 1 /\ Len(active_write) > 0
    BY <1>3 DEF DrainActive, TypeInv
  <2>2. Hands' = Hands /\ Recycling' = Recycling
    BY <1>3 DEF DrainActive, Hands, Recycling, senderVars, svcVars
  <2>3. InUse' = InUse - 1 /\ InUse > 0
    BY <2>1, <2>2, InUseParts, InUseCounted
  <2> QED BY <1>3, <2>3 DEF DrainActive, Phase, PoolStep, Pool!Remove
<1>4. CASE DrainPool
  <2>1. InUse' = InUse BY <1>4 DEF DrainPool, senderVars, svcVars, InUse
  <2> QED BY <1>4, <2>1 DEF DrainPool, Phase, PoolStep, Pool!Remove
<1>5. CASE DeleteQueues
  <2>1. InUse' = InUse BY <1>5 DEF DeleteQueues, queues, senderVars, svcVars, InUse
  <2>2. Hands = {} BY <1>5 DEF DeleteQueues, Hands, HandsAtPush, Joined, Quiet
  <2>3. InUse = 0
    BY <1>5, <2>2, InUseParts, FS_EmptySet DEF DeleteQueues, Joined, Recycling
  <2>4. freed = WEB_SOCKET_POOL_SIZE
    BY <1>5, <2>3 DEF DeleteQueues, Conserved, TypeInv
  <2> QED BY <1>5, <2>1, <2>4 DEF DeleteQueues, queues, Phase, PoolStep, Pool!Turn
<1> QED BY <1>1, <1>2, <1>3, <1>4, <1>5 DEF Deletion

LEMMA SenderPool ==
  ASSUME ThreadsInv, NEW s \in Senders, Send(s) \/ Sending(s)
  PROVE  PoolStep
<1> USE DEF ThreadsInv
<1>1. CASE Send(s) \/ SendWait(s) \/ SendLeaveLoop(s) \/ SendTest(s)
  BY <1>1, IdleStutters
     DEF Send, SendWait, SendLeaveLoop, SendTest, ownerVars, queues, svcVars, Idle, Recycling, Phase
<1>2. CASE SendPop(s)
  <2>1. CASE pool = 0
    BY <1>2, <2>1, IdleStutters DEF SendPop, ownerVars, svcVars, Idle, Recycling, Phase
  <2>2. CASE pool > 0
    <3>1. /\ pool' = pool - 1 /\ temp' = [temp EXCEPT ![s] = TRUE] /\ ~temp[s]
          /\ UNCHANGED <<active_write, svc, owner, freed>>
      BY <1>2, <2>2 DEF SendPop, HandsAtPush, ownerVars, svcVars
    <3>2. Cardinality(Hands)' = Cardinality(Hands) + 1 BY <3>1, HandsTake
    <3>3. InUse' = InUse + 1
      BY <3>1, <3>2, InUseParts, InUseCounted DEF Recycling
    <3> QED BY <2>2, <3>1, <3>3 DEF Phase, PoolStep, Pool!Take
  <2> QED BY <2>1, <2>2 DEF TypeInv
<1>3. CASE SendPush(s)
  <2>1. /\ temp' = [temp EXCEPT ![s] = FALSE] /\ temp[s]
        /\ active_write' = Append(active_write, [from |-> s, n |-> accepted[s] + 1])
        /\ UNCHANGED <<pool, svc, owner, freed>>
    BY <1>3 DEF SendPush, HandsAtPush, ownerVars, svcVars
  <2>2. Cardinality(Hands)' = Cardinality(Hands) - 1 BY <2>1, HandsGive
  <2>3. Len(active_write') = Len(active_write) + 1 BY <2>1 DEF TypeInv
  <2>4. InUse' = InUse
    BY <2>1, <2>2, <2>3, InUseParts, InUseCounted DEF Recycling
  <2> QED BY <2>1, <2>4 DEF Phase, PoolStep
<1> QED BY <1>1, <1>2, <1>3 DEF Sending

LEMMA ServicePool ==
  ASSUME ThreadsInv, Service \/ Writing \/ Network
  PROVE  PoolStep
<1> USE DEF ThreadsInv
<1>1. CASE ServiceStart \/ ServiceLoop
  BY <1>1, IdleStutters DEF ServiceStart, ServiceLoop, ownerVars, queues, senderVars, Idle, Recycling, Phase
<1>2. CASE Recycle
  <2>1. Recycling' = Recycling - 1 BY <1>2 DEF Recycle, Recycling
  <2>2. Hands' = Hands BY <1>2 DEF Recycle, Hands, senderVars
  <2>3. InUse' = InUse - 1 /\ InUse > 0
    BY <1>2, <2>1, <2>2, InUseParts, InUseCounted DEF Recycle, Recycling
  <2> QED BY <1>2, <2>3 DEF Recycle, ownerVars, Phase, PoolStep, Pool!Give
<1>3. CASE Writing
  <2>1. /\ svc = "service" /\ UNCHANGED <<owner, freed, pool, temp>>
        /\ \/ active_write # <<>> /\ active_write' = Tail(active_write) /\ svc' = "recycle"
           \/ UNCHANGED <<active_write, svc>>
    BY <1>3 DEF Writing, Writeable, ownerVars, senderVars
  <2>2. CASE UNCHANGED <<active_write, svc>>
    BY <2>1, <2>2, IdleStutters DEF Idle, Recycling, Phase
  <2>3. CASE active_write # <<>> /\ active_write' = Tail(active_write) /\ svc' = "recycle"
    <3>1. Len(active_write') = Len(active_write) - 1 BY <2>3 DEF TypeInv
    <3>2. Recycling' = Recycling + 1 BY <2>1, <2>3 DEF Recycling
    <3>3. Hands' = Hands BY <2>1 DEF Hands
    <3>4. InUse' = InUse BY <3>1, <3>2, <3>3, InUseParts, InUseCounted
    <3> QED BY <2>1, <3>4 DEF Phase, PoolStep
  <2> QED BY <2>1, <2>2, <2>3
<1>4. CASE Network
  BY <1>4, IdleStutters DEF Network, Established, Closed, Receive, ownerVars, queues, senderVars,
                            svcVars, Idle, Recycling, Phase
<1> QED BY <1>1, <1>2, <1>3, <1>4 DEF Service

LEMMA StepPool ==
  ASSUME IInv, [Next]_vars
  PROVE  PoolStep
<1>1. CASE UNCHANGED vars
  BY <1>1, IdleStutters DEF vars, ownerVars, queues, senderVars, svcVars, Idle, Recycling, Phase
<1> QED BY <1>1, OwnerPool, DeletionPool, SenderPool, ServicePool DEF Next, IInv

\* What every step of the pool keeps.
LEMMA PoolConserves ==
  ASSUME IInv, PoolStep
  PROVE  Conserved'
<1>1. InUse \in Nat BY InUseCounted DEF IInv, ThreadsInv
<1> QED BY <1>1 DEF PoolStep, Pool!Take, Pool!Give, Pool!Remove, Pool!Turn, Conserved, IInv,
                    ThreadsInv, TypeInv

LEMMA InitIInv == Init => IInv
BY InitThreads, InitPool DEF IInv, Pool!Fill, Conserved, Init, ThreadsInv, TypeInv

LEMMA StepIInv == IInv /\ [Next]_vars => IInv'
BY ThreadsKept, StepPool, PoolConserves DEF IInv, ThreadsInv

\* Send_WS_SERVER_MASTER, with any number of senders: an element seen by size
\* is still in the pool at the pop, unless another sender took it in between.
THEOREM ElementStays == Spec => []SeenElementStays
<1>1. IInv => SeenElementStays BY DEF IInv, ThreadsInv, SeenElement, SeenElementStays
<1> QED BY InitIInv, StepIInv, <1>1, PTL DEF Spec

\* WS_SERVER_MASTER, with any number of everything: its stock of elements is an
\* ElementPool, from Initialize to the end of Delete.
THEOREM PoolRefinement == Spec => ImplementsPool
<1>1. Init => Pool!Fill BY InitPool
<1>2. IInv /\ [Next]_vars => [Pool!Take \/ Pool!Give \/ Pool!Remove \/ Pool!Turn]_(Pool!poolVars)
  BY StepPool DEF PoolStep, Pool!poolVars
<1> QED BY InitIInv, StepIInv, <1>1, <1>2, PTL DEF Spec, ImplementsPool, Pool!PoolSpec, Pool!Step

-----------------------------------------------------------------------------
(* The order of the frames *)

\* The three parts of the property, as facts about a queue q, the written
\* frames w and the accepted ones a.
InWindow(q, w, a) == \A i \in 1..Len(q) : q[i].n \in w[q[i].from] + 1 .. a[q[i].from]
Complete(q, w, a) == \A s \in Senders : \A k \in w[s] + 1 .. a[s] :
                       \E i \in 1..Len(q) : q[i].from = s /\ q[i].n = k
Increasing(q) == \A i, j \in 1..Len(q) : i < j /\ q[i].from = q[j].from => q[i].n < q[j].n

Ordered(q, w, a) == InWindow(q, w, a) /\ Complete(q, w, a) /\ Increasing(q)

\* No frame is written before it was accepted: what makes the window of a
\* sender with nothing queued an empty one.
OrderInv ==
  /\ written \in [Senders -> Nat]
  /\ owner \notin {"drain", "deleted"} =>
       /\ \A s \in Senders : written[s] <= accepted[s]
       /\ Ordered(active_write, written, accepted)

LEMMA OrderParts == OrderInv => AcceptedAreQueuedInOrder
BY DEF OrderInv, Ordered, InWindow, Complete, Increasing, AcceptedAreQueuedInOrder

LEMMA InitOrder == Init => OrderInv
BY DEF Init, OrderInv, Ordered, InWindow, Complete, Increasing

\* Nothing but Send, the writeable callback and Delete touches the frames.
LEMMA OrderUntouched ==
  ASSUME OrderInv, UNCHANGED <<active_write, written, accepted>>,
         owner' \notin {"drain", "deleted"} => owner \notin {"drain", "deleted"}
  PROVE  OrderInv'
BY DEF OrderInv, Ordered, InWindow, Complete, Increasing

\* The frame pushed is the next one of its sender, behind all the others.
LEMMA PushOrder ==
  ASSUME TypeInv, OrderInv, NEW s \in Senders, SendPush(s)
  PROVE  OrderInv'
<1> DEFINE frame == [from |-> s, n |-> accepted[s] + 1]
           end == Len(active_write) + 1
<1>1. /\ accepted' = [accepted EXCEPT ![s] = @ + 1]
      /\ active_write' = Append(active_write, frame)
      /\ UNCHANGED <<owner, written>>
  BY DEF SendPush, ownerVars, svcVars
<1>2. /\ Len(active_write) \in Nat /\ Len(active_write') = end
      /\ \A i \in 1..Len(active_write) : /\ active_write'[i] = active_write[i]
                                         /\ active_write[i] \in Frames
      /\ active_write'[end].from = s /\ active_write'[end].n = accepted[s] + 1
      /\ \A i \in 1..end : i \in 1..Len(active_write) \/ i = end
  BY <1>1 DEF TypeInv
<1>3. /\ accepted'[s] = accepted[s] + 1
      /\ \A t \in Senders : t # s => accepted'[t] = accepted[t]
      /\ \A t \in Senders : accepted[t] \in Nat /\ written[t] \in Nat
  BY <1>1 DEF TypeInv, OrderInv
<1>4. SUFFICES ASSUME owner \notin {"drain", "deleted"}
               PROVE  /\ \A t \in Senders : written[t] <= accepted'[t]
                      /\ Ordered(active_write', written, accepted')
  BY <1>1 DEF OrderInv
<1>5. /\ \A t \in Senders : written[t] <= accepted[t]
      /\ Ordered(active_write, written, accepted)
  BY <1>4 DEF OrderInv
<1> HIDE DEF frame
<1>6. InWindow(active_write', written, accepted')
  <2> SUFFICES ASSUME NEW i \in 1..end
               PROVE  active_write'[i].n \in written[active_write'[i].from] + 1
                                             .. accepted'[active_write'[i].from]
    BY <1>2 DEF InWindow
  <2>1. CASE i \in 1..Len(active_write)
    BY <2>1, <1>2, <1>3, <1>5 DEF Ordered, InWindow, Frames
  <2>2. CASE i = end BY <2>2, <1>2, <1>3, <1>5
  <2> QED BY <2>1, <2>2, <1>2
<1>7. Complete(active_write', written, accepted')
  <2> SUFFICES ASSUME NEW t \in Senders, NEW k \in written[t] + 1 .. accepted'[t]
               PROVE  \E i \in 1..end : active_write'[i].from = t /\ active_write'[i].n = k
    BY <1>2 DEF Complete
  <2>1. CASE k \in written[t] + 1 .. accepted[t]
    BY <2>1, <1>2, <1>5 DEF Ordered, Complete
  <2>2. CASE t = s /\ k = accepted[s] + 1
    BY <2>2, <1>2
  <2> QED BY <2>1, <2>2, <1>3
<1>8. Increasing(active_write')
  <2> SUFFICES ASSUME NEW i \in 1..end, NEW j \in 1..end, i < j,
                      active_write'[i].from = active_write'[j].from
               PROVE  active_write'[i].n < active_write'[j].n
    BY <1>2 DEF Increasing
  <2>1. i \in 1..Len(active_write) BY <1>2
  <2>2. CASE j = end BY <2>1, <2>2, <1>2, <1>3, <1>5 DEF Ordered, InWindow, Frames
  <2>3. CASE j \in 1..Len(active_write) BY <2>1, <2>3, <1>2, <1>5 DEF Ordered, Increasing
  <2> QED BY <2>2, <2>3, <1>2
<1> QED BY <1>3, <1>5, <1>6, <1>7, <1>8 DEF Ordered

\* The frame written is the next one of its sender: the window of the others
\* does not move, and his loses its first frame.
LEMMA WriteableOrder ==
  ASSUME TypeInv, OrderInv, NEW c \in Clients, Writeable(c), active_write # <<>>,
         owner \notin {"drain", "deleted"}
  PROVE  OrderInv'
<1> DEFINE s == active_write[1].from
           m == active_write[1].n
           q == active_write
           r == Tail(active_write)
<1>1. /\ active_write' = r /\ written' = [written EXCEPT ![s] = m]
      /\ UNCHANGED <<owner, accepted>>
  BY DEF Writeable, ownerVars, senderVars, TypeInv
<1>2. /\ Len(q) \in Nat /\ Len(q) >= 1 /\ Len(r) = Len(q) - 1
      /\ \A i \in 1..Len(q) : q[i] \in Frames
      /\ \A i \in 1..Len(r) : r[i] = q[i + 1] /\ i + 1 \in 1..Len(q)
  BY DEF TypeInv
<1>3. s \in Senders /\ m \in Nat BY <1>2 DEF Frames
<1>4. \A t \in Senders : accepted[t] \in Nat /\ written[t] \in Nat
  BY DEF TypeInv, OrderInv
<1>5. Ordered(q, written, accepted) /\ \A t \in Senders : written[t] <= accepted[t]
  BY DEF OrderInv
<1> HIDE DEF s, m, q, r
<1>6. m = written[s] + 1
  <2>1. m \in written[s] + 1 .. accepted[s]
    BY <1>2, <1>5 DEF Ordered, InWindow, s, m, q
  <2>2. PICK i \in 1..Len(q) : q[i].from = s /\ q[i].n = written[s] + 1
    BY <2>1, <1>3, <1>4, <1>5, SMTT(30) DEF Ordered, Complete
  <2>3. CASE i = 1 BY <2>2, <2>3 DEF s, m, q
  <2>4. CASE i > 1
    <3>1. m < q[i].n BY <2>2, <2>4, <1>2, <1>5 DEF Ordered, Increasing, s, m, q
    <3> QED BY <2>1, <2>2, <3>1, <1>3, <1>4
  <2> QED BY <2>3, <2>4
<1>7. /\ written'[s] = written[s] + 1
      /\ \A t \in Senders : t # s => written'[t] = written[t]
      /\ written' \in [Senders -> Nat]
  BY <1>1, <1>3, <1>6 DEF OrderInv
<1>8. \A t \in Senders : written'[t] <= accepted[t]
  BY <1>2, <1>3, <1>4, <1>5, <1>6, <1>7, SMTT(30) DEF Ordered, InWindow, s, m, q
<1>9. InWindow(r, written', accepted)
  <2> SUFFICES ASSUME NEW i \in 1..Len(r)
               PROVE  r[i].n \in written'[r[i].from] + 1 .. accepted[r[i].from]
    BY DEF InWindow
  <2>1. r[i] = q[i + 1] /\ i + 1 \in 1..Len(q) /\ r[i].from \in Senders /\ r[i].n \in Nat
    BY <1>2 DEF Frames
  <2>2. r[i].n \in written[r[i].from] + 1 .. accepted[r[i].from]
    BY <2>1, <1>5 DEF Ordered, InWindow
  <2>3. r[i].from = s => m < r[i].n
    BY <2>1, <1>2, <1>5 DEF Ordered, Increasing, s, m, q
  <2> QED BY <2>1, <2>2, <2>3, <1>3, <1>4, <1>6, <1>7
<1>10. Complete(r, written', accepted)
  <2> SUFFICES ASSUME NEW t \in Senders, NEW k \in written'[t] + 1 .. accepted[t]
               PROVE  \E i \in 1..Len(r) : r[i].from = t /\ r[i].n = k
    BY DEF Complete
  <2>1. k \in written[t] + 1 .. accepted[t] /\ (t = s => k > m)
    BY <1>3, <1>4, <1>6, <1>7
  <2>2. PICK i \in 1..Len(q) : q[i].from = t /\ q[i].n = k
    BY <2>1, <1>5 DEF Ordered, Complete
  <2>3. i # 1 BY <2>1, <2>2, <1>3 DEF s, m, q
  <2>4. i - 1 \in 1..Len(r) /\ r[i - 1] = q[i] BY <2>3, <1>2
  <2> QED BY <2>2, <2>4
<1>11. Increasing(r)
  BY <1>2, <1>5 DEF Ordered, Increasing
<1> QED BY <1>1, <1>7, <1>8, <1>9, <1>10, <1>11 DEF OrderInv, Ordered, r

LEMMA StepOrder ==
  ASSUME ThreadsInv, OrderInv, [Next]_vars
  PROVE  OrderInv'
<1> USE DEF ThreadsInv
<1>1. CASE UNCHANGED vars
  BY <1>1, OrderUntouched DEF vars, ownerVars, queues, senderVars, svcVars
<1>2. CASE Owner \/ StopSenders
  BY <1>2, OrderUntouched DEF Owner, WaitRound, WaitOver, RegisterSlot, RegisterFill,
          RegisterRefused, StopSenders, queues, senderVars, svcVars
<1>3. CASE Delete
  BY <1>3, OrderUntouched DEF Delete, queues, senderVars, svcVars
<1>4. CASE JoinService \/ DrainActive \/ DrainPool \/ DeleteQueues
  <2>1. owner' \in {"drain", "deleted"} /\ written' = written
    BY <1>4 DEF JoinService, DrainActive, DrainPool, DeleteQueues, svcVars
  <2> QED BY <2>1 DEF OrderInv
<1>5. ASSUME NEW s \in Senders, Send(s) \/ Sending(s) PROVE OrderInv'
  <2>1. CASE SendPush(s) BY <2>1, PushOrder
  <2>2. CASE Send(s) \/ SendWait(s) \/ SendLeaveLoop(s) \/ SendTest(s) \/ SendPop(s)
    BY <2>2, OrderUntouched DEF Send, SendWait, SendLeaveLoop, SendTest, SendPop, ownerVars,
            queues, svcVars
  <2> QED BY <1>5, <2>1, <2>2 DEF Sending
<1>6. CASE Service \/ Network
  BY <1>6, OrderUntouched DEF Service, ServiceStart, ServiceLoop, Recycle, Network, Established,
          Closed, Receive, ownerVars, queues, senderVars, svcVars
<1>7. ASSUME NEW c \in Clients, Writeable(c) PROVE OrderInv'
  <2>1. owner \notin {"drain", "deleted"} BY <1>7 DEF Writeable, Joined
  <2>2. CASE active_write # <<>> BY <1>7, <2>1, <2>2, WriteableOrder
  <2>3. CASE active_write = <<>>
    BY <1>7, <2>3, OrderUntouched DEF Writeable, ownerVars, senderVars
  <2> QED BY <2>2, <2>3
<1> QED BY <1>1, <1>2, <1>3, <1>4, <1>5, <1>6, <1>7 DEF Next, Deletion, Writing

\* Send_WS_SERVER_MASTER and the writeable callback, with any number of senders
\* and clients and any pool: no accepted frame is lost, doubled or overtaken.
THEOREM FramesInOrder == Spec => []AcceptedAreQueuedInOrder
<1>1. Init => IInv /\ OrderInv BY InitIInv, InitOrder
<1>2. IInv /\ OrderInv /\ [Next]_vars => (IInv /\ OrderInv)'
  BY StepIInv, StepOrder DEF IInv
<1> QED BY <1>1, <1>2, OrderParts, PTL DEF Spec
=============================================================================
