---------------------------- MODULE WsServerMaster ----------------------------
(***************************************************************************)
(* WS_SERVER_MASTER: the websocket transport every service sends on.       *)
(* A fixed pool of elements circulates: a sender takes one from `pool',    *)
(* fills it and puts it in `active_write'; the service thread writes it to *)
(* a client and puts it back.  The queues lock each operation, but `size'  *)
(* followed by `pop' is two operations.                                    *)
(*   owner   - the session thread: Initialize (waits for a client),        *)
(*             Register_Vhost for each service, Delete;                    *)
(*   svc     - Service_Thread, with the libwebsockets callbacks;           *)
(*   senders - the services' threads in Send_WS_SERVER_MASTER;             *)
(*   clients - browsers connecting and leaving (environment).              *)
(* Elements are interchangeable, so the pool is a count; a frame in        *)
(* active_write is [from, n]: the n-th frame accepted from a service.      *)
(***************************************************************************)
EXTENDS Naturals, Sequences, FiniteSets

CONSTANTS
  Services,             \* how many services register, in order 1..Services
  Senders,              \* those that send
  Clients,
  WEB_SOCKET_POOL_SIZE, WEB_SOCKET_TIME_OUT, WS_CONNECT_TIMEOUT, MAX_HOSTS,
  MaxFrames             \* bound on the frames accepted from each sender

ASSUME WsAssumption ==
  /\ Services \in Nat /\ Senders \subseteq 1..Services
  /\ WEB_SOCKET_POOL_SIZE \in Nat /\ WEB_SOCKET_TIME_OUT \in Nat \ {0}
  /\ WS_CONNECT_TIMEOUT \in Nat /\ MAX_HOSTS \in Nat /\ MaxFrames \in Nat

VARIABLES
  owner, counter,        \* the session thread; the countdown of Initialize
  registered,            \* how many services have asked for a host
  host_count, consumers, \* hosts given out; each slot is "NULL", "raw" or "set"
  running, accept,       \* flags shared by all threads
  pool, active_write,    \* free elements (their number), frames to write
  pc, tries, temp,       \* each sender: position, time_out, holds an element
  seen,                  \* history: it saw a free element, and no other popped since
  accepted,              \* history: how many frames of it Send has taken
  svc, writable,         \* the service thread; the clients it may write to
  written,               \* history: how many frames of each sender were written
  client,                \* the connected clients
  freed,                 \* how many elements Delete has deleted
  crashed                \* a NULL element or an unset callback was used

ownerVars  == <<owner, counter, registered, freed>>
hostVars   == <<host_count, consumers>>
queues     == <<pool, active_write>>
senderVars == <<pc, tries, temp, seen, accepted>>
svcVars    == <<svc, writable, written>>
vars == <<ownerVars, hostVars, running, accept, queues, senderVars, svcVars, client, crashed>>

Hosts == 0..MAX_HOSTS - 1

Init ==
  /\ owner = "wait" /\ counter = WS_CONNECT_TIMEOUT /\ registered = 0 /\ freed = 0
  /\ host_count = 0 /\ consumers = [h \in Hosts |-> "NULL"]
  /\ running = TRUE /\ accept = FALSE
  /\ pool = WEB_SOCKET_POOL_SIZE /\ active_write = <<>>
  /\ pc = [s \in Senders |-> "unborn"]
  /\ tries = [s \in Senders |-> 0]
  /\ temp = [s \in Senders |-> FALSE]
  /\ seen = [s \in Senders |-> FALSE]
  /\ accepted = [s \in Senders |-> 0]
  /\ svc = "start" /\ writable = {}
  /\ written = [s \in Senders |-> 0]
  /\ client = {}
  /\ crashed = FALSE

-----------------------------------------------------------------------------
(* The owner *)

\* Initialize has started the service thread and counts down a millisecond at
\* a time until somebody connects.
WaitRound ==
  /\ owner = "wait"
  /\ ~accept /\ counter > 0
  /\ counter' = counter - 1
  /\ UNCHANGED <<owner, registered, freed, hostVars, running, accept, queues, senderVars,
                 svcVars, client, crashed>>

\* It returns counter > 0; if that is false everything is deleted again.
WaitOver ==
  /\ owner = "wait"
  /\ accept \/ counter = 0
  /\ owner' = IF counter > 0 THEN "register" ELSE "stopping"
  /\ UNCHANGED <<counter, registered, freed, hostVars, running, accept, queues, senderVars,
                 svcVars, client, crashed>>

\* Register_Vhost for the next service, which then starts its thread; the
\* slot is published before the callback is in it.
Born(s) == IF s \in Senders THEN [pc EXCEPT ![s] = "idle"] ELSE pc

RegisterSlot ==
  /\ owner = "register" /\ registered < Services
  /\ host_count < MAX_HOSTS
  /\ consumers' = [consumers EXCEPT ![host_count] = "raw"]
  /\ owner' = "fill"
  /\ UNCHANGED <<counter, registered, freed, host_count, running, accept, queues, senderVars,
                 svcVars, client, crashed>>

RegisterFill ==
  /\ owner = "fill"
  /\ consumers' = [consumers EXCEPT ![host_count] = "set"]
  /\ host_count' = host_count + 1
  /\ registered' = registered + 1
  /\ pc' = Born(registered + 1)
  /\ owner' = "register"
  /\ UNCHANGED <<counter, freed, running, accept, queues, tries, temp, seen, accepted,
                 svcVars, client, crashed>>

\* Too many hosts: the service gets id -1 and starts all the same.
RegisterRefused ==
  /\ owner = "register" /\ registered < Services
  /\ host_count >= MAX_HOSTS
  /\ registered' = registered + 1
  /\ pc' = Born(registered + 1)
  /\ UNCHANGED <<owner, counter, freed, hostVars, running, accept, queues, tries, temp, seen,
                 accepted, svcVars, client, crashed>>

\* The session ends, or a service failed: the registry first stops the
\* services, so that no Send begins any more, and joins their threads.
StopSenders ==
  /\ owner = "register"
  /\ owner' = "stopping"
  /\ UNCHANGED <<counter, registered, freed, hostVars, running, accept, queues, senderVars,
                 svcVars, client, crashed>>

Quiet == \A s \in Senders : pc[s] \in {"unborn", "idle"}

\* Mutant: the transport is deleted before the services were stopped.
Delete_BeforeServices ==
  /\ owner = "stopping"
  /\ accept' = FALSE
  /\ running' = FALSE
  /\ owner' = "join"
  /\ UNCHANGED <<counter, registered, freed, hostVars, queues, senderVars, svcVars, client, crashed>>

\* Delete_WS_SERVER_MASTER.
Delete ==
  /\ owner = "stopping"
  /\ Quiet
  /\ accept' = FALSE
  /\ running' = FALSE
  /\ owner' = "join"
  /\ UNCHANGED <<counter, registered, freed, hostVars, queues, senderVars, svcVars, client, crashed>>

\* Mutant: the service thread is not waited for.
JoinService_NoJoin ==
  /\ owner = "join"
  /\ accept' = (accept /\ client = {})
  /\ client' = {}
  /\ writable' = {}
  /\ owner' = "drain"
  /\ UNCHANGED <<counter, registered, freed, hostVars, running, queues, senderVars,
                 svc, written, crashed>>

\* The thread is joined and the context destroyed: every client still there is
\* closed, with its callback.
JoinService ==
  /\ owner = "join"
  /\ svc = "ended"
  /\ accept' = (accept /\ client = {})
  /\ client' = {}
  /\ writable' = {}
  /\ owner' = "drain"
  /\ UNCHANGED <<counter, registered, freed, hostVars, running, queues, senderVars,
                 svc, written, crashed>>

DrainActive ==
  /\ owner = "drain"
  /\ active_write # <<>>
  /\ active_write' = Tail(active_write)
  /\ freed' = freed + 1
  /\ UNCHANGED <<owner, counter, registered, hostVars, running, accept, pool, senderVars,
                 svcVars, client, crashed>>

DrainPool ==
  /\ owner = "drain"
  /\ active_write = <<>>
  /\ pool > 0
  /\ pool' = pool - 1
  /\ freed' = freed + 1
  /\ UNCHANGED <<owner, counter, registered, hostVars, running, accept, active_write,
                 senderVars, svcVars, client, crashed>>

DeleteQueues ==
  /\ owner = "drain"
  /\ active_write = <<>> /\ pool = 0
  /\ consumers' = [h \in Hosts |-> "NULL"]
  /\ owner' = "deleted"
  /\ UNCHANGED <<counter, registered, freed, host_count, running, accept, queues, senderVars,
                 svcVars, client, crashed>>

Owner == WaitRound \/ WaitOver \/ RegisterSlot \/ RegisterFill \/ RegisterRefused
Deletion == Delete \/ JoinService \/ DrainActive \/ DrainPool \/ DeleteQueues

-----------------------------------------------------------------------------
(* A sender: Send_WS_SERVER_MASTER *)

Goto(s, l) == pc' = [pc EXCEPT ![s] = l]

Send(s) ==
  /\ pc[s] = "idle"
  /\ owner \in {"register", "fill"}
  /\ accepted[s] < MaxFrames
  /\ Goto(s, "loop")
  /\ tries' = [tries EXCEPT ![s] = 0]
  /\ UNCHANGED <<ownerVars, hostVars, running, accept, queues, temp, seen, accepted,
                 svcVars, client, crashed>>

MustWait(s) == pool = 0 /\ tries[s] < WEB_SOCKET_TIME_OUT /\ accept

SendWait(s) ==
  /\ pc[s] = "loop"
  /\ MustWait(s)
  /\ tries' = [tries EXCEPT ![s] = @ + 1]
  /\ UNCHANGED <<ownerVars, hostVars, running, accept, queues, pc, temp, seen, accepted,
                 svcVars, client, crashed>>

SendLeaveLoop(s) ==
  /\ pc[s] = "loop"
  /\ ~MustWait(s)
  /\ seen' = [seen EXCEPT ![s] = pool > 0]
  /\ Goto(s, "test")
  /\ UNCHANGED <<ownerVars, hostVars, running, accept, queues, tries, temp, accepted,
                 svcVars, client, crashed>>

SendTest(s) ==
  /\ pc[s] = "test"
  /\ Goto(s, IF tries[s] >= WEB_SOCKET_TIME_OUT \/ ~accept THEN "idle" ELSE "pop")
  /\ UNCHANGED <<ownerVars, hostVars, running, accept, queues, tries, temp, seen, accepted,
                 svcVars, client, crashed>>

\* pop leaves temp NULL when the pool is empty, and temp->bytes is set next.
SendPop(s) ==
  /\ pc[s] = "pop"
  /\ \/ /\ pool > 0
        /\ pool' = pool - 1
        /\ temp' = [temp EXCEPT ![s] = TRUE]
        /\ seen' = [t \in Senders |-> seen[t] /\ t = s]
        /\ Goto(s, "push")
        /\ UNCHANGED crashed
     \/ /\ pool = 0
        /\ crashed' = TRUE
        /\ UNCHANGED <<pool, temp, seen, pc>>
  /\ UNCHANGED <<ownerVars, hostVars, running, accept, active_write, tries, accepted,
                 svcVars, client>>

\* Mutant: the frame goes to the front of the queue.
SendPush_Front(s) ==
  /\ pc[s] = "push"
  /\ active_write' = <<[from |-> s, n |-> accepted[s] + 1]>> \o active_write
  /\ accepted' = [accepted EXCEPT ![s] = @ + 1]
  /\ temp' = [temp EXCEPT ![s] = FALSE]
  /\ Goto(s, "idle")
  /\ UNCHANGED <<ownerVars, hostVars, running, accept, pool, tries, seen,
                 svcVars, client, crashed>>

SendPush(s) ==
  /\ pc[s] = "push"
  /\ active_write' = Append(active_write, [from |-> s, n |-> accepted[s] + 1])
  /\ accepted' = [accepted EXCEPT ![s] = @ + 1]
  /\ temp' = [temp EXCEPT ![s] = FALSE]
  /\ Goto(s, "idle")
  /\ UNCHANGED <<ownerVars, hostVars, running, accept, pool, tries, seen,
                 svcVars, client, crashed>>

Sending(s) == SendWait(s) \/ SendLeaveLoop(s) \/ SendTest(s) \/ SendPop(s) \/ SendPush(s)

-----------------------------------------------------------------------------
(* The service thread and the callbacks it runs *)

\* The context or the vhost may not come up: the thread ends at once.
ServiceStart ==
  /\ svc = "start"
  /\ svc' \in {"service", "ended"}
  /\ UNCHANGED <<ownerVars, hostVars, running, accept, queues, senderVars, writable, written,
                 client, crashed>>

\* Mutant: nobody asks for writeable callbacks.
ServiceLoop_NeverAsks ==
  /\ svc = "service"
  /\ svc' = IF running THEN "service" ELSE "ended"
  /\ UNCHANGED <<ownerVars, hostVars, running, accept, queues, senderVars, writable, written,
                 client, crashed>>

\* Between two calls of lws_service: ask for writeable callbacks, test running.
ServiceLoop ==
  /\ svc = "service"
  /\ writable' = IF active_write # <<>> THEN client ELSE writable
  /\ svc' = IF running THEN "service" ELSE "ended"
  /\ UNCHANGED <<ownerVars, hostVars, running, accept, queues, senderVars, written, client, crashed>>

Established(c) ==
  /\ svc = "service"
  /\ c \notin client
  /\ client' = client \cup {c}
  /\ accept' = TRUE
  /\ UNCHANGED <<ownerVars, hostVars, running, queues, senderVars, svcVars, crashed>>

Closed(c) ==
  /\ svc = "service"
  /\ c \in client
  /\ client' = client \ {c}
  /\ writable' = writable \ {c}
  /\ accept' = FALSE
  /\ UNCHANGED <<ownerVars, hostVars, running, queues, senderVars, svc, written, crashed>>

\* SERVER_WRITEABLE: write the oldest frame to this client...
Writeable(c) ==
  /\ svc = "service"
  /\ c \in writable
  /\ writable' = writable \ {c}
  /\ \/ /\ active_write # <<>>
        /\ active_write' = Tail(active_write)
        /\ written' = [written EXCEPT ![Head(active_write).from] = Head(active_write).n]
        /\ svc' = "recycle"
     \/ /\ active_write = <<>>
        /\ UNCHANGED <<active_write, written, svc>>
  /\ UNCHANGED <<ownerVars, hostVars, running, accept, pool, senderVars, client, crashed>>

\* ... and give its element back to the pool.
Recycle ==
  /\ svc = "recycle"
  /\ pool' = pool + 1
  /\ svc' = "service"
  /\ UNCHANGED <<ownerVars, hostVars, running, accept, active_write, senderVars, writable,
                 written, client, crashed>>

\* RECEIVE for a host whose slot is published but not yet filled calls through
\* an unset pointer.  (For a set slot it runs the service's callback, which
\* touches nothing here; other hosts are ignored.)
Receive(c, h) ==
  /\ svc = "service"
  /\ c \in client
  /\ consumers[h] = "raw"
  /\ crashed' = TRUE
  /\ UNCHANGED <<ownerVars, hostVars, running, accept, queues, senderVars, svcVars, client>>

Service == ServiceStart \/ ServiceLoop \/ Recycle
Writing == \E c \in Clients : Writeable(c)
Network == \E c \in Clients : Established(c) \/ Closed(c) \/ \E h \in Hosts : Receive(c, h)

Next ==
  /\ ~crashed
  /\ \/ Owner \/ StopSenders \/ Deletion
     \/ \E s \in Senders : Send(s) \/ Sending(s)
     \/ Service \/ Writing \/ Network

\* All threads are scheduled and a socket that can take data is reported as
\* writeable; clients come and go, and the session ends, as they please.
Fairness ==
  /\ WF_vars(~crashed /\ Owner) /\ WF_vars(~crashed /\ Deletion)
  /\ \A s \in Senders : WF_vars(~crashed /\ Sending(s))
  /\ WF_vars(~crashed /\ Service) /\ WF_vars(~crashed /\ Writing)

Spec == Init /\ [][Next]_vars
FairSpec == Spec /\ Fairness

-----------------------------------------------------------------------------
(* Properties *)

InUse ==
  Len(active_write) + Cardinality({s \in Senders : temp[s]}) + (IF svc = "recycle" THEN 1 ELSE 0)

Phase == CASE owner = "drain" -> "closing" [] owner = "deleted" -> "closed" [] OTHER -> "open"

Pool == INSTANCE ElementPool WITH
          Size <- WEB_SOCKET_POOL_SIZE, free <- pool, busy <- InUse, gone <- freed, phase <- Phase

\* Elements circulate one at a time between the pool, the hands of a sender,
\* the queue and the service thread: none is lost or doubled, none is deleted
\* before the threads are joined, and when Delete is done all have been, also
\* when clients, senders and the service thread were busy until the last.
ImplementsPool == Pool!PoolSpec

\* The element a sender saw when it left its loop is still there when it pops,
\* unless another sender took it.  (That exception is real, and so is another:
\* a sender that left the loop because the client was gone pops from an empty
\* pool when a client is back before its second test of accept.)
SeenElementStays ==
  \A s \in Senders : pc[s] = "pop" /\ seen[s] => pool > 0

\* No accepted frame is lost, duplicated or overtaken while the transport is
\* up: the frames queued for a sender are exactly those accepted and not yet
\* written, each of them once, in the order Send accepted them.
AcceptedAreQueuedInOrder ==
  LET Queued == 1..Len(active_write)
      from(i) == active_write[i].from
      n(i) == active_write[i].n
  IN owner \notin {"drain", "deleted"} =>
       /\ \A i \in Queued : n(i) \in written[from(i)] + 1 .. accepted[from(i)]
       /\ \A s \in Senders : \A k \in written[s] + 1 .. accepted[s] :
            \E i \in Queued : from(i) = s /\ n(i) = k
       /\ \A i, j \in Queued : i < j /\ from(i) = from(j) => n(i) < n(j)

\* If some client stays from some time on, whoever else comes and goes, every
\* frame that Send accepted is written in the end, or the session is over.
AcceptedIsWritten ==
  (\E c \in Clients : <>[](c \in client)) =>
    \A s \in Senders : \A n \in 1..MaxFrames :
      accepted[s] >= n ~> written[s] >= n \/ crashed \/ owner \notin {"register", "fill"}
=============================================================================
