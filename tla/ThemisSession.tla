---------------------------- MODULE ThemisSession ----------------------------
(***************************************************************************)
(* The life of a THEMIS remote-desktop session.                            *)
(*                                                                         *)
(* Two kinds of threads share one THEMIS_EXT and its service registry:     *)
(*   - the HTTP thread, which serves the pb handlers one at a time         *)
(*     (THEMIS_HTTP_SERVER.cpp): Launch, Ping and the three requests that  *)
(*     look the video server up (Dimensions, FPS, Density);                *)
(*   - one thread per accepted Launch, running Launch_Loop: it builds the  *)
(*     registry (the socket registry, then every service in order), polls  *)
(*     the ping timer once a second, and tears everything down.            *)
(* There is no lock: what keeps two sessions apart is the flag `connected' *)
(* and the join of the previous thread in Launch.                          *)
(***************************************************************************)
EXTENDS Naturals, FiniteSets

CONSTANTS
  N,              \* number of services handed to the registry (4 in the code)
  Senders,        \* services that run a thread which sends on the transport
  Video,          \* the index of VIDEO_SERVER among the services
  Failing,        \* services whose Initialize may fail; 0 is the transport
  Undeletable,    \* services whose Delete may not return after a failure:
                  \* VIDEO (the encoder's mutex is left locked, by a failed
                  \* Initialize or rebuild) and AUDIO (an unset main_loop is
                  \* joined, which may abort the process)
  Threshold,      \* THEMIS_TIMEOUT_THRESHOLD, in polling periods
  MaxLaunches     \* bound on the number of session threads

Slots    == 1..N
Sessions == 1..MaxLaunches

ASSUME ConstantsAssumption ==
  /\ N \in Nat
  /\ Senders \subseteq Slots
  /\ Video \in Slots
  /\ Failing \subseteq {0} \cup Slots
  /\ Undeletable \subseteq Slots
  /\ Threshold \in Nat
  /\ MaxLaunches \in Nat

VARIABLES
  connected,      \* themis_ext.connected
  timer,          \* polling periods since themis_ext.timer was started, capped
  launch_thread,  \* http_server->launch_thread: 0 is NULL, s the thread of s
  launches,       \* how many session threads were ever started
  http,           \* where the HTTP thread is
  pc,             \* where each session thread is
  i,              \* the loop index of each session thread
  service,        \* registry.service_server[]
  service_count,  \* registry.service_count
  sender,         \* sender[k]: the main loop thread of service k is running
  transport       \* registry.socket_server_registry and its WS server

registryVars == <<service, service_count, sender, transport>>
sessionVars  == <<pc, i>>
vars == <<connected, timer, launch_thread, launches, http, sessionVars, registryVars>>

(***************************************************************************)
(* A slot of the registry: "garbage" before the first session has cleared  *)
(* it, "placed" while Initialize runs or after it failed, "up" once it     *)
(* succeeded, "broken" when its main loop has then ended by itself,        *)
(* "stopped" after Delete(), "freed" between `delete' and the assignment   *)
(* of NULL.                                                                *)
(***************************************************************************)
SlotStates == {"garbage", "NULL", "placed", "up", "broken", "stopped", "freed"}
Whole      == {"up", "broken"}
Dangling   == {"garbage", "freed"}

HttpStates == {"idle", "join", "configure", "sleep", "context", "resize", "lost"}
Phases == {"unborn", "begin", "clear", "transport", "place", "init", "serving",
           "delete", "free", "null", "disconnect", "done", "stuck"}

Alive(s) == pc[s] \notin {"unborn", "done"}

Init ==
  /\ connected = FALSE
  /\ timer = 0
  /\ launch_thread = 0
  /\ launches = 0
  /\ http = "idle"
  /\ pc = [s \in Sessions |-> "unborn"]
  /\ i = [s \in Sessions |-> 1]
  /\ service = [k \in Slots |-> "garbage"]
  /\ service_count \in {0, N}        \* unset before the first Launch: none or all
  /\ sender = [k \in Slots |-> FALSE]
  /\ transport = "none"

-----------------------------------------------------------------------------
(* The HTTP thread *)

\* Launch, !connected: wait for the previous thread if there is one.
\* (Launch while connected answers false and changes nothing.)
Launch ==
  /\ http = "idle"
  /\ ~connected
  /\ launches < MaxLaunches
  /\ http' = IF launch_thread # 0 THEN "join" ELSE "configure"
  /\ UNCHANGED <<connected, timer, launch_thread, launches, sessionVars, registryVars>>

\* Mutant: the previous thread is forgotten instead of joined.
LaunchJoin_NoWait ==
  /\ http = "join"
  /\ launch_thread' = 0
  /\ http' = "configure"
  /\ UNCHANGED <<connected, timer, launches, sessionVars, registryVars>>

LaunchJoin ==
  /\ http = "join"
  /\ pc[launch_thread] = "done"
  /\ launch_thread' = 0
  /\ http' = "configure"
  /\ UNCHANGED <<connected, timer, launches, sessionVars, registryVars>>

\* The context is written and the thread started; the Sleep_Milli(500)
\* that follows lets everyone else run.
LaunchSpawn ==
  /\ http = "configure"
  /\ launches' = launches + 1
  /\ launch_thread' = launches + 1
  /\ pc' = [pc EXCEPT ![launches + 1] = "begin"]
  /\ http' = "sleep"
  /\ UNCHANGED <<connected, timer, i, registryVars>>

\* A backend other than WS: answer false, with launch_thread left NULL.
LaunchBadBackend ==
  /\ http = "configure"
  /\ http' = "idle"
  /\ UNCHANGED <<connected, timer, launch_thread, launches, sessionVars, registryVars>>

LaunchReturn ==
  /\ http = "sleep"
  /\ http' = "idle"
  /\ UNCHANGED <<connected, timer, launch_thread, launches, sessionVars, registryVars>>

Ping ==
  /\ http = "idle"
  /\ timer' = 0
  /\ UNCHANGED <<connected, launch_thread, launches, http, sessionVars, registryVars>>

\* The slots Get_Instance dereferences: every one below service_count up to
\* the video server's.
Visited == {k \in Slots : k <= service_count /\ k <= Video}

\* Dimensions, FPS and Density: look VIDEO_SERVER up, and resize it if found.
\* (Density also tests connected, but only after the lookup; Dimensions first
\* writes the screen size to the context.)
\* A dynamic_cast of a dangling pointer is undefined: the lookup finds nothing
\* or the thread is lost.
VideoRequest ==
  /\ http = "idle"
  /\ \/ /\ \E k \in Visited : service[k] \in Dangling
        /\ http' \in {"idle", "lost"}
     \/ /\ \A k \in Visited : service[k] \notin Dangling
        /\ http' \in IF Video \in Visited /\ service[Video] # "NULL"
                       THEN {"context", "resize"} ELSE {"idle"}
  /\ UNCHANGED <<connected, timer, launch_thread, launches, sessionVars, registryVars>>

\* Dimensions: Set_Screen_Dim_KCONTEXT, then the resize.
WriteContext ==
  /\ http = "context"
  /\ http' = "resize"
  /\ UNCHANGED <<connected, timer, launch_thread, launches, sessionVars, registryVars>>

\* Resize_VIDEO_SERVER comes back (VideoServer says when it does).
ResizeReturn ==
  /\ http = "resize"
  /\ http' = "idle"
  /\ UNCHANGED <<connected, timer, launch_thread, launches, sessionVars, registryVars>>

\* The video server rebuilds what it captures with, and that fails: its main
\* loop ends for good, maybe with the encoder's mutex locked.
RebuildFails ==
  /\ Video \in Failing
  /\ service[Video] = "up" /\ sender[Video]
  /\ service' = [service EXCEPT ![Video] = "broken"]
  /\ sender' = [sender EXCEPT ![Video] = FALSE]
  /\ UNCHANGED <<connected, timer, launch_thread, launches, http, sessionVars, service_count, transport>>

Tick ==
  /\ timer <= Threshold
  /\ timer' = timer + 1
  /\ UNCHANGED <<connected, launch_thread, launches, http, sessionVars, registryVars>>

-----------------------------------------------------------------------------
(* A session thread: Launch_Loop *)

Goto(s, phase) == pc' = [pc EXCEPT ![s] = phase]

\* Initialize_THEMIS_EXT raises connected before it builds anything.
Connect(s) ==
  /\ pc[s] = "begin"
  /\ connected' = TRUE
  /\ Goto(s, "clear")
  /\ UNCHANGED <<timer, launch_thread, launches, http, i, registryVars>>

\* Mutant: the count of the previous session is kept.
ClearRegistry_KeepsCount(s) ==
  /\ pc[s] = "clear"
  /\ service' = [k \in Slots |-> "NULL"]
  /\ Goto(s, "transport")
  /\ UNCHANGED <<connected, timer, launch_thread, launches, http, i, service_count, sender, transport>>

ClearRegistry(s) ==
  /\ pc[s] = "clear"
  /\ service_count' = 0
  /\ service' = [k \in Slots |-> "NULL"]
  /\ Goto(s, "transport")
  /\ UNCHANGED <<connected, timer, launch_thread, launches, http, i, sender, transport>>

\* Initialize_SOCKET_SERVER_REGISTRY: the WS server is allocated either way;
\* it fails when no client connects in time.
InitTransport(s) ==
  /\ pc[s] = "transport"
  /\ i' = [i EXCEPT ![s] = 1]
  /\ \/ transport' = "up" /\ Goto(s, "place")
     \/ 0 \in Failing /\ transport' = "failed" /\ Goto(s, "delete")
  /\ UNCHANGED <<connected, timer, launch_thread, launches, http, service, service_count, sender>>

\* Mutant: the loop runs once too often.
PlaceService_OneTooMany(s) ==
  /\ pc[s] = "place"
  /\ i[s] <= N + 1
  /\ service' = [service EXCEPT ![i[s]] = "placed"]
  /\ Goto(s, "init")
  /\ UNCHANGED <<connected, timer, launch_thread, launches, http, i, service_count, sender, transport>>

PlaceService(s) ==
  /\ pc[s] = "place"
  /\ i[s] <= N
  /\ service' = [service EXCEPT ![i[s]] = "placed"]
  /\ Goto(s, "init")
  /\ UNCHANGED <<connected, timer, launch_thread, launches, http, i, service_count, sender, transport>>

InitService(s) ==
  /\ pc[s] = "init"
  /\ service' = [service EXCEPT ![i[s]] = "up"]
  /\ sender' = [sender EXCEPT ![i[s]] = i[s] \in Senders]
  /\ service_count' = service_count + 1
  /\ i' = [i EXCEPT ![s] = @ + 1]
  /\ Goto(s, "place")
  /\ UNCHANGED <<connected, timer, launch_thread, launches, http, transport>>

\* Mutant: a failure goes straight to the transport, past the services.
InitServiceFails_NoCleanup(s) ==
  /\ pc[s] = "init"
  /\ i[s] \in Failing
  /\ i' = [i EXCEPT ![s] = N + 1]
  /\ Goto(s, "delete")
  /\ UNCHANGED <<connected, timer, launch_thread, launches, http, registryVars>>

\* A failed Initialize leaves the slot set, and the services after it unmade.
InitServiceFails(s) ==
  /\ pc[s] = "init"
  /\ i[s] \in Failing
  /\ i' = [i EXCEPT ![s] = 1]
  /\ Goto(s, "delete")
  /\ UNCHANGED <<connected, timer, launch_thread, launches, http, registryVars>>

StartTimer(s) ==
  /\ pc[s] = "place"
  /\ i[s] > N
  /\ timer' = 0
  /\ Goto(s, "serving")
  /\ UNCHANGED <<connected, launch_thread, launches, http, i, registryVars>>

\* Mutant: Running_THEMIS_EXT does not look at the timer.
StopServing_NoTimeout(s) ==
  /\ pc[s] = "serving"
  /\ ~connected
  /\ i' = [i EXCEPT ![s] = 1]
  /\ Goto(s, "delete")
  /\ UNCHANGED <<connected, timer, launch_thread, launches, http, registryVars>>

\* Running_THEMIS_EXT is false.
StopServing(s) ==
  /\ pc[s] = "serving"
  /\ timer > Threshold \/ ~connected
  /\ i' = [i EXCEPT ![s] = 1]
  /\ Goto(s, "delete")
  /\ UNCHANGED <<connected, timer, launch_thread, launches, http, registryVars>>

\* Mutant: deletes the first service_count services instead of the set slots.
SkipSlot_BeyondCount(s) ==
  /\ pc[s] = "delete"
  /\ i[s] <= N
  /\ service[i[s]] = "NULL" \/ i[s] > service_count
  /\ i' = [i EXCEPT ![s] = @ + 1]
  /\ UNCHANGED <<connected, timer, launch_thread, launches, http, pc, registryVars>>

\* Delete_SERVICE_SERVER_REGISTRY, slot by slot: Delete() joins the service's
\* thread, then the object is freed, then the slot is cleared.
SkipSlot(s) ==
  /\ pc[s] = "delete"
  /\ i[s] <= N
  /\ service[i[s]] = "NULL"
  /\ i' = [i EXCEPT ![s] = @ + 1]
  /\ UNCHANGED <<connected, timer, launch_thread, launches, http, pc, registryVars>>

DeleteService(s) ==
  /\ pc[s] = "delete"
  /\ i[s] <= N
  /\ service[i[s]] # "NULL"
  /\ \/ /\ service' = [service EXCEPT ![i[s]] = "stopped"]
        /\ sender' = [sender EXCEPT ![i[s]] = FALSE]
        /\ Goto(s, "free")
     \/ /\ service[i[s]] \in {"placed", "broken"}
        /\ i[s] \in Undeletable
        /\ Goto(s, "stuck")
        /\ UNCHANGED <<service, sender>>
  /\ UNCHANGED <<connected, timer, launch_thread, launches, http, i, service_count, transport>>

FreeService(s) ==
  /\ pc[s] = "free"
  /\ service' = [service EXCEPT ![i[s]] = "freed"]
  /\ Goto(s, "null")
  /\ UNCHANGED <<connected, timer, launch_thread, launches, http, i, service_count, sender, transport>>

ClearSlot(s) ==
  /\ pc[s] = "null"
  /\ service' = [service EXCEPT ![i[s]] = "NULL"]
  /\ i' = [i EXCEPT ![s] = @ + 1]
  /\ Goto(s, "delete")
  /\ UNCHANGED <<connected, timer, launch_thread, launches, http, service_count, sender, transport>>

DeleteTransport(s) ==
  /\ pc[s] = "delete"
  /\ i[s] > N
  /\ transport' = "none"
  /\ Goto(s, "disconnect")
  /\ UNCHANGED <<connected, timer, launch_thread, launches, http, i, service, service_count, sender>>

\* The last statement of Delete_THEMIS_EXT; the thread then ends.
Disconnect(s) ==
  /\ pc[s] = "disconnect"
  /\ connected' = FALSE
  /\ Goto(s, "done")
  /\ UNCHANGED <<timer, launch_thread, launches, http, i, registryVars>>

Build(s)    == Connect(s) \/ ClearRegistry(s) \/ InitTransport(s) \/ PlaceService(s)
                 \/ InitService(s) \/ InitServiceFails(s) \/ StartTimer(s)
Teardown(s) == SkipSlot(s) \/ DeleteService(s) \/ FreeService(s) \/ ClearSlot(s)
                 \/ DeleteTransport(s) \/ Disconnect(s)
Launch_Loop(s) == Build(s) \/ StopServing(s) \/ Teardown(s)

LaunchRest == LaunchJoin \/ LaunchSpawn \/ LaunchBadBackend \/ LaunchReturn
HttpThread == Launch \/ LaunchRest \/ Ping \/ VideoRequest \/ WriteContext \/ ResizeReturn

Next == HttpThread \/ Tick \/ RebuildFails \/ \E s \in Sessions : Launch_Loop(s)

\* The threads are scheduled and time passes; requests come as they please,
\* and nothing is assumed of a resize.
Fairness ==
  /\ WF_vars(Tick)
  /\ WF_vars(LaunchRest)
  /\ \A s \in Sessions : WF_vars(Launch_Loop(s))

Spec == Init /\ [][Next]_vars
FairSpec == Spec /\ Fairness

-----------------------------------------------------------------------------
(* Properties *)

\* Every variable keeps its type; the registry indices stay in range.
TypeOK ==
  /\ connected \in BOOLEAN
  /\ timer \in 0..Threshold + 1
  /\ launch_thread \in 0..MaxLaunches
  /\ launches \in 0..MaxLaunches
  /\ http \in HttpStates
  /\ pc \in [Sessions -> Phases]
  /\ i \in [Sessions -> 1..N + 1]
  /\ service \in [Slots -> SlotStates]
  /\ service_count \in 0..N
  /\ sender \in [Slots -> BOOLEAN]
  /\ transport \in {"none", "up", "failed"}

\* At most one Launch_Loop thread works on the shared THEMIS_EXT, although
\* the flag Launch tests is raised by the new thread and not by Launch: the
\* join of launch_thread is what closes that window.
SingleSession == \A s, t \in Sessions : Alive(s) /\ Alive(t) => s = t

\* Launch rewrites the context (screen size, port, backend) that the services
\* read while they initialise only when no session thread is left.
ConfigureAlone == http = "configure" => \A s \in Sessions : ~Alive(s)

\* The screen size VIDEO_SERVER::Initialize reads is not written under it, by
\* Launch or by Dimensions, which writes with a session alive: the video server
\* is not counted, and so not found, before its Initialize is done, and the
\* count of the session before is not left standing.
ContextIsSteady ==
  http \in {"configure", "context"} => \A s \in Sessions : ~(pc[s] = "init" /\ i[s] = Video)

\* What Launch concludes from the flag: while connected is false no thread has
\* begun to build the registry or is still tearing it down.
DisconnectedMeansIdle ==
  ~connected => \A s \in Sessions : pc[s] \in {"unborn", "begin", "done"}

\* A service's thread only runs while the transport it sends on exists:
\* Delete stops every sender before it frees the socket registry, on the path
\* of a failed Initialize too.
SenderHasTransport == (\E k \in Slots : sender[k]) => transport = "up"

\* Between sessions nothing of the previous one is left: each slot that was
\* set, the one whose Initialize failed included, has been deleted.
CleanBetweenSessions ==
  ~connected /\ (\E s \in Sessions : pc[s] = "done") =>
    /\ \A k \in Slots : service[k] = "NULL" /\ ~sender[k]
    /\ transport = "none"

\* While a session is being built or served, every service a lookup can see
\* has completed its Initialize, so VIDEO_SERVER is found whole or not at all.
LookupFindsWholeServices ==
  (\E s \in Sessions : pc[s] \in {"place", "init", "serving"}) =>
     \A k \in 1..service_count : service[k] \in Whole

\* The session whose thread is working, 0 if there is none.
Holder == IF launches # 0 /\ (\E s \in Sessions : s = launches /\ Alive(s)) THEN launches ELSE 0

Lease == INSTANCE SessionLease WITH holder <- Holder, granted <- launches, shown <- connected

\* The handlers and threads together grant leases as SessionLease says: the
\* threads are numbered in the order of their Launches and none starts before
\* the one before it has lowered connected and ended.
ImplementsLease == Lease!Spec

\* A Delete that never returned holds a session thread for good.
Stuck == \E s \in Sessions : pc[s] = "stuck"

\* A client that stops pinging loses its session: forever after, either pings
\* (or new sessions) keep restarting the timer, or the server is disconnected;
\* unless a Delete keeps the session thread for good: that of a service whose
\* Initialize failed, or of the video server when a rebuild of it failed.
SilentSessionEnds == []<>(timer = 0) \/ []<>(~connected) \/ <>Stuck

\* A Launch that finds the previous thread still there is answered: while the
\* HTTP thread waits in join no Ping can be served, so that thread must end.
\* Only a Delete that never returned can keep it there.
LaunchGetsThrough == http = "join" ~> http = "idle" \/ Stuck
=============================================================================
