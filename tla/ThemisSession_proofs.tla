------------------------ MODULE ThemisSession_proofs ------------------------
(***************************************************************************)
(* Theorems about ThemisSession, for any number of services, of launches   *)
(* and any choice of failing services.                                     *)
(***************************************************************************)
EXTENDS ThemisSession, TLAPS

(***************************************************************************)
(* The inductive invariant.  Ownership says who may touch the registry:    *)
(* only the newest session thread, and only while launch_thread points to  *)
(* it.  Registry says what that thread leaves in the registry at each of   *)
(* its steps.                                                              *)
(***************************************************************************)
Ownership ==
  /\ \A s \in Sessions : s > launches => pc[s] = "unborn"
  /\ \A s \in Sessions : Alive(s) => s = launches /\ launch_thread = launches
  /\ http = "configure" => launch_thread = 0
  /\ http = "join" => launch_thread # 0
  /\ http \in {"join", "configure"} => launches < MaxLaunches

\* The phases in which the registry has been cleared and not yet taken down.
Early == {"unborn", "begin", "clear"}

Cleared ==
  (\E s \in Sessions : pc[s] \notin Early) => \A k \in Slots : service[k] # "garbage"

NobodyBuilt ==
  (\A s \in Sessions : pc[s] \in Early \cup {"done"}) =>
     /\ transport = "none"
     /\ \A k \in Slots : service[k] \in {"NULL", "garbage"}

SendersAreUp == \A k \in Slots : sender[k] => service[k] = "up"
UpHasTransport == \A k \in Slots : service[k] \in Whole => transport = "up"

PhaseOf(s) ==
  /\ pc[s] \in {"transport", "disconnect"} =>
       transport = "none" /\ \A k \in Slots : service[k] = "NULL"
  /\ pc[s] = "transport" => service_count = 0
  /\ pc[s] = "place" =>
       /\ service_count = i[s] - 1
       /\ transport = "up"
       /\ \A k \in Slots : k < i[s] => service[k] \in Whole
       /\ \A k \in Slots : k >= i[s] => service[k] = "NULL"
  /\ pc[s] = "init" =>
       /\ i[s] \in Slots
       /\ service_count = i[s] - 1
       /\ transport = "up"
       /\ \A k \in Slots : k < i[s] => service[k] \in Whole
       /\ \A k \in Slots : k > i[s] => service[k] = "NULL"
  /\ pc[s] = "serving" => \A k \in Slots : service[k] \in Whole
  /\ pc[s] \in {"delete", "free", "null"} =>
       \A k \in Slots : k < i[s] => service[k] = "NULL"
  /\ pc[s] \in {"free", "null", "stuck"} => i[s] \in Slots
  /\ pc[s] \in {"free", "null"} => service[i[s]] \notin Whole /\ ~sender[i[s]]

Registry ==
  /\ Cleared
  /\ NobodyBuilt
  /\ SendersAreUp
  /\ UpHasTransport
  /\ \A s \in Sessions : PhaseOf(s)

\* While Dimensions is about to write the context, the session that was found
\* is past the Initialize of its video server.
Past ==
  http = "context" =>
    \A s \in Sessions : /\ pc[s] \notin {"begin", "clear", "transport"}
                        /\ pc[s] \in {"place", "init"} => i[s] > Video

IInv == TypeOK /\ Ownership /\ DisconnectedMeansIdle /\ Registry /\ Past
-----------------------------------------------------------------------------

USE ConstantsAssumption DEF Slots, Sessions, Whole

\* The initial states satisfy the invariant.
LEMMA InitIInv == Init => IInv
  <1> SUFFICES ASSUME Init PROVE IInv
    OBVIOUS
  <1> USE DEF Init
  <1>1. TypeOK
    <2>1. /\ timer \in 0..Threshold + 1
          /\ launch_thread \in 0..MaxLaunches
          /\ launches \in 0..MaxLaunches
          /\ service_count \in 0..N
      OBVIOUS
    <2>2. i \in [Sessions -> 1..N + 1]
      OBVIOUS
    <2>3. pc \in [Sessions -> Phases]
      BY DEF Phases
    <2>4. service \in [Slots -> SlotStates] /\ sender \in [Slots -> BOOLEAN]
      BY DEF SlotStates
    <2>5. QED
      BY <2>1, <2>2, <2>3, <2>4 DEF TypeOK, HttpStates
  <1>2. Ownership /\ DisconnectedMeansIdle
    BY DEF Ownership, DisconnectedMeansIdle, Alive
  <1>3. Registry
    BY DEF Registry, Cleared, NobodyBuilt, SendersAreUp, UpHasTransport, PhaseOf, Early
  <1>4. Past
    BY DEF Past
  <1>5. QED
    BY <1>1, <1>2, <1>3, <1>4 DEF IInv

\* Every step keeps the types.
LEMMA TypeStep == IInv /\ [Next]_vars => TypeOK'
  <1> SUFFICES ASSUME IInv, [Next]_vars PROVE TypeOK'
    OBVIOUS
  <1> USE DEF IInv, TypeOK, HttpStates, Phases, SlotStates, Ownership
  <1>1. CASE Launch
    BY <1>1 DEF Launch, sessionVars, registryVars
  <1>2. CASE LaunchJoin
    BY <1>2 DEF LaunchJoin, sessionVars, registryVars
  <1>3. CASE LaunchSpawn
    BY <1>3 DEF LaunchSpawn, sessionVars, registryVars
  <1>4. CASE LaunchBadBackend
    BY <1>4 DEF LaunchBadBackend, sessionVars, registryVars
  <1>5. CASE LaunchReturn
    BY <1>5 DEF LaunchReturn, sessionVars, registryVars
  <1>6. CASE Ping
    BY <1>6 DEF Ping, sessionVars, registryVars
  <1>7. CASE VideoRequest
    BY <1>7 DEF VideoRequest, sessionVars, registryVars, Visited, Dangling
  <1>8. CASE ResizeReturn
    BY <1>8 DEF ResizeReturn, sessionVars, registryVars
  <1>9. CASE Tick
    BY <1>9 DEF Tick, sessionVars, registryVars
  <1>10. ASSUME NEW s \in Sessions, Connect(s) PROVE TypeOK'
    BY <1>10 DEF Connect, Goto, registryVars
  <1>11. ASSUME NEW s \in Sessions, ClearRegistry(s) PROVE TypeOK'
    BY <1>11 DEF ClearRegistry, Goto, registryVars
  <1>12. ASSUME NEW s \in Sessions, InitTransport(s) PROVE TypeOK'
    BY <1>12 DEF InitTransport, Goto, registryVars
  <1>13. ASSUME NEW s \in Sessions, PlaceService(s) PROVE TypeOK'
    BY <1>13 DEF PlaceService, Goto, registryVars
  <1>14. ASSUME NEW s \in Sessions, InitService(s) PROVE TypeOK'
    <2>1. i[s] \in 1..N /\ service_count = i[s] - 1
      BY <1>14 DEF InitService, Registry, PhaseOf
    <2>2. i' \in [Sessions -> 1..N + 1] /\ service_count' \in 0..N
      BY <1>14, <2>1, SMTT(30) DEF InitService, registryVars
    <2>3. QED
      BY <1>14, <2>2 DEF InitService, Goto, registryVars
  <1>15. ASSUME NEW s \in Sessions, InitServiceFails(s) PROVE TypeOK'
    BY <1>15 DEF InitServiceFails, Goto, registryVars
  <1>16. ASSUME NEW s \in Sessions, StartTimer(s) PROVE TypeOK'
    BY <1>16 DEF StartTimer, Goto, registryVars
  <1>17. ASSUME NEW s \in Sessions, StopServing(s) PROVE TypeOK'
    BY <1>17 DEF StopServing, Goto, registryVars
  <1>18. ASSUME NEW s \in Sessions, SkipSlot(s) PROVE TypeOK'
    BY <1>18 DEF SkipSlot, Goto, registryVars
  <1>19. ASSUME NEW s \in Sessions, DeleteService(s) PROVE TypeOK'
    BY <1>19 DEF DeleteService, Goto, registryVars
  <1>20. ASSUME NEW s \in Sessions, FreeService(s) PROVE TypeOK'
    BY <1>20 DEF FreeService, Goto, registryVars
  <1>21. ASSUME NEW s \in Sessions, ClearSlot(s) PROVE TypeOK'
    <2>1. i[s] \in 1..N
      BY <1>21 DEF ClearSlot, Registry, PhaseOf
    <2>2. i' \in [Sessions -> 1..N + 1] /\ service_count' \in 0..N
      BY <1>21, <2>1 DEF ClearSlot, registryVars
    <2>3. QED
      BY <1>21, <2>2 DEF ClearSlot, Goto, registryVars
  <1>22. ASSUME NEW s \in Sessions, DeleteTransport(s) PROVE TypeOK'
    BY <1>22 DEF DeleteTransport, Goto, registryVars
  <1>23. ASSUME NEW s \in Sessions, Disconnect(s) PROVE TypeOK'
    BY <1>23 DEF Disconnect, Goto, registryVars
  <1>24. CASE WriteContext
    BY <1>24 DEF WriteContext, sessionVars, registryVars
  <1>25. CASE RebuildFails
    BY <1>25 DEF RebuildFails, sessionVars
  <1>26. CASE UNCHANGED vars
    BY <1>26 DEF vars, sessionVars, registryVars
  <1>27. QED
    BY <1>1, <1>2, <1>3, <1>4, <1>5, <1>6, <1>7, <1>8, <1>9, <1>10, <1>11, <1>12, <1>13, <1>14, <1>15, <1>16, <1>17, <1>18, <1>19, <1>20, <1>21, <1>22, <1>23, <1>24, <1>25, <1>26
       DEF Next, HttpThread, LaunchRest, Launch_Loop, Build, Teardown

\* Every step keeps the newest session the only owner of the registry.
LEMMA OwnershipStep == IInv /\ [Next]_vars => Ownership'
  <1> SUFFICES ASSUME IInv, [Next]_vars PROVE Ownership'
    OBVIOUS
  <1> USE DEF IInv, TypeOK, Ownership, Alive, Phases, HttpStates
  <1>1. CASE Launch
    BY <1>1 DEF Launch, sessionVars, registryVars
  <1>2. CASE LaunchJoin
    BY <1>2 DEF LaunchJoin, sessionVars, registryVars
  <1>3. CASE LaunchSpawn
    BY <1>3 DEF LaunchSpawn, sessionVars, registryVars
  <1>4. CASE LaunchBadBackend
    BY <1>4 DEF LaunchBadBackend, sessionVars, registryVars
  <1>5. CASE LaunchReturn
    BY <1>5 DEF LaunchReturn, sessionVars, registryVars
  <1>6. CASE Ping
    BY <1>6 DEF Ping, sessionVars, registryVars
  <1>7. CASE VideoRequest
    BY <1>7 DEF VideoRequest, sessionVars, registryVars, Visited, Dangling
  <1>8. CASE ResizeReturn
    BY <1>8 DEF ResizeReturn, sessionVars, registryVars
  <1>9. CASE Tick
    BY <1>9 DEF Tick, sessionVars, registryVars
  <1>10. ASSUME NEW s \in Sessions, Connect(s) PROVE Ownership'
    BY <1>10 DEF Connect, Goto, registryVars
  <1>11. ASSUME NEW s \in Sessions, ClearRegistry(s) PROVE Ownership'
    BY <1>11 DEF ClearRegistry, Goto, registryVars
  <1>12. ASSUME NEW s \in Sessions, InitTransport(s) PROVE Ownership'
    BY <1>12 DEF InitTransport, Goto, registryVars
  <1>13. ASSUME NEW s \in Sessions, PlaceService(s) PROVE Ownership'
    BY <1>13 DEF PlaceService, Goto, registryVars
  <1>14. ASSUME NEW s \in Sessions, InitService(s) PROVE Ownership'
    BY <1>14 DEF InitService, Goto, registryVars
  <1>15. ASSUME NEW s \in Sessions, InitServiceFails(s) PROVE Ownership'
    BY <1>15 DEF InitServiceFails, Goto, registryVars
  <1>16. ASSUME NEW s \in Sessions, StartTimer(s) PROVE Ownership'
    BY <1>16 DEF StartTimer, Goto, registryVars
  <1>17. ASSUME NEW s \in Sessions, StopServing(s) PROVE Ownership'
    BY <1>17 DEF StopServing, Goto, registryVars
  <1>18. ASSUME NEW s \in Sessions, SkipSlot(s) PROVE Ownership'
    BY <1>18 DEF SkipSlot, Goto, registryVars
  <1>19. ASSUME NEW s \in Sessions, DeleteService(s) PROVE Ownership'
    BY <1>19 DEF DeleteService, Goto, registryVars
  <1>20. ASSUME NEW s \in Sessions, FreeService(s) PROVE Ownership'
    BY <1>20 DEF FreeService, Goto, registryVars
  <1>21. ASSUME NEW s \in Sessions, ClearSlot(s) PROVE Ownership'
    BY <1>21 DEF ClearSlot, Goto, registryVars
  <1>22. ASSUME NEW s \in Sessions, DeleteTransport(s) PROVE Ownership'
    BY <1>22 DEF DeleteTransport, Goto, registryVars
  <1>23. ASSUME NEW s \in Sessions, Disconnect(s) PROVE Ownership'
    BY <1>23 DEF Disconnect, Goto, registryVars
  <1>24. CASE WriteContext
    BY <1>24 DEF WriteContext, sessionVars, registryVars
  <1>25. CASE RebuildFails
    BY <1>25 DEF RebuildFails, sessionVars
  <1>26. CASE UNCHANGED vars
    BY <1>26 DEF vars, sessionVars, registryVars
  <1>27. QED
    BY <1>1, <1>2, <1>3, <1>4, <1>5, <1>6, <1>7, <1>8, <1>9, <1>10, <1>11, <1>12, <1>13, <1>14, <1>15, <1>16, <1>17, <1>18, <1>19, <1>20, <1>21, <1>22, <1>23, <1>24, <1>25, <1>26
       DEF Next, HttpThread, LaunchRest, Launch_Loop, Build, Teardown

\* Every step keeps what a lowered flag means.
LEMMA DisconnectedStep == IInv /\ [Next]_vars => DisconnectedMeansIdle'
  <1> SUFFICES ASSUME IInv, [Next]_vars PROVE DisconnectedMeansIdle'
    OBVIOUS
  <1> USE DEF IInv, TypeOK, Ownership, Alive, DisconnectedMeansIdle, Phases
  <1>1. CASE Launch
    BY <1>1 DEF Launch, sessionVars, registryVars
  <1>2. CASE LaunchJoin
    BY <1>2 DEF LaunchJoin, sessionVars, registryVars
  <1>3. CASE LaunchSpawn
    BY <1>3 DEF LaunchSpawn, sessionVars, registryVars
  <1>4. CASE LaunchBadBackend
    BY <1>4 DEF LaunchBadBackend, sessionVars, registryVars
  <1>5. CASE LaunchReturn
    BY <1>5 DEF LaunchReturn, sessionVars, registryVars
  <1>6. CASE Ping
    BY <1>6 DEF Ping, sessionVars, registryVars
  <1>7. CASE VideoRequest
    BY <1>7 DEF VideoRequest, sessionVars, registryVars, Visited, Dangling
  <1>8. CASE ResizeReturn
    BY <1>8 DEF ResizeReturn, sessionVars, registryVars
  <1>9. CASE Tick
    BY <1>9 DEF Tick, sessionVars, registryVars
  <1>10. ASSUME NEW s \in Sessions, Connect(s) PROVE DisconnectedMeansIdle'
    BY <1>10 DEF Connect, Goto, registryVars
  <1>11. ASSUME NEW s \in Sessions, ClearRegistry(s) PROVE DisconnectedMeansIdle'
    BY <1>11 DEF ClearRegistry, Goto, registryVars
  <1>12. ASSUME NEW s \in Sessions, InitTransport(s) PROVE DisconnectedMeansIdle'
    BY <1>12 DEF InitTransport, Goto, registryVars
  <1>13. ASSUME NEW s \in Sessions, PlaceService(s) PROVE DisconnectedMeansIdle'
    BY <1>13 DEF PlaceService, Goto, registryVars
  <1>14. ASSUME NEW s \in Sessions, InitService(s) PROVE DisconnectedMeansIdle'
    BY <1>14 DEF InitService, Goto, registryVars
  <1>15. ASSUME NEW s \in Sessions, InitServiceFails(s) PROVE DisconnectedMeansIdle'
    BY <1>15 DEF InitServiceFails, Goto, registryVars
  <1>16. ASSUME NEW s \in Sessions, StartTimer(s) PROVE DisconnectedMeansIdle'
    BY <1>16 DEF StartTimer, Goto, registryVars
  <1>17. ASSUME NEW s \in Sessions, StopServing(s) PROVE DisconnectedMeansIdle'
    BY <1>17 DEF StopServing, Goto, registryVars
  <1>18. ASSUME NEW s \in Sessions, SkipSlot(s) PROVE DisconnectedMeansIdle'
    BY <1>18 DEF SkipSlot, Goto, registryVars
  <1>19. ASSUME NEW s \in Sessions, DeleteService(s) PROVE DisconnectedMeansIdle'
    BY <1>19 DEF DeleteService, Goto, registryVars
  <1>20. ASSUME NEW s \in Sessions, FreeService(s) PROVE DisconnectedMeansIdle'
    BY <1>20 DEF FreeService, Goto, registryVars
  <1>21. ASSUME NEW s \in Sessions, ClearSlot(s) PROVE DisconnectedMeansIdle'
    BY <1>21 DEF ClearSlot, Goto, registryVars
  <1>22. ASSUME NEW s \in Sessions, DeleteTransport(s) PROVE DisconnectedMeansIdle'
    BY <1>22 DEF DeleteTransport, Goto, registryVars
  <1>23. ASSUME NEW s \in Sessions, Disconnect(s) PROVE DisconnectedMeansIdle'
    BY <1>23 DEF Disconnect, Goto, registryVars
  <1>24. CASE WriteContext
    BY <1>24 DEF WriteContext, sessionVars, registryVars
  <1>25. CASE RebuildFails
    BY <1>25 DEF RebuildFails, sessionVars
  <1>26. CASE UNCHANGED vars
    BY <1>26 DEF vars, sessionVars, registryVars
  <1>27. QED
    BY <1>1, <1>2, <1>3, <1>4, <1>5, <1>6, <1>7, <1>8, <1>9, <1>10, <1>11, <1>12, <1>13, <1>14, <1>15, <1>16, <1>17, <1>18, <1>19, <1>20, <1>21, <1>22, <1>23, <1>24, <1>25, <1>26
       DEF Next, HttpThread, LaunchRest, Launch_Loop, Build, Teardown

\* A thread that is not alive is in no phase that says anything.
LEMMA DeadPhase ==
  ASSUME NEW t \in Sessions, pc'[t] \in {"unborn", "done"}
  PROVE  PhaseOf(t)'
  BY DEF PhaseOf

\* Nor does NobodyBuilt once somebody builds.
LEMMA SomebodyBuilds ==
  ASSUME NEW s \in Sessions, pc'[s] \notin Early \cup {"done"}
  PROVE  NobodyBuilt'
  BY DEF NobodyBuilt

\* The steps of a session thread leave the other threads dead.
LEMMA OthersDead ==
  ASSUME TypeOK, Ownership, NEW s \in Sessions, Alive(s), NEW phase, Goto(s, phase)
  PROVE  /\ pc'[s] = phase
         /\ \A t \in Sessions : t # s => pc'[t] \in {"unborn", "done"} /\ pc'[t] = pc[t]
  BY DEF TypeOK, Ownership, Alive, Goto

\* Every step keeps the registry as its owner's phase describes it.
LEMMA RegistryStep == IInv /\ [Next]_vars => Registry'
  <1> SUFFICES ASSUME IInv, [Next]_vars PROVE Registry'
    OBVIOUS
  <1> USE DEF IInv
  <1>1. CASE Launch
    BY <1>1 DEF Launch, Registry, Cleared, NobodyBuilt, SendersAreUp, UpHasTransport, PhaseOf, sessionVars, registryVars, TypeOK, Ownership, Alive, Early, Phases, SlotStates
  <1>2. CASE LaunchJoin
    BY <1>2 DEF LaunchJoin, Registry, Cleared, NobodyBuilt, SendersAreUp, UpHasTransport, PhaseOf, sessionVars, registryVars, TypeOK, Ownership, Alive, Early, Phases, SlotStates
  <1>3. CASE LaunchSpawn
    BY <1>3 DEF LaunchSpawn, Registry, Cleared, NobodyBuilt, SendersAreUp, UpHasTransport, PhaseOf, sessionVars, registryVars, TypeOK, Ownership, Alive, Early, Phases, SlotStates
  <1>4. CASE LaunchBadBackend
    BY <1>4 DEF LaunchBadBackend, Registry, Cleared, NobodyBuilt, SendersAreUp, UpHasTransport, PhaseOf, sessionVars, registryVars, TypeOK, Ownership, Alive, Early, Phases, SlotStates
  <1>5. CASE LaunchReturn
    BY <1>5 DEF LaunchReturn, Registry, Cleared, NobodyBuilt, SendersAreUp, UpHasTransport, PhaseOf, sessionVars, registryVars, TypeOK, Ownership, Alive, Early, Phases, SlotStates
  <1>6. CASE Ping
    BY <1>6 DEF Ping, Registry, Cleared, NobodyBuilt, SendersAreUp, UpHasTransport, PhaseOf, sessionVars, registryVars, TypeOK, Ownership, Alive, Early, Phases, SlotStates
  <1>7. CASE VideoRequest
    BY <1>7 DEF VideoRequest, Registry, Cleared, NobodyBuilt, SendersAreUp, UpHasTransport, PhaseOf, sessionVars, registryVars, TypeOK, Ownership, Alive, Early, Phases, SlotStates
  <1>8. CASE ResizeReturn
    BY <1>8 DEF ResizeReturn, Registry, Cleared, NobodyBuilt, SendersAreUp, UpHasTransport, PhaseOf, sessionVars, registryVars, TypeOK, Ownership, Alive, Early, Phases, SlotStates
  <1>9. CASE Tick
    BY <1>9 DEF Tick, Registry, Cleared, NobodyBuilt, SendersAreUp, UpHasTransport, PhaseOf, sessionVars, registryVars, TypeOK, Ownership, Alive, Early, Phases, SlotStates
  <1>10. ASSUME NEW s \in Sessions, Connect(s) PROVE Registry'
    <2>1. /\ pc[s] = "begin" /\ pc'[s] \in {"clear"}
          /\ \A t \in Sessions : t # s => pc'[t] \in {"unborn", "done"} /\ pc'[t] = pc[t]
      BY <1>10, OthersDead DEF Connect, Alive
    <2>2. Cleared'
      BY <1>10, <2>1 DEF Connect, Registry, Cleared, TypeOK, Early, registryVars
    <2>3. NobodyBuilt'
      BY <1>10, <2>1 DEF Connect, Registry, NobodyBuilt, PhaseOf, TypeOK, Ownership, Alive, Early, registryVars
    <2>4. SendersAreUp'
      BY <1>10, <2>1 DEF Connect, Registry, SendersAreUp, UpHasTransport, PhaseOf, TypeOK, registryVars
    <2>5. UpHasTransport'
      BY <1>10, <2>1 DEF Connect, Registry, UpHasTransport, PhaseOf, TypeOK, registryVars
    <2>6. PhaseOf(s)'
      BY <1>10, <2>1 DEF Connect, Registry, NobodyBuilt, SendersAreUp, UpHasTransport, PhaseOf, TypeOK, SlotStates, registryVars
    <2>7. \A t \in Sessions : PhaseOf(t)'
      BY <2>1, <2>6, DeadPhase
    <2>8. QED
      BY <2>2, <2>3, <2>4, <2>5, <2>7 DEF Registry
  <1>11. ASSUME NEW s \in Sessions, ClearRegistry(s) PROVE Registry'
    <2>1. /\ pc[s] = "clear" /\ pc'[s] \in {"transport"}
          /\ \A t \in Sessions : t # s => pc'[t] \in {"unborn", "done"} /\ pc'[t] = pc[t]
      BY <1>11, OthersDead DEF ClearRegistry, Alive
    <2>0. transport = "none" /\ \A k \in Slots : ~sender[k]
      BY <2>1 DEF Registry, NobodyBuilt, SendersAreUp, Early
    <2>2. Cleared'
      BY <1>11, <2>1 DEF ClearRegistry, Registry, Cleared, TypeOK, Early, registryVars
    <2>3. NobodyBuilt'
      BY <2>1, SomebodyBuilds DEF Early
    <2>4. SendersAreUp'
      BY <1>11, <2>0 DEF ClearRegistry, SendersAreUp
    <2>5. UpHasTransport'
      BY <1>11, <2>1 DEF ClearRegistry, Registry, UpHasTransport, PhaseOf, TypeOK, registryVars
    <2>6. PhaseOf(s)'
      BY <1>11, <2>0, <2>1 DEF ClearRegistry, PhaseOf
    <2>7. \A t \in Sessions : PhaseOf(t)'
      BY <2>1, <2>6, DeadPhase
    <2>8. QED
      BY <2>2, <2>3, <2>4, <2>5, <2>7 DEF Registry
  <1>12. ASSUME NEW s \in Sessions, InitTransport(s) PROVE Registry'
    <2>1. /\ pc[s] = "transport" /\ pc'[s] \in {"place", "delete"}
          /\ \A t \in Sessions : t # s => pc'[t] \in {"unborn", "done"} /\ pc'[t] = pc[t]
      BY <1>12, OthersDead DEF InitTransport, Alive
    <2>2. Cleared'
      BY <1>12, <2>1 DEF InitTransport, Registry, Cleared, TypeOK, Early, registryVars
    <2>3. NobodyBuilt'
      BY <2>1, SomebodyBuilds DEF Early
    <2>4. SendersAreUp'
      BY <1>12, <2>1 DEF InitTransport, Registry, SendersAreUp, UpHasTransport, PhaseOf, TypeOK, registryVars
    <2>5. UpHasTransport'
      BY <1>12, <2>1 DEF InitTransport, Registry, UpHasTransport, PhaseOf, TypeOK, registryVars
    <2>6. PhaseOf(s)'
      <3>1. i'[s] = 1 /\ service_count' = 0 /\ \A k \in Slots : service'[k] = "NULL"
        BY <1>12, <2>1 DEF InitTransport, Registry, PhaseOf, TypeOK
      <3>2. pc'[s] = "place" => transport' = "up"
        BY <1>12, <2>1 DEF InitTransport, Goto, TypeOK
      <3>3. QED
        BY <2>1, <3>1, <3>2 DEF PhaseOf
    <2>7. \A t \in Sessions : PhaseOf(t)'
      BY <2>1, <2>6, DeadPhase
    <2>8. QED
      BY <2>2, <2>3, <2>4, <2>5, <2>7 DEF Registry
  <1>13. ASSUME NEW s \in Sessions, PlaceService(s) PROVE Registry'
    <2>1. /\ pc[s] = "place" /\ pc'[s] \in {"init"}
          /\ \A t \in Sessions : t # s => pc'[t] \in {"unborn", "done"} /\ pc'[t] = pc[t]
      BY <1>13, OthersDead DEF PlaceService, Alive
    <2>2. Cleared'
      BY <1>13, <2>1 DEF PlaceService, Registry, Cleared, TypeOK, Early, registryVars
    <2>3. NobodyBuilt'
      BY <2>1, SomebodyBuilds DEF Early
    <2>4. SendersAreUp'
      BY <1>13, <2>1 DEF PlaceService, Registry, SendersAreUp, UpHasTransport, PhaseOf, TypeOK, registryVars
    <2>5. UpHasTransport'
      BY <1>13, <2>1 DEF PlaceService, Registry, UpHasTransport, PhaseOf, TypeOK, registryVars
    <2>6. PhaseOf(s)'
      BY <1>13, <2>1 DEF PlaceService, Registry, NobodyBuilt, SendersAreUp, UpHasTransport, PhaseOf, TypeOK, SlotStates, registryVars
    <2>7. \A t \in Sessions : PhaseOf(t)'
      BY <2>1, <2>6, DeadPhase
    <2>8. QED
      BY <2>2, <2>3, <2>4, <2>5, <2>7 DEF Registry
  <1>14. ASSUME NEW s \in Sessions, InitService(s) PROVE Registry'
    <2>1. /\ pc[s] = "init" /\ pc'[s] \in {"place"}
          /\ \A t \in Sessions : t # s => pc'[t] \in {"unborn", "done"} /\ pc'[t] = pc[t]
      BY <1>14, OthersDead DEF InitService, Alive
    <2>2. Cleared'
      BY <1>14, <2>1 DEF InitService, Registry, Cleared, TypeOK, Early, registryVars
    <2>3. NobodyBuilt'
      BY <2>1, SomebodyBuilds DEF Early
    <2>4. SendersAreUp'
      BY <1>14, <2>1 DEF InitService, Registry, SendersAreUp, UpHasTransport, PhaseOf, TypeOK, registryVars
    <2>5. UpHasTransport'
      BY <1>14, <2>1 DEF InitService, Registry, UpHasTransport, PhaseOf, TypeOK, registryVars
    <2>6. PhaseOf(s)'
      <3>1. /\ i[s] \in Slots /\ service_count = i[s] - 1 /\ transport = "up"
            /\ \A k \in Slots : k < i[s] => service[k] \in Whole
            /\ \A k \in Slots : k > i[s] => service[k] = "NULL"
        BY <2>1 DEF Registry, PhaseOf
      <3>2. /\ i'[s] = i[s] + 1 /\ service_count' = service_count + 1 /\ transport' = "up"
            /\ \A k \in Slots : service'[k] = IF k = i[s] THEN "up" ELSE service[k]
        BY <1>14, <3>1 DEF InitService, TypeOK
      <3>3. \A k \in Slots : k < i'[s] => service'[k] \in Whole
        BY <3>1, <3>2 DEF TypeOK
      <3>4. \A k \in Slots : k >= i'[s] => service'[k] = "NULL"
        BY <3>1, <3>2, SMTT(30) DEF TypeOK
      <3>5. pc'[s] = "place" /\ transport' = "up" /\ service_count' = i'[s] - 1
        BY <2>1, <3>1, <3>2
      <3>6. QED
        BY <3>3, <3>4, <3>5, Zenon DEF PhaseOf
    <2>7. \A t \in Sessions : PhaseOf(t)'
      BY <2>1, <2>6, DeadPhase
    <2>8. QED
      BY <2>2, <2>3, <2>4, <2>5, <2>7 DEF Registry
  <1>15. ASSUME NEW s \in Sessions, InitServiceFails(s) PROVE Registry'
    <2>1. /\ pc[s] = "init" /\ pc'[s] \in {"delete"}
          /\ \A t \in Sessions : t # s => pc'[t] \in {"unborn", "done"} /\ pc'[t] = pc[t]
      BY <1>15, OthersDead DEF InitServiceFails, Alive
    <2>2. Cleared'
      BY <1>15, <2>1 DEF InitServiceFails, Registry, Cleared, TypeOK, Early, registryVars
    <2>3. NobodyBuilt'
      BY <2>1, SomebodyBuilds DEF Early
    <2>4. SendersAreUp'
      BY <1>15, <2>1 DEF InitServiceFails, Registry, SendersAreUp, UpHasTransport, PhaseOf, TypeOK, registryVars
    <2>5. UpHasTransport'
      BY <1>15, <2>1 DEF InitServiceFails, Registry, UpHasTransport, PhaseOf, TypeOK, registryVars
    <2>6. PhaseOf(s)'
      BY <1>15, <2>1 DEF InitServiceFails, Registry, NobodyBuilt, SendersAreUp, UpHasTransport, PhaseOf, TypeOK, SlotStates, registryVars
    <2>7. \A t \in Sessions : PhaseOf(t)'
      BY <2>1, <2>6, DeadPhase
    <2>8. QED
      BY <2>2, <2>3, <2>4, <2>5, <2>7 DEF Registry
  <1>16. ASSUME NEW s \in Sessions, StartTimer(s) PROVE Registry'
    <2>1. /\ pc[s] = "place" /\ pc'[s] \in {"serving"}
          /\ \A t \in Sessions : t # s => pc'[t] \in {"unborn", "done"} /\ pc'[t] = pc[t]
      BY <1>16, OthersDead DEF StartTimer, Alive
    <2>2. Cleared'
      BY <1>16, <2>1 DEF StartTimer, Registry, Cleared, TypeOK, Early, registryVars
    <2>3. NobodyBuilt'
      BY <2>1, SomebodyBuilds DEF Early
    <2>4. SendersAreUp'
      BY <1>16, <2>1 DEF StartTimer, Registry, SendersAreUp, UpHasTransport, PhaseOf, TypeOK, registryVars
    <2>5. UpHasTransport'
      BY <1>16, <2>1 DEF StartTimer, Registry, UpHasTransport, PhaseOf, TypeOK, registryVars
    <2>6. PhaseOf(s)'
      BY <1>16, <2>1 DEF StartTimer, Registry, NobodyBuilt, SendersAreUp, UpHasTransport, PhaseOf, TypeOK, SlotStates, registryVars
    <2>7. \A t \in Sessions : PhaseOf(t)'
      BY <2>1, <2>6, DeadPhase
    <2>8. QED
      BY <2>2, <2>3, <2>4, <2>5, <2>7 DEF Registry
  <1>17. ASSUME NEW s \in Sessions, StopServing(s) PROVE Registry'
    <2>1. /\ pc[s] = "serving" /\ pc'[s] \in {"delete"}
          /\ \A t \in Sessions : t # s => pc'[t] \in {"unborn", "done"} /\ pc'[t] = pc[t]
      BY <1>17, OthersDead DEF StopServing, Alive
    <2>2. Cleared'
      BY <1>17, <2>1 DEF StopServing, Registry, Cleared, TypeOK, Early, registryVars
    <2>3. NobodyBuilt'
      BY <2>1, SomebodyBuilds DEF Early
    <2>4. SendersAreUp'
      BY <1>17, <2>1 DEF StopServing, Registry, SendersAreUp, UpHasTransport, PhaseOf, TypeOK, registryVars
    <2>5. UpHasTransport'
      BY <1>17, <2>1 DEF StopServing, Registry, UpHasTransport, PhaseOf, TypeOK, registryVars
    <2>6. PhaseOf(s)'
      BY <1>17, <2>1 DEF StopServing, Registry, NobodyBuilt, SendersAreUp, UpHasTransport, PhaseOf, TypeOK, SlotStates, registryVars
    <2>7. \A t \in Sessions : PhaseOf(t)'
      BY <2>1, <2>6, DeadPhase
    <2>8. QED
      BY <2>2, <2>3, <2>4, <2>5, <2>7 DEF Registry
  <1>18. ASSUME NEW s \in Sessions, SkipSlot(s) PROVE Registry'
    <2>1. /\ pc[s] = "delete" /\ pc'[s] \in {"delete"}
          /\ \A t \in Sessions : t # s => pc'[t] \in {"unborn", "done"} /\ pc'[t] = pc[t]
      BY <1>18 DEF SkipSlot, TypeOK, Ownership, Alive, Early, Phases, SlotStates
    <2>2. Cleared'
      BY <1>18, <2>1 DEF SkipSlot, Registry, Cleared, TypeOK, Early, registryVars
    <2>3. NobodyBuilt'
      BY <2>1, SomebodyBuilds DEF Early
    <2>4. SendersAreUp'
      BY <1>18, <2>1 DEF SkipSlot, Registry, SendersAreUp, UpHasTransport, PhaseOf, TypeOK, registryVars
    <2>5. UpHasTransport'
      BY <1>18, <2>1 DEF SkipSlot, Registry, UpHasTransport, PhaseOf, TypeOK, registryVars
    <2>6. PhaseOf(s)'
      BY <1>18, <2>1 DEF SkipSlot, Registry, NobodyBuilt, SendersAreUp, UpHasTransport, PhaseOf, TypeOK, SlotStates, registryVars
    <2>7. \A t \in Sessions : PhaseOf(t)'
      BY <2>1, <2>6, DeadPhase
    <2>8. QED
      BY <2>2, <2>3, <2>4, <2>5, <2>7 DEF Registry
  <1>19. ASSUME NEW s \in Sessions, DeleteService(s) PROVE Registry'
    <2>1. /\ pc[s] = "delete" /\ pc'[s] \in {"free", "stuck"}
          /\ \A t \in Sessions : t # s => pc'[t] \in {"unborn", "done"} /\ pc'[t] = pc[t]
      BY <1>19, OthersDead DEF DeleteService, Alive
    <2>2. Cleared'
      BY <1>19, <2>1 DEF DeleteService, Registry, Cleared, TypeOK, Early, registryVars
    <2>3. NobodyBuilt'
      BY <2>1, SomebodyBuilds DEF Early
    <2>4. SendersAreUp'
      <3>1. CASE UNCHANGED <<service, sender>>
        BY <3>1 DEF Registry, SendersAreUp
      <3>2. CASE /\ service' = [service EXCEPT ![i[s]] = "stopped"]
                 /\ sender' = [sender EXCEPT ![i[s]] = FALSE]
        BY <3>2 DEF Registry, SendersAreUp, TypeOK
      <3>3. QED
        BY <1>19, <3>1, <3>2 DEF DeleteService
    <2>5. UpHasTransport'
      BY <1>19, <2>1 DEF DeleteService, Registry, UpHasTransport, PhaseOf, TypeOK, registryVars
    <2>6. PhaseOf(s)'
      <3>1. i' = i /\ i[s] \in Slots /\ \A k \in Slots : k < i[s] => service[k] = "NULL"
        BY <1>19, <2>1 DEF DeleteService, Registry, PhaseOf, TypeOK
      <3>2. \A k \in Slots : k < i[s] => service'[k] = "NULL"
        BY <1>19, <3>1 DEF DeleteService, TypeOK
      <3>3. pc'[s] = "free" => service'[i[s]] = "stopped" /\ ~sender'[i[s]]
        BY <1>19, <2>1, <3>1 DEF DeleteService, Goto, TypeOK
      <3>4. QED
        BY <2>1, <3>1, <3>2, <3>3 DEF PhaseOf
    <2>7. \A t \in Sessions : PhaseOf(t)'
      BY <2>1, <2>6, DeadPhase
    <2>8. QED
      BY <2>2, <2>3, <2>4, <2>5, <2>7 DEF Registry
  <1>20. ASSUME NEW s \in Sessions, FreeService(s) PROVE Registry'
    <2>1. /\ pc[s] = "free" /\ pc'[s] \in {"null"}
          /\ \A t \in Sessions : t # s => pc'[t] \in {"unborn", "done"} /\ pc'[t] = pc[t]
      BY <1>20, OthersDead DEF FreeService, Alive
    <2>2. Cleared'
      BY <1>20, <2>1 DEF FreeService, Registry, Cleared, TypeOK, Early, registryVars
    <2>3. NobodyBuilt'
      BY <2>1, SomebodyBuilds DEF Early
    <2>4. SendersAreUp'
      BY <1>20, <2>1 DEF FreeService, Registry, SendersAreUp, UpHasTransport, PhaseOf, TypeOK, registryVars
    <2>5. UpHasTransport'
      BY <1>20, <2>1 DEF FreeService, Registry, UpHasTransport, PhaseOf, TypeOK, registryVars
    <2>6. PhaseOf(s)'
      BY <1>20, <2>1 DEF FreeService, Registry, NobodyBuilt, SendersAreUp, UpHasTransport, PhaseOf, TypeOK, SlotStates, registryVars
    <2>7. \A t \in Sessions : PhaseOf(t)'
      BY <2>1, <2>6, DeadPhase
    <2>8. QED
      BY <2>2, <2>3, <2>4, <2>5, <2>7 DEF Registry
  <1>21. ASSUME NEW s \in Sessions, ClearSlot(s) PROVE Registry'
    <2>1. /\ pc[s] = "null" /\ pc'[s] \in {"delete"}
          /\ \A t \in Sessions : t # s => pc'[t] \in {"unborn", "done"} /\ pc'[t] = pc[t]
      BY <1>21, OthersDead DEF ClearSlot, Alive
    <2>2. Cleared'
      BY <1>21, <2>1 DEF ClearSlot, Registry, Cleared, TypeOK, Early, registryVars
    <2>3. NobodyBuilt'
      BY <2>1, SomebodyBuilds DEF Early
    <2>4. SendersAreUp'
      BY <1>21, <2>1 DEF ClearSlot, Registry, SendersAreUp, UpHasTransport, PhaseOf, TypeOK, registryVars
    <2>5. UpHasTransport'
      BY <1>21, <2>1 DEF ClearSlot, Registry, UpHasTransport, PhaseOf, TypeOK, registryVars
    <2>6. PhaseOf(s)'
      BY <1>21, <2>1 DEF ClearSlot, Registry, NobodyBuilt, SendersAreUp, UpHasTransport, PhaseOf, TypeOK, SlotStates, registryVars
    <2>7. \A t \in Sessions : PhaseOf(t)'
      BY <2>1, <2>6, DeadPhase
    <2>8. QED
      BY <2>2, <2>3, <2>4, <2>5, <2>7 DEF Registry
  <1>22. ASSUME NEW s \in Sessions, DeleteTransport(s) PROVE Registry'
    <2>1. /\ pc[s] = "delete" /\ pc'[s] \in {"disconnect"}
          /\ \A t \in Sessions : t # s => pc'[t] \in {"unborn", "done"} /\ pc'[t] = pc[t]
      BY <1>22, OthersDead DEF DeleteTransport, Alive
    <2>2. Cleared'
      BY <1>22, <2>1 DEF DeleteTransport, Registry, Cleared, TypeOK, Early, registryVars
    <2>3. NobodyBuilt'
      BY <2>1, SomebodyBuilds DEF Early
    <2>4. SendersAreUp'
      BY <1>22, <2>1 DEF DeleteTransport, Registry, SendersAreUp, UpHasTransport, PhaseOf, TypeOK, registryVars
    <2>5. UpHasTransport'
      <3>1. \A k \in Slots : service'[k] = "NULL"
        BY <1>22 DEF DeleteTransport, Registry, PhaseOf, TypeOK
      <3>2. QED
        BY <3>1 DEF UpHasTransport
    <2>6. PhaseOf(s)'
      BY <1>22, <2>1 DEF DeleteTransport, Registry, NobodyBuilt, SendersAreUp, UpHasTransport, PhaseOf, TypeOK, SlotStates, registryVars
    <2>7. \A t \in Sessions : PhaseOf(t)'
      BY <2>1, <2>6, DeadPhase
    <2>8. QED
      BY <2>2, <2>3, <2>4, <2>5, <2>7 DEF Registry
  <1>23. ASSUME NEW s \in Sessions, Disconnect(s) PROVE Registry'
    <2>1. /\ pc[s] = "disconnect" /\ pc'[s] \in {"done"}
          /\ \A t \in Sessions : t # s => pc'[t] \in {"unborn", "done"} /\ pc'[t] = pc[t]
      BY <1>23, OthersDead DEF Disconnect, Alive
    <2>2. Cleared'
      BY <1>23, <2>1 DEF Disconnect, Registry, Cleared, TypeOK, Early, registryVars
    <2>3. NobodyBuilt'
      BY <1>23, <2>1 DEF Disconnect, Registry, NobodyBuilt, PhaseOf, TypeOK, Ownership, Alive, Early, registryVars
    <2>4. SendersAreUp'
      BY <1>23, <2>1 DEF Disconnect, Registry, SendersAreUp, UpHasTransport, PhaseOf, TypeOK, registryVars
    <2>5. UpHasTransport'
      BY <1>23, <2>1 DEF Disconnect, Registry, UpHasTransport, PhaseOf, TypeOK, registryVars
    <2>6. PhaseOf(s)'
      BY <1>23, <2>1 DEF Disconnect, Registry, NobodyBuilt, SendersAreUp, UpHasTransport, PhaseOf, TypeOK, SlotStates, registryVars
    <2>7. \A t \in Sessions : PhaseOf(t)'
      BY <2>1, <2>6, DeadPhase
    <2>8. QED
      BY <2>2, <2>3, <2>4, <2>5, <2>7 DEF Registry
  <1>24. CASE WriteContext
    BY <1>24 DEF WriteContext, Registry, Cleared, NobodyBuilt, SendersAreUp, UpHasTransport, PhaseOf, sessionVars, registryVars, TypeOK, Ownership, Alive, Early, Phases, SlotStates
  <1>25. CASE RebuildFails
    <2>1. /\ pc' = pc /\ i' = i /\ service_count' = service_count /\ transport' = transport
          /\ service[Video] = "up" /\ service'[Video] = "broken" /\ ~sender'[Video]
          /\ \A k \in Slots : k # Video => service'[k] = service[k] /\ sender'[k] = sender[k]
      BY <1>25 DEF RebuildFails, sessionVars, TypeOK
    <2>2. Cleared' /\ NobodyBuilt'
      BY <2>1 DEF Registry, Cleared, NobodyBuilt
    <2>3. SendersAreUp' /\ UpHasTransport'
      BY <2>1 DEF Registry, SendersAreUp, UpHasTransport
    <2>4. ASSUME NEW s \in Sessions PROVE PhaseOf(s)'
      BY <2>1 DEF Registry, PhaseOf
    <2>5. QED
      BY <2>2, <2>3, <2>4 DEF Registry
  <1>26. CASE UNCHANGED vars
    BY <1>26 DEF vars, sessionVars, registryVars, Registry, Cleared, NobodyBuilt, SendersAreUp, UpHasTransport, PhaseOf
  <1>27. QED
    BY <1>1, <1>2, <1>3, <1>4, <1>5, <1>6, <1>7, <1>8, <1>9, <1>10, <1>11, <1>12, <1>13, <1>14, <1>15, <1>16, <1>17, <1>18, <1>19, <1>20, <1>21, <1>22, <1>23, <1>24, <1>25, <1>26
       DEF Next, HttpThread, LaunchRest, Launch_Loop, Build, Teardown

\* Every step keeps Dimensions off the context of a session that still
\* initialises its video server.
LEMMA PastStep == IInv /\ [Next]_vars => Past'
  <1> SUFFICES ASSUME IInv, [Next]_vars, http' = "context", NEW s \in Sessions
               PROVE  /\ pc'[s] \notin {"begin", "clear", "transport"}
                      /\ pc'[s] \in {"place", "init"} => i'[s] > Video
    BY DEF Past
  <1> USE DEF IInv
  <1>1. CASE http = "idle"
    <2>1. VideoRequest /\ pc' = pc /\ i' = i
      BY <1>1 DEF Next, HttpThread, LaunchRest, Launch, LaunchJoin, LaunchSpawn, LaunchBadBackend,
                  LaunchReturn, Ping, VideoRequest, WriteContext, ResizeReturn, Tick, RebuildFails,
                  Launch_Loop, Build, Teardown, Connect, ClearRegistry, InitTransport, PlaceService,
                  InitService, InitServiceFails, StartTimer, StopServing, SkipSlot, DeleteService,
                  FreeService, ClearSlot, DeleteTransport, Disconnect, vars, sessionVars
    <2>2. Video <= service_count /\ service[Video] \notin {"NULL", "garbage"}
      BY <2>1, <1>1 DEF VideoRequest, Visited, Dangling
    <2>3. pc[s] \notin {"begin", "clear"}
      BY <2>2 DEF Registry, NobodyBuilt, Ownership, Alive, Early
    <2>4. pc[s] # "transport" /\ (pc[s] \in {"place", "init"} => i[s] > Video)
      BY <2>2 DEF Registry, PhaseOf, TypeOK
    <2>5. QED
      BY <2>1, <2>3, <2>4
  <1>2. CASE http = "context"
    <2>1. /\ pc[s] \notin {"begin", "clear", "transport"}
          /\ pc[s] \in {"place", "init"} => i[s] > Video
      BY <1>2 DEF Past
    <2>2. CASE pc' = pc /\ i' = i
      BY <2>1, <2>2
    <2>3. ASSUME NEW t \in Sessions, Launch_Loop(t)
          PROVE  /\ pc'[s] \notin {"begin", "clear", "transport"}
                 /\ pc'[s] \in {"place", "init"} => i'[s] > Video
      <3>1. pc[t] \notin {"begin", "clear", "transport"}
        BY <1>2 DEF Past
      <3>2. CASE t # s
        <4>1. pc'[s] = pc[s] /\ i'[s] = i[s]
          BY <2>3, <3>2 DEF Launch_Loop, Build, Teardown, Connect, ClearRegistry, InitTransport,
                  PlaceService, InitService, InitServiceFails, StartTimer, StopServing, SkipSlot,
                  DeleteService, FreeService, ClearSlot, DeleteTransport, Disconnect, Goto, TypeOK
        <4>2. QED
          BY <2>1, <4>1
      <3>3. CASE t = s
        <4>1. CASE PlaceService(s)
          BY <4>1, <2>1 DEF PlaceService, Goto, TypeOK
        <4>2. CASE InitService(s)
          BY <4>2, <2>1 DEF InitService, Goto, TypeOK
        <4>3. CASE InitServiceFails(s) \/ StartTimer(s) \/ StopServing(s) \/ Teardown(s)
          BY <4>3 DEF InitServiceFails, StartTimer, StopServing, Teardown, SkipSlot, DeleteService,
                      FreeService, ClearSlot, DeleteTransport, Disconnect, Goto, TypeOK
        <4>4. QED
          BY <2>3, <3>1, <3>3, <4>1, <4>2, <4>3
             DEF Launch_Loop, Build, Connect, ClearRegistry, InitTransport
      <3>4. QED
        BY <3>2, <3>3
    <2>4. QED
      BY <1>2, <2>2, <2>3 DEF Next, HttpThread, LaunchRest, Launch, LaunchJoin, LaunchSpawn,
                  LaunchBadBackend, LaunchReturn, Ping, VideoRequest, WriteContext, ResizeReturn,
                  Tick, RebuildFails, vars, sessionVars
  <1>3. CASE http \notin {"idle", "context"}
    BY <1>3 DEF Next, HttpThread, LaunchRest, Launch, LaunchJoin, LaunchSpawn, LaunchBadBackend,
                LaunchReturn, Ping, VideoRequest, WriteContext, ResizeReturn, Tick, RebuildFails,
                Launch_Loop, Build, Teardown, Connect, ClearRegistry, InitTransport, PlaceService,
                InitService, InitServiceFails, StartTimer, StopServing, SkipSlot, DeleteService,
                FreeService, ClearSlot, DeleteTransport, Disconnect, vars
  <1>4. QED
    BY <1>1, <1>2, <1>3

-----------------------------------------------------------------------------
(* The theorems *)

\* The invariant holds of every behaviour, with or without fairness.
LEMMA Invariance == Spec => []IInv
  <1>1. IInv /\ [Next]_vars => IInv'
    BY TypeStep, OwnershipStep, DisconnectedStep, RegistryStep, PastStep DEF IInv
  <1>2. QED
    BY InitIInv, <1>1, PTL DEF Spec

\* The variables of the session keep their types.
THEOREM TypeCorrect == Spec => []TypeOK
  BY Invariance, PTL DEF IInv

\* However many Launches are requested, and whatever fails in between, no two
\* session threads work on the shared THEMIS_EXT at the same time.
THEOREM OneSessionAtATime == Spec => []SingleSession
  <1>1. IInv => SingleSession
    BY DEF IInv, Ownership, SingleSession
  <1>2. QED
    BY Invariance, <1>1, PTL

\* Launch rewrites the context only when no session thread is left to read it.
THEOREM ConfiguresAlone == Spec => []ConfigureAlone
  <1>1. IInv => ConfigureAlone
    BY DEF IInv, Ownership, ConfigureAlone, TypeOK
  <1>2. QED
    BY Invariance, <1>1, PTL

\* The screen size is never written while a video server reads it to start.
THEOREM ContextKept == Spec => []ContextIsSteady
  <1>1. IInv => ContextIsSteady
    BY DEF IInv, TypeOK, Ownership, Alive, Past, ContextIsSteady
  <1>2. QED
    BY Invariance, <1>1, PTL

\* A lowered connected flag means that no session thread is building or
\* tearing down the registry.
THEOREM DisconnectedIsIdle == Spec => []DisconnectedMeansIdle
  BY Invariance, PTL DEF IInv

\* No service thread outlives the transport it sends on.
THEOREM SendersHaveTransport == Spec => []SenderHasTransport
  <1>1. IInv => SenderHasTransport
    BY DEF IInv, Registry, SendersAreUp, UpHasTransport, SenderHasTransport
  <1>2. QED
    BY Invariance, <1>1, PTL

\* A session that is over has left no service, thread or transport behind.
THEOREM CleanAfterEachSession == Spec => []CleanBetweenSessions
  <1>1. ASSUME IInv, ~connected, NEW s \in Sessions, pc[s] = "done"
        PROVE  /\ \A k \in Slots : service[k] = "NULL" /\ ~sender[k]
               /\ transport = "none"
    <2>1. \A t \in Sessions : pc[t] \in Early \cup {"done"}
      BY <1>1 DEF IInv, DisconnectedMeansIdle, Early
    <2>2. transport = "none" /\ \A k \in Slots : service[k] \in {"NULL", "garbage"}
      BY <1>1, <2>1 DEF IInv, Registry, NobodyBuilt
    <2>3. \A k \in Slots : service[k] # "garbage"
      BY <1>1 DEF IInv, Registry, Cleared, Early
    <2>4. QED
      BY <1>1, <2>2, <2>3 DEF IInv, Registry, SendersAreUp
  <1>2. IInv => CleanBetweenSessions
    BY <1>1 DEF CleanBetweenSessions
  <1>3. QED
    BY Invariance, <1>2, PTL

\* While a session is built or served, a lookup sees only whole services.
THEOREM LookupsAreWhole == Spec => []LookupFindsWholeServices
  <1>1. ASSUME IInv, NEW s \in Sessions, pc[s] \in {"place", "init", "serving"},
               NEW k \in 1..service_count
        PROVE  service[k] \in Whole
    <2>1. PhaseOf(s) /\ k \in Slots
      BY <1>1 DEF IInv, Registry, TypeOK
    <2>2. CASE pc[s] = "serving"
      BY <2>1, <2>2 DEF PhaseOf
    <2>3. CASE pc[s] \in {"place", "init"}
      <3>1. i[s] \in 1..N + 1 /\ k < i[s]
        BY <1>1, <2>1, <2>3 DEF IInv, TypeOK, PhaseOf
      <3>2. QED
        BY <2>1, <2>3, <3>1 DEF PhaseOf
    <2>4. QED
      BY <1>1, <2>2, <2>3
  <1>2. IInv => LookupFindsWholeServices
    BY <1>1 DEF LookupFindsWholeServices
  <1>3. QED
    BY Invariance, <1>2, PTL

(***************************************************************************)
(* The session threads implement SessionLease.                             *)
(***************************************************************************)

\* Facts about the mapped holder that every step needs.
LEMMA HolderIs ==
  ASSUME TypeOK, Ownership
  PROVE  /\ \A s \in Sessions : Alive(s) => Holder = s /\ s = launches /\ launches # 0
         /\ (\A s \in Sessions : ~Alive(s)) => Holder = 0
  BY DEF TypeOK, Ownership, Holder

\* A step that starts no thread, ends none and leaves the flag alone.
LEMMA LeaseStutters ==
  ASSUME TypeOK, UNCHANGED <<launches, connected>>,
         \A s \in Sessions : Alive(s)' <=> Alive(s)
  PROVE  UNCHANGED Lease!vars
  BY DEF Lease!vars, Holder

LEMMA LeaseStep ==
  ASSUME IInv, IInv', [Next]_vars
  PROVE  [Lease!Next]_(Lease!vars)
  <1> USE DEF IInv
  <1>1. CASE LaunchSpawn
    <2>1. \A s \in Sessions : ~Alive(s)
      BY <1>1 DEF LaunchSpawn, Ownership, TypeOK
    <2>2. PICK n \in Sessions : n = launches + 1
      BY <1>1 DEF LaunchSpawn, Ownership, TypeOK
    <2>3. launches' = n /\ n # 0 /\ pc'[n] = "begin"
      BY <1>1, <2>2 DEF LaunchSpawn, TypeOK
    <2>4. Holder' = n
      BY <2>3 DEF Holder, Alive
    <2>5. Holder = 0
      BY <2>1 DEF Holder
    <2>6. Lease!Grant
      BY <1>1, <2>2, <2>3, <2>4, <2>5 DEF LaunchSpawn, Lease!Grant
    <2>7. QED
      BY <2>6 DEF Lease!Next
  <1>2. ASSUME NEW s \in Sessions, Connect(s) PROVE [Lease!Next]_(Lease!vars)
    <2>1. Alive(s) /\ Alive(s)'
      BY <1>2 DEF Connect, Goto, Alive, TypeOK
    <2>2. Holder = s /\ Holder' = s /\ s # 0
      <3>1. launches' = launches /\ s = launches /\ s # 0
        BY <1>2, <2>1, HolderIs DEF Connect
      <3>2. QED
        BY <2>1, <3>1 DEF Holder
    <2>3. connected' /\ UNCHANGED <<launches, Holder>>
      BY <1>2, <2>2 DEF Connect
    <2>4. Lease!Show \/ UNCHANGED Lease!vars
      <3>1. CASE connected
        BY <2>3, <3>1 DEF Lease!vars, TypeOK
      <3>2. CASE ~connected
        BY <1>2, <2>2, <2>3, <3>2 DEF Lease!Show, Connect
      <3>3. QED
        BY <3>1, <3>2
    <2>5. QED
      BY <2>4 DEF Lease!Next
  <1>3. ASSUME NEW s \in Sessions, Disconnect(s) PROVE [Lease!Next]_(Lease!vars)
    <2>1. Alive(s) /\ ~Alive(s)'
      BY <1>3 DEF Disconnect, Goto, Alive, TypeOK
    <2>2. \A t \in Sessions : ~Alive(t)'
      BY <1>3, <2>1 DEF Disconnect, Goto, Ownership, Alive, TypeOK
    <2>3. Holder' = 0
      BY <2>2 DEF Holder, Alive
    <2>4. connected
      BY <1>3 DEF Disconnect, DisconnectedMeansIdle
    <2>5. Lease!GiveBack
      BY <1>3, <2>3, <2>4 DEF Disconnect, Lease!GiveBack
    <2>6. QED
      BY <2>5 DEF Lease!Next
  <1>4. ASSUME \/ Launch \/ LaunchJoin \/ LaunchBadBackend \/ LaunchReturn \/ Ping
               \/ VideoRequest \/ WriteContext \/ ResizeReturn \/ Tick \/ RebuildFails
               \/ UNCHANGED vars
        PROVE  UNCHANGED Lease!vars
    <2>1. UNCHANGED <<launches, connected, pc>>
      BY <1>4 DEF Launch, LaunchJoin, LaunchBadBackend, LaunchReturn, Ping, VideoRequest,
                  WriteContext, ResizeReturn, Tick, RebuildFails, vars, sessionVars
    <2>2. QED
      BY <2>1, LeaseStutters DEF Alive
  <1>5. ASSUME NEW s \in Sessions,
               \/ ClearRegistry(s) \/ InitTransport(s) \/ PlaceService(s) \/ InitService(s)
               \/ InitServiceFails(s) \/ StartTimer(s) \/ StopServing(s) \/ SkipSlot(s)
               \/ DeleteService(s) \/ FreeService(s) \/ ClearSlot(s) \/ DeleteTransport(s)
        PROVE  UNCHANGED Lease!vars
    <2>1. /\ UNCHANGED <<launches, connected>>
          /\ Alive(s) /\ (pc' = pc \/ \E phase \in Phases \ {"unborn", "done"} : Goto(s, phase))
      BY <1>5 DEF ClearRegistry, InitTransport, PlaceService, InitService, InitServiceFails,
                  StartTimer, StopServing, SkipSlot, DeleteService, FreeService, ClearSlot,
                  DeleteTransport, Alive, Phases
    <2>2. \A t \in Sessions : Alive(t)' <=> Alive(t)
      BY <2>1 DEF Goto, Alive, TypeOK
    <2>3. QED
      BY <2>1, <2>2, LeaseStutters
  <1>6. QED
    BY <1>1, <1>2, <1>3, <1>4, <1>5
       DEF Next, HttpThread, LaunchRest, Launch_Loop, Build, Teardown

\* Every behaviour of the HTTP thread and the session threads, seen through
\* the mapping, is a behaviour of the abstract lease.
THEOREM LeaseRefinement == Spec => ImplementsLease
  <1>1. Init => Lease!Init
    BY DEF Init, Lease!Init, Holder
  <1>2. IInv /\ IInv' /\ [Next]_vars => [Lease!Next]_(Lease!vars)
    BY LeaseStep
  <1>3. QED
    BY <1>1, <1>2, Invariance, PTL DEF Spec, Lease!Spec, ImplementsLease
=============================================================================
