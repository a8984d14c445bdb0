----------------------------- MODULE SessionLease -----------------------------
(***************************************************************************)
(* What Launch promises its caller: the desktop is leased to one session   *)
(* thread at a time.  A lease is granted only while none is held, shows up *)
(* in `connected' some time after it was granted, and the flag goes down   *)
(* exactly when the lease is given back - never while it is held, never    *)
(* without having been up.                                                 *)
(***************************************************************************)
EXTENDS Naturals

VARIABLES
  holder,   \* the session holding the lease, 0 if none
  granted,  \* how many leases were granted
  shown     \* what Check answers

vars == <<holder, granted, shown>>

Init ==
  /\ holder = 0
  /\ granted = 0
  /\ shown = FALSE

Grant ==
  /\ holder = 0
  /\ granted' = granted + 1
  /\ holder' = granted + 1
  /\ UNCHANGED shown

Show ==
  /\ holder # 0
  /\ ~shown
  /\ shown' = TRUE
  /\ UNCHANGED <<holder, granted>>

GiveBack ==
  /\ shown
  /\ holder' = 0
  /\ shown' = FALSE
  /\ UNCHANGED granted

Next == Grant \/ Show \/ GiveBack

Spec == Init /\ [][Next]_vars
===============================================================================
