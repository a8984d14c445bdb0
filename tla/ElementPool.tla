----------------------------- MODULE ElementPool -----------------------------
(***************************************************************************)
(* What every transport promises of its fixed stock of elements: one at a  *)
(* time goes from the pool into use and back.  Only while the transport    *)
(* closes may an element leave the circle, and it is closed when none is   *)
(* left in it.  Implemented by WsServerMaster and UdpMaster.               *)
(***************************************************************************)
EXTENDS Naturals

CONSTANT Size   \* the elements made by Initialize

VARIABLES
  free,   \* elements in the pool
  busy,   \* elements in a queue or in somebody's hands
  gone,   \* elements deleted or forgotten
  phase   \* "open", "closing" or "closed"

poolVars == <<free, busy, gone, phase>>

Fill == free = Size /\ busy = 0 /\ gone = 0 /\ phase \in {"open", "closing"}

Take ==
  /\ free > 0
  /\ free' = free - 1 /\ busy' = busy + 1
  /\ UNCHANGED <<gone, phase>>

Give ==
  /\ busy > 0
  /\ busy' = busy - 1 /\ free' = free + 1
  /\ UNCHANGED <<gone, phase>>

Remove ==
  /\ phase = "closing"
  /\ gone' = gone + 1
  /\ \/ free > 0 /\ free' = free - 1 /\ UNCHANGED busy
     \/ busy > 0 /\ busy' = busy - 1 /\ UNCHANGED free
  /\ UNCHANGED phase

Turn ==
  /\ phase # "closed"
  /\ phase' \in {"open", "closing", "closed"}
  /\ phase' = "closed" => gone = Size
  /\ UNCHANGED <<free, busy, gone>>

Step == Take \/ Give \/ Remove \/ Turn

PoolSpec == Fill /\ [][Step]_poolVars
=============================================================================
