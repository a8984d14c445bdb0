------------------------------- MODULE CArray -------------------------------
(***************************************************************************)
(* The circular array of C_ARRAY.cpp.  It keeps its last QueueSize elements *)
(* contiguous, so that a reader can be given a pointer instead of a copy:   *)
(* what is written in the last QueueSize - 1 slots is mirrored at the       *)
(* front, and at the end of the array writing goes on behind the mirror.    *)
(*                                                                          *)
(* An element is one slot: the number of slots left that the code computes  *)
(* from byte offsets is Slots - slot, whatever the size of an element.      *)
(***************************************************************************)
EXTENDS Integers

CONSTANTS
    Payloads,   \* the contents of one element
    Blank,      \* an element of zero bytes, which memset leaves everywhere
    QueueSize,  \* C_ARRAY_QUEUE_SIZE
    Slots       \* C_ARRAY_SIZE / elem_size

(***************************************************************************)
(* Initialize_C_ARRAY reports false unless half of the slots are more than  *)
(* a window; the array is used only after it reported true.                 *)
(***************************************************************************)
ASSUME CArrayAssumption ==
    /\ QueueSize \in Nat \ {0}
    /\ Slots \in Nat
    /\ Slots \div 2 > QueueSize
    /\ Blank \in Payloads

VARIABLES
    data,
    slot    \* the field `index': where the next element goes

cArrayVars == <<data, slot>>

Indices == 0 .. Slots - 1

CArrayInit ==
    /\ data = [i \in Indices |-> Blank]
    /\ slot = QueueSize

-----------------------------------------------------------------------------

SlotsLeft == Slots - slot

\* Where Put_C_ARRAY writes, and then counts on from.
WriteAt == IF SlotsLeft = 0 THEN QueueSize - 1 ELSE slot

\* Mutant: the copy lands one slot further.
MirrorAt_OffByOne ==
    IF SlotsLeft > 0 /\ SlotsLeft < QueueSize THEN {QueueSize - SlotsLeft} ELSE {}

\* The slots that get a copy as well: none, or one at the front.
MirrorAt ==
    IF SlotsLeft > 0 /\ SlotsLeft < QueueSize
    THEN {QueueSize - (SlotsLeft + 1)}
    ELSE {}

Put(v) ==
    /\ data' = [i \in Indices |-> IF i \in MirrorAt \cup {WriteAt} THEN v ELSE data[i]]
    /\ slot' = WriteAt + 1

\* Get_C_ARRAY: a pointer to QueueSize elements that end before slot.
Get == [k \in 1..QueueSize |-> data[slot - QueueSize + k - 1]]

CArrayNext == \E v \in Payloads : Put(v)

CArraySpec == CArrayInit /\ [][CArrayNext]_cArrayVars

-----------------------------------------------------------------------------

(***************************************************************************)
(* A write at slot and the window before it stay inside the array.          *)
(***************************************************************************)
CArrayTypeOK ==
    /\ data \in [Indices -> Payloads]
    /\ slot \in QueueSize .. Slots

(***************************************************************************)
(* Whatever has been written in the last QueueSize - 1 slots is already     *)
(* repeated at the front, so that the window is complete at the moment      *)
(* writing starts over.                                                     *)
(***************************************************************************)
TailIsMirrored ==
    \A i \in Indices :
        (Slots - QueueSize < i /\ i < slot) => data[i + QueueSize - 1 - Slots] = data[i]

(***************************************************************************)
(* The window that Get_C_ARRAY points to is the last QueueSize elements in  *)
(* the order in which they were put, across any number of turns.            *)
(***************************************************************************)
LE == INSTANCE LastElements WITH window <- Get
ShowsLastElements == LE!Spec
=============================================================================
