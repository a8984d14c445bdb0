---------------------------- MODULE LastElements ----------------------------
(***************************************************************************)
(* What a circular array promises its reader: a contiguous view of the     *)
(* last QueueSize payloads that were put, oldest first, padded with blanks  *)
(* until so many have been put.                                             *)
(***************************************************************************)
EXTENDS Integers

CONSTANTS
    Payloads,   \* the contents of one element
    Blank,      \* an element of zero bytes
    QueueSize   \* C_ARRAY_QUEUE_SIZE

VARIABLE window

Init == window = [k \in 1..QueueSize |-> Blank]

Push(v) == window' = [k \in 1..QueueSize |-> IF k = QueueSize THEN v ELSE window[k + 1]]

Next == \E v \in Payloads : Push(v)

Spec == Init /\ [][Next]_window
=============================================================================
