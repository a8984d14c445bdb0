----------------------------- MODULE IndexQueue -----------------------------
(***************************************************************************)
(* The queue of INDEX_QUEUE.cpp, which hands out the indices minimum to     *)
(* maximum.  A captured index is a mark in a table; the search for a free   *)
(* one goes round the table from where the last search ended.  The counter  *)
(* behind it has a fixed width and only ever goes up, which ends the search *)
(* for good when it comes within two turns of its largest value.            *)
(*                                                                          *)
(* Every operation holds the mutex from its first to its last access of the *)
(* table, except the read of Is_Captured_INDEX_QUEUE (line 69), whose       *)
(* answer nothing here depends on; so each operation is one action.         *)
(***************************************************************************)
EXTENDS Integers

CONSTANTS
    Users,      \* the threads that share the queue
    W,          \* 2^32: the values of a uint32_t are 0 .. W - 1
    minimum,    \* the range given to Initialize_INDEX_QUEUE
    maximum

ASSUME IndexQueueAssumption ==
    /\ W \in Nat \ {0}
    /\ minimum \in 0 .. W - 1
    /\ maximum \in 0 .. W - 1

VARIABLES
    occupied,   \* the offsets in the table that are marked
    index,      \* where the search goes on, modulo the capacity
    locked,     \* the mutex is held and its holder will not let go
    held        \* the indices each user has captured and not released

queueVars == <<occupied, index, locked, held>>

-----------------------------------------------------------------------------

capacity == ((maximum - minimum) + 1) % W

(***************************************************************************)
(* Whether there is a table: not if the range is empty or reversed, nor if  *)
(* maximum is the largest value, where maximum + 1 is 0.                    *)
(***************************************************************************)
HasTable == capacity > 0 /\ capacity <= (maximum + 1) % W

Offsets == 0 .. capacity - 1

QueueInit ==
    /\ occupied = {}
    /\ index = 0
    /\ locked = FALSE
    /\ held = [u \in Users |-> {}]

-----------------------------------------------------------------------------

\* Mutant: one turn less than half a table.
end_Short == (index + capacity \div 2) % W

\* Mutant: the bound is kept from wrapping.
end_Clamped == IF index + capacity * 2 < W THEN index + capacity * 2 ELSE W - 1

\* The last value of index that the loop of Capture tries.
end == (index + capacity * 2) % W

\* The values of index that the loop finds free; none at all if end has wrapped.
Free == {k \in index .. end : k % capacity \notin occupied}

\* Mutant: the entry found is not marked.
CaptureFound_Unmarked(u) ==
    /\ ~locked /\ HasTable
    /\ \E k \in Free :
          /\ \A j \in Free : k <= j
          /\ index' = k
          /\ held' = [held EXCEPT ![u] = @ \cup {minimum + (k % capacity)}]
    /\ UNCHANGED <<occupied, locked>>

\* Capture_INDEX_QUEUE returns the first free index.
CaptureFound(u) ==
    /\ ~locked /\ HasTable
    /\ \E k \in Free :
          /\ \A j \in Free : k <= j
          /\ occupied' = occupied \cup {k % capacity}
          /\ index' = k
          /\ held' = [held EXCEPT ![u] = @ \cup {minimum + (k % capacity)}]
    /\ UNCHANGED locked

\* It returns -1 behind the last value tried.
CaptureRefused(u) ==
    /\ ~locked /\ HasTable
    /\ Free = {}
    /\ end # W - 1
    /\ index' = IF end < index THEN index ELSE end + 1
    /\ UNCHANGED <<occupied, locked, held>>

\* No value is larger than end: the loop never ends.
CaptureSpins(u) ==
    /\ ~locked /\ HasTable
    /\ Free = {}
    /\ end = W - 1
    /\ locked' = TRUE
    /\ UNCHANGED <<occupied, index, held>>

\* Capture of a given index locks the mutex again in Is_Captured_INDEX_QUEUE.
CaptureGiven(u) ==
    /\ ~locked /\ HasTable
    /\ locked' = TRUE
    /\ UNCHANGED <<occupied, index, held>>

(***************************************************************************)
(* Release_INDEX_QUEUE; users give back only what they have captured, so    *)
(* its test of the range is always met.                                     *)
(***************************************************************************)
Release(u, i) ==
    /\ ~locked
    /\ i \in held[u]
    /\ occupied' = occupied \ {i - minimum}
    /\ held' = [held EXCEPT ![u] = @ \ {i}]
    /\ UNCHANGED <<index, locked>>

\* Release_All_INDEX_QUEUE ends every capture, whoever holds it.
ReleaseAll ==
    /\ ~locked /\ HasTable
    /\ occupied' = {}
    /\ held' = [u \in Users |-> {}]
    /\ UNCHANGED <<index, locked>>

QueueNext ==
    \/ ReleaseAll
    \/ \E u \in Users :
          \/ CaptureFound(u)
          \/ CaptureRefused(u)
          \/ CaptureSpins(u)
          \/ CaptureGiven(u)
          \/ \E i \in held[u] : Release(u, i)

QueueSpec == QueueInit /\ [][QueueNext]_queueVars

-----------------------------------------------------------------------------

QueueTypeOK ==
    /\ occupied \subseteq Offsets
    /\ index \in 0 .. W - 1
    /\ locked \in BOOLEAN
    /\ held \in [Users -> SUBSET (0 .. W - 1)]

(***************************************************************************)
(* What is captured lies in the range asked for, and its marks are exactly  *)
(* the marks of the table: no capture is lost, and none is left behind.     *)
(***************************************************************************)
MarksAreCaptures ==
    /\ \A u \in Users : \A i \in held[u] : i \in minimum .. maximum /\ i - minimum \in occupied
    /\ \A o \in occupied : \E u \in Users : minimum + o \in held[u]

(***************************************************************************)
(* An index belongs to one user at a time.                                  *)
(***************************************************************************)
Exclusive == \A u, v \in Users : u # v => held[u] \cap held[v] = {}

\* The counter is so large that the bound of the search wraps.
Exhausted == index + 2 * capacity >= W

(***************************************************************************)
(* Capture_INDEX_QUEUE refuses only when no index is free, as long as its   *)
(* counter is not exhausted: two turns see every entry, wherever they start.*)
(***************************************************************************)
RefusesOnlyWhenFull ==
    [][(\E u \in Users : CaptureRefused(u)) => occupied = Offsets \/ Exhausted]_queueVars

(***************************************************************************)
(* Once its counter is exhausted the queue never grants an index again,     *)
(* however many are released (line 40: end is then smaller than index).     *)
(***************************************************************************)
ExhaustedForGood ==
    [][Exhausted => index' = index /\ \A u \in Users : held'[u] \subseteq held[u]]_queueVars
=============================================================================
