--------------------------- MODULE Utilities_proofs ---------------------------
(***************************************************************************)
(* The utilities that hold no thread of their own: the circular array, the *)
(* index queue and the text converter, each for every value of its         *)
(* constants.  The three share nothing but the arguments about integers.   *)
(***************************************************************************)
EXTENDS CArray, IndexQueue, Converter, FiniteSetTheorems, TLAPS

-----------------------------------------------------------------------------
(***************************************************************************)
(* The circular array shows the last elements for every size of the window, *)
(* every number of slots that Initialize_C_ARRAY accepts and any payloads.  *)
(***************************************************************************)

(***************************************************************************)
(* The inductive invariant: the window alone is not enough, since a turn    *)
(* needs the front of the array to repeat the end of it.                    *)
(***************************************************************************)
CArrayIInv == CArrayTypeOK /\ TailIsMirrored

(***************************************************************************)
(* Two windows and a slot fit: the only use the proofs make of the test in  *)
(* Initialize_C_ARRAY (C_ARRAY.cpp:10).                                     *)
(***************************************************************************)
LEMMA TwoWindowsFit == Slots \in Nat /\ QueueSize \in Nat \ {0} /\ Slots >= 2 * QueueSize + 2
  BY CArrayAssumption

\* A copy is never written on the slot that the same call writes.
LEMMA MirrorIsApart ==
  ASSUME CArrayTypeOK
  PROVE  /\ WriteAt \in Indices
         /\ WriteAt \in QueueSize - 1 .. Slots - 1
         /\ MirrorAt \subseteq 0 .. QueueSize - 2
         /\ WriteAt \notin MirrorAt
  BY TwoWindowsFit DEF CArrayTypeOK, Indices, WriteAt, MirrorAt, SlotsLeft

(***************************************************************************)
(* The array starts with a mirrored tail and every Put_C_ARRAY keeps it.    *)
(***************************************************************************)
LEMMA CArrayInitIInv == CArrayInit => CArrayIInv
  BY CArrayAssumption, TwoWindowsFit DEF CArrayInit, CArrayIInv, CArrayTypeOK, TailIsMirrored, Indices

LEMMA NextTypeOK ==
  ASSUME CArrayTypeOK, NEW v \in Payloads, Put(v)
  PROVE  CArrayTypeOK'
  BY TwoWindowsFit, MirrorIsApart DEF CArrayTypeOK, Put, WriteAt, MirrorAt, SlotsLeft, Indices

LEMMA NextTail ==
  ASSUME CArrayIInv, NEW v \in Payloads, Put(v)
  PROVE  TailIsMirrored'
<1>. SUFFICES ASSUME NEW i \in Indices, Slots - QueueSize < i, i < slot'
              PROVE  data'[i + QueueSize - 1 - Slots] = data'[i]
  BY DEF TailIsMirrored
<1>. DEFINE front == i + QueueSize - 1 - Slots
<1>1. front \in Indices /\ front <= QueueSize - 2
  BY TwoWindowsFit DEF Indices
<1>2. SlotsLeft # 0 /\ WriteAt = slot /\ i <= slot /\ slot \in Nat
  BY TwoWindowsFit DEF CArrayIInv, CArrayTypeOK, Put, WriteAt, SlotsLeft, Indices
<1>3. CASE i = slot
  <2>1. MirrorAt = {front}
    BY <1>2, <1>3, TwoWindowsFit DEF MirrorAt, SlotsLeft, CArrayIInv, CArrayTypeOK, Indices
  <2>. QED  BY <1>1, <1>2, <1>3, <2>1 DEF Put
<1>4. CASE i < slot
  <2>1. data[front] = data[i]
    BY <1>4 DEF CArrayIInv, TailIsMirrored
  <2>2. front # WriteAt /\ front \notin MirrorAt
    BY <1>1, <1>2, <1>4, TwoWindowsFit DEF MirrorAt, SlotsLeft, CArrayIInv, CArrayTypeOK, Indices
  <2>3. i # WriteAt /\ i \notin MirrorAt
    BY <1>2, <1>4, TwoWindowsFit, MirrorIsApart DEF CArrayIInv, Indices
  <2>. QED  BY <1>1, <2>1, <2>2, <2>3 DEF Put
<1>. QED  BY <1>2, <1>3, <1>4, TwoWindowsFit DEF Indices

(***************************************************************************)
(* Reads and writes stay inside the array.                                  *)
(***************************************************************************)
THEOREM IndexInArray == CArraySpec => []CArrayTypeOK
<1>1. CArrayInit => CArrayTypeOK
  BY CArrayInitIInv DEF CArrayIInv
<1>2. CArrayTypeOK /\ [CArrayNext]_cArrayVars => CArrayTypeOK'
  BY NextTypeOK DEF CArrayNext, cArrayVars, CArrayTypeOK
<1>. QED  BY <1>1, <1>2, PTL DEF CArraySpec

(***************************************************************************)
(* The end of the array is repeated at its front whenever it matters.       *)
(***************************************************************************)
THEOREM MirrorHolds == CArraySpec => []CArrayIInv
<1>1. CArrayIInv /\ [CArrayNext]_cArrayVars => CArrayIInv'
  <2>1. ASSUME CArrayIInv, NEW v \in Payloads, Put(v) PROVE CArrayIInv'
    BY <2>1, NextTypeOK, NextTail DEF CArrayIInv
  <2>2. CASE UNCHANGED cArrayVars
    BY <2>2 DEF cArrayVars, CArrayIInv, CArrayTypeOK, TailIsMirrored
  <2>. QED  BY <2>1, <2>2 DEF CArrayNext
<1>. QED  BY <1>1, CArrayInitIInv, PTL DEF CArraySpec

-----------------------------------------------------------------------------

\* The window starts blank.
LEMMA InitWindow == CArrayInit => LE!Init
  BY TwoWindowsFit DEF CArrayInit, LE!Init, Get, Indices

\* Put_C_ARRAY drops the oldest element of the window and appends the new one.
LEMMA PutPushes ==
  ASSUME CArrayIInv, NEW v \in Payloads, Put(v)
  PROVE  LE!Push(v)
<1>. SUFFICES ASSUME NEW k \in 1..QueueSize
              PROVE  data'[slot' - QueueSize + k - 1] =
                        IF k = QueueSize THEN v ELSE Get[k + 1]
  BY DEF LE!Push, Get
<1>1. slot \in QueueSize .. Slots
  BY DEF CArrayIInv, CArrayTypeOK
<1>2. WriteAt \in Indices /\ slot' = WriteAt + 1 /\ data'[WriteAt] = v
  BY MirrorIsApart DEF CArrayIInv, Put
<1>3. CASE k = QueueSize
  BY <1>1, <1>2, <1>3, TwoWindowsFit DEF Indices
<1>4. CASE k < QueueSize
  <2>. DEFINE old == WriteAt - QueueSize + k
  <2>1. old \in Indices /\ old # WriteAt /\ slot' - QueueSize + k - 1 = old
    BY <1>1, <1>2, <1>4, TwoWindowsFit DEF Indices, WriteAt, SlotsLeft
  <2>2. old \notin MirrorAt
    BY <1>1, <1>4, TwoWindowsFit DEF Indices, WriteAt, SlotsLeft, MirrorAt
  <2>3. data'[old] = data[old]
    BY <2>1, <2>2 DEF Put
  <2>4. Get[k + 1] = data[slot - QueueSize + k]
    BY <1>1, <1>4, TwoWindowsFit DEF Get
  <2>5. CASE SlotsLeft # 0
    BY <2>5, <2>1, <2>3, <2>4, <1>4 DEF WriteAt
  <2>6. CASE SlotsLeft = 0
    <3>1. slot = Slots /\ WriteAt = QueueSize - 1 /\ old = k - 1
      BY <2>6, <1>1, TwoWindowsFit DEF SlotsLeft, WriteAt
    <3>2. data[k - 1] = data[Slots - QueueSize + k]
      <4>1. (Slots - QueueSize + k) + QueueSize - 1 - Slots = k - 1
        BY <1>4, TwoWindowsFit
      <4>2. Slots - QueueSize + k \in Indices
        BY <1>4, TwoWindowsFit DEF Indices
      <4>. QED  BY <4>1, <4>2, <3>1, <1>4, TwoWindowsFit DEF CArrayIInv, TailIsMirrored
    <3>. QED  BY <3>1, <3>2, <2>1, <2>3, <2>4, <1>4
  <2>. QED  BY <2>5, <2>6
<1>. QED  BY <1>3, <1>4, TwoWindowsFit

(***************************************************************************)
(* The array implements its abstract specification: a reader of             *)
(* Get_C_ARRAY sees the last QueueSize elements, in order, for ever.        *)
(***************************************************************************)
THEOREM WindowRefinement == CArraySpec => ShowsLastElements
<1>1. CArrayIInv /\ [CArrayNext]_cArrayVars => [LE!Next]_Get
  <2>1. ASSUME CArrayIInv, NEW v \in Payloads, Put(v) PROVE LE!Next
    BY <2>1, PutPushes DEF LE!Next
  <2>2. CASE UNCHANGED cArrayVars
    BY <2>2 DEF cArrayVars, Get
  <2>. QED  BY <2>1, <2>2 DEF CArrayNext
<1>. QED  BY <1>1, InitWindow, MirrorHolds, PTL DEF CArraySpec, LE!Spec, ShowsLastElements

-----------------------------------------------------------------------------
(***************************************************************************)
(* The index queue never gives an index to two users, for any number of     *)
(* users, any width of its counters and any range.                          *)
(***************************************************************************)

(***************************************************************************)
(* Exclusive is not inductive: a search trusts the marks, so the marks have *)
(* to be the captures.                                                      *)
(***************************************************************************)
QueueIInv == QueueTypeOK /\ MarksAreCaptures /\ Exclusive

(***************************************************************************)
(* If Initialize_INDEX_QUEUE makes a table (INDEX_QUEUE.cpp:11), its size   *)
(* is the length of the range, although it was computed modulo 2^32.        *)
(***************************************************************************)
LEMMA TableFitsRange ==
  ASSUME HasTable
  PROVE  /\ capacity \in Nat \ {0}
         /\ minimum + capacity = maximum + 1
         /\ maximum + 1 < W
<1>. DEFINE length == (maximum - minimum) + 1
<1>1. W \in Nat \ {0} /\ minimum \in 0 .. W - 1 /\ maximum \in 0 .. W - 1
  BY IndexQueueAssumption
<1>2. capacity = length % W /\ length \in Int /\ -W < length /\ length <= W
  BY <1>1 DEF capacity
<1>3. capacity \in 0 .. W - 1
  BY <1>1, <1>2
<1>4. maximum + 1 < W
  <2>1. CASE maximum = W - 1
    BY <2>1, <1>1, <1>3 DEF HasTable
  <2>2. CASE maximum < W - 1
    BY <2>2, <1>1
  <2>. QED  BY <2>1, <2>2, <1>1
<1>5. capacity > 0 /\ capacity <= maximum + 1
  BY <1>1, <1>4 DEF HasTable
<1>6. CASE length < 0
  <2>1. capacity = length + W
    BY <1>1, <1>2, <1>6
  <2>. QED  BY <2>1, <1>1, <1>5
<1>7. CASE length >= 0
  <2>1. length < W
    BY <1>1, <1>4
  <2>2. capacity = length
    BY <1>1, <1>2, <1>7, <2>1
  <2>. QED  BY <2>2, <1>1, <1>3, <1>4, <1>5
<1>. QED  BY <1>2, <1>6, <1>7

\* A free value of index stands for an unmarked entry of the table.
LEMMA FreeIsUnmarked ==
  ASSUME QueueTypeOK, HasTable, NEW k \in Free
  PROVE  /\ k \in 0 .. W - 1
         /\ k % capacity \in Offsets
         /\ k % capacity \notin occupied
<1>1. W \in Nat \ {0} /\ index \in 0 .. W - 1 /\ capacity \in Nat \ {0}
  BY IndexQueueAssumption, TableFitsRange DEF QueueTypeOK
<1>2. end \in 0 .. W - 1
  BY <1>1 DEF end
<1>3. k \in index .. end /\ k % capacity \notin occupied
  BY DEF Free
<1>4. k \in 0 .. W - 1
  BY <1>1, <1>2, <1>3
<1>5. k % capacity \in 0 .. capacity - 1
  BY <1>1, <1>4
<1>. QED  BY <1>3, <1>4, <1>5 DEF Offsets

-----------------------------------------------------------------------------

LEMMA QueueInitIInv == QueueInit => QueueIInv
<1>. SUFFICES ASSUME QueueInit PROVE QueueIInv
  OBVIOUS
<1>1. 0 \in 0 .. W - 1
  BY IndexQueueAssumption
<1>2. QueueTypeOK
  BY <1>1 DEF QueueInit, QueueTypeOK
<1>3. MarksAreCaptures /\ Exclusive
  BY DEF QueueInit, MarksAreCaptures, Exclusive
<1>. QED  BY <1>2, <1>3 DEF QueueIInv

\* A capture marks an entry nobody had marked and adds its index to one user.
LEMMA FoundKeeps ==
  ASSUME QueueIInv, NEW u \in Users, CaptureFound(u)
  PROVE  QueueIInv'
<1>1. HasTable
  BY DEF CaptureFound
<1>2. PICK k \in Free :
         /\ occupied' = occupied \cup {k % capacity}
         /\ index' = k
         /\ held' = [held EXCEPT ![u] = @ \cup {minimum + (k % capacity)}]
         /\ locked' = locked
  BY DEF CaptureFound
<1>. DEFINE o == k % capacity
<1>3. o \in Offsets /\ o \notin occupied /\ k \in 0 .. W - 1
  BY <1>1, FreeIsUnmarked DEF QueueIInv
<1>4. /\ W \in Nat \ {0} /\ minimum \in Nat /\ maximum \in Nat /\ capacity \in Nat \ {0}
      /\ minimum + capacity = maximum + 1 /\ maximum + 1 < W
  BY <1>1, TableFitsRange, IndexQueueAssumption
<1>5. o \in Nat /\ minimum + o \in minimum .. maximum /\ minimum + o \in 0 .. W - 1
      /\ (minimum + o) - minimum = o
  <2>. HIDE DEF o
  <2>. QED  BY <1>3, <1>4 DEF Offsets
<1>. HIDE DEF o
<1>6. held' = [held EXCEPT ![u] = @ \cup {minimum + o}] /\ occupied' = occupied \cup {o}
  BY <1>2 DEF o
<1>7. \A v \in Users : held'[v] = IF v = u THEN held[v] \cup {minimum + o} ELSE held[v]
  BY <1>6 DEF QueueIInv, QueueTypeOK
<1>8. QueueTypeOK'
  <2>1. held' \in [Users -> SUBSET (0 .. W - 1)]
    BY <1>5, <1>6 DEF QueueIInv, QueueTypeOK
  <2>. QED  BY <2>1, <1>2, <1>3, <1>6 DEF QueueIInv, QueueTypeOK, Offsets
<1>9. \A v \in Users : minimum + o \notin held[v]
  BY <1>3, <1>5 DEF QueueIInv, MarksAreCaptures
<1>10. MarksAreCaptures'
  <2>1. ASSUME NEW v \in Users, NEW i \in held'[v]
        PROVE  i \in minimum .. maximum /\ i - minimum \in occupied'
    BY <2>1, <1>5, <1>6, <1>7 DEF QueueIInv, MarksAreCaptures
  <2>2. ASSUME NEW p \in occupied'
        PROVE  \E v \in Users : minimum + p \in held'[v]
    <3>1. CASE p = o
      <4>1. minimum + p \in held'[u]
        BY <3>1, <1>7
      <4>. QED  BY <4>1
    <3>2. CASE p \in occupied
      <4>1. PICK v \in Users : minimum + p \in held[v]
        BY <3>2 DEF QueueIInv, MarksAreCaptures
      <4>2. minimum + p \in held'[v]
        BY <4>1, <1>7
      <4>. QED  BY <4>2
    <3>. QED  BY <2>2, <3>1, <3>2, <1>6
  <2>. QED  BY <2>1, <2>2 DEF MarksAreCaptures
<1>11. Exclusive'
  BY <1>7, <1>9 DEF QueueIInv, Exclusive
<1>. QED  BY <1>8, <1>10, <1>11 DEF QueueIInv

\* A release takes one index from its holder, and that entry's mark with it.
LEMMA ReleaseKeeps ==
  ASSUME QueueIInv, NEW u \in Users, NEW i \in held[u], Release(u, i)
  PROVE  QueueIInv'
<1>1. \A v \in Users : held'[v] = IF v = u THEN held[v] \ {i} ELSE held[v]
  BY DEF Release, QueueIInv, QueueTypeOK
<1>2. W \in Nat /\ minimum \in Nat
  BY IndexQueueAssumption
<1>3. QueueTypeOK'
  BY DEF Release, QueueIInv, QueueTypeOK
<1>4. ASSUME NEW v \in Users, NEW j \in held'[v]
      PROVE  j \in minimum .. maximum /\ j - minimum \in occupied'
  <2>1. j \in held[v] /\ j # i
    BY <1>4, <1>1 DEF QueueIInv, Exclusive
  <2>2. j \in minimum .. maximum /\ j - minimum \in occupied /\ i \in minimum .. maximum
    BY <2>1 DEF QueueIInv, MarksAreCaptures
  <2>3. j - minimum # i - minimum
    BY <2>1, <2>2, <1>2, IndexQueueAssumption
  <2>. QED  BY <2>2, <2>3 DEF Release
<1>5. ASSUME NEW p \in occupied'
      PROVE  \E v \in Users : minimum + p \in held'[v]
  <2>1. p \in occupied /\ p # i - minimum
    BY <1>5 DEF Release
  <2>2. PICK v \in Users : minimum + p \in held[v]
    BY <2>1 DEF QueueIInv, MarksAreCaptures
  <2>3. p \in Int /\ i \in Int
    <3>1. capacity \in Int
      BY IndexQueueAssumption DEF capacity
    <3>2. p \in Offsets /\ i \in 0 .. W - 1
      BY <2>1 DEF QueueIInv, QueueTypeOK
    <3>. QED  BY <3>1, <3>2, <1>2 DEF Offsets
  <2>4. minimum + p # i
    BY <2>1, <2>3, <1>2
  <2>. QED  BY <2>2, <2>4, <1>1
<1>6. Exclusive'
  BY <1>1 DEF QueueIInv, Exclusive
<1>. QED  BY <1>3, <1>4, <1>5, <1>6 DEF QueueIInv, MarksAreCaptures

\* Everything else leaves marks and captures alone, or ends them all together.
LEMMA OthersKeep ==
  ASSUME QueueIInv,
         ReleaseAll \/ UNCHANGED queueVars
            \/ \E u \in Users : CaptureRefused(u) \/ CaptureSpins(u) \/ CaptureGiven(u)
  PROVE  QueueIInv'
<1>1. CASE ReleaseAll
  BY <1>1 DEF ReleaseAll, QueueIInv, QueueTypeOK, MarksAreCaptures, Exclusive
<1>2. CASE UNCHANGED queueVars
  BY <1>2 DEF queueVars, QueueIInv, QueueTypeOK, MarksAreCaptures, Exclusive
<1>3. ASSUME NEW u \in Users, CaptureRefused(u)
      PROVE  QueueIInv'
  <2>1. index' \in 0 .. W - 1
    <3>1. W \in Nat \ {0} /\ index \in 0 .. W - 1 /\ capacity \in Nat
      BY IndexQueueAssumption DEF QueueIInv, QueueTypeOK, capacity
    <3>2. end \in 0 .. W - 1
      BY <3>1 DEF end
    <3>. QED  BY <1>3, <3>1, <3>2 DEF CaptureRefused
  <2>. QED  BY <1>3, <2>1 DEF CaptureRefused, QueueIInv, QueueTypeOK, MarksAreCaptures, Exclusive
<1>4. ASSUME NEW u \in Users, CaptureSpins(u) \/ CaptureGiven(u)
      PROVE  QueueIInv'
  BY <1>4 DEF CaptureSpins, CaptureGiven, QueueIInv, QueueTypeOK, MarksAreCaptures, Exclusive
<1>. QED  BY <1>1, <1>2, <1>3, <1>4

LEMMA QueueNextIInv == QueueIInv /\ [QueueNext]_queueVars => QueueIInv'
  BY FoundKeeps, ReleaseKeeps, OthersKeep DEF QueueNext

(***************************************************************************)
(* No two users ever hold the same index.                                   *)
(***************************************************************************)
THEOREM NeverShared == QueueSpec => []Exclusive
<1>1. QueueIInv => Exclusive
  BY DEF QueueIInv
<1>. QED  BY <1>1, QueueInitIInv, QueueNextIInv, PTL DEF QueueSpec

(***************************************************************************)
(* The marks of the table are exactly the captures.                         *)
(***************************************************************************)
THEOREM MarksMatch == QueueSpec => [](QueueTypeOK /\ MarksAreCaptures)
<1>1. QueueIInv => QueueTypeOK /\ MarksAreCaptures
  BY DEF QueueIInv
<1>. QED  BY <1>1, QueueInitIInv, QueueNextIInv, PTL DEF QueueSpec

-----------------------------------------------------------------------------

(***************************************************************************)
(* Where two turns of the table are less than the width of the counter, a   *)
(* queue whose counter is within two turns of it grants nothing any more.   *)
(***************************************************************************)
THEOREM Exhaustion ==
  ASSUME 2 * capacity < W
  PROVE  QueueSpec => ExhaustedForGood
<1>. DEFINE Frozen == Exhausted => index' = index /\ \A u \in Users : held'[u] \subseteq held[u]
<1>1. ASSUME QueueTypeOK, HasTable, Exhausted
      PROVE  end < index
  <2>1. W \in Nat \ {0} /\ index \in 0 .. W - 1 /\ capacity \in Nat \ {0}
    BY <1>1, IndexQueueAssumption, TableFitsRange DEF QueueTypeOK
  <2>2. index + capacity * 2 \in W .. 2 * W - 1
    BY <1>1, <2>1 DEF Exhausted
  <2>3. end = index + capacity * 2 - W
    BY <2>1, <2>2 DEF end
  <2>. QED  BY <2>1, <2>3
<1>2. ASSUME QueueTypeOK, [QueueNext]_queueVars, Exhausted
      PROVE  index' = index /\ \A u \in Users : held'[u] \subseteq held[u]
  <2>1. ASSUME NEW v \in Users, CaptureFound(v) PROVE FALSE
    <3>1. Free = {}
      <4>1. HasTable
        BY <2>1 DEF CaptureFound
      <4>2. W \in Nat \ {0} /\ index \in Int /\ capacity \in Nat
        BY <4>1, TableFitsRange, IndexQueueAssumption, <1>2 DEF QueueTypeOK
      <4>3. end \in Int /\ end < index
        BY <4>1, <4>2, <1>1, <1>2 DEF end
      <4>. QED  BY <4>2, <4>3 DEF Free
    <3>. QED  BY <3>1, <2>1 DEF CaptureFound
  <2>2. ASSUME NEW v \in Users, CaptureRefused(v) PROVE index' = index /\ held' = held
    <3>1. HasTable
      BY <2>2 DEF CaptureRefused
    <3>. QED  BY <3>1, <2>2, <1>1, <1>2 DEF CaptureRefused
  <2>3. ASSUME NEW v \in Users, CaptureSpins(v) \/ CaptureGiven(v) PROVE index' = index /\ held' = held
    BY <2>3 DEF CaptureSpins, CaptureGiven
  <2>4. ASSUME NEW v \in Users, NEW i \in held[v], Release(v, i)
        PROVE  index' = index /\ \A u \in Users : held'[u] \subseteq held[u]
    BY <2>4, <1>2 DEF Release, QueueTypeOK
  <2>5. CASE ReleaseAll
    BY <2>5 DEF ReleaseAll
  <2>6. CASE UNCHANGED queueVars
    BY <2>6 DEF queueVars
  <2>. QED  BY <1>2, <2>1, <2>2, <2>3, <2>4, <2>5, <2>6 DEF QueueNext
<1>3. QueueTypeOK /\ [QueueNext]_queueVars => [Frozen]_queueVars
  BY <1>2
<1>. QED  BY <1>3, MarksMatch, PTL DEF QueueSpec, ExhaustedForGood

\* A walk of two turns meets every entry, wherever it starts.
LEMMA TwoTurns ==
  ASSUME NEW i \in Nat, NEW c \in Nat \ {0}, NEW o \in 0 .. c - 1
  PROVE  \E k \in i .. i + c * 2 : k % c = o
<1>. DEFINE q == i \div c  r == i % c
<1>1. i = q * c + r /\ r \in 0 .. c - 1 /\ q \in Nat
  OBVIOUS
<1>. HIDE DEF q, r
<1>2. ((q + 1) * c + o) % c = o
  <2>1. q + 1 \in Int
    BY <1>1
  <2>. HIDE DEF q
  <2>2. \A p \in Int : (p * c + o) % c = o
    OBVIOUS
  <2>. QED  BY <2>1, <2>2
<1>3. (q + 1) * c = q * c + c /\ q * c \in Nat
  BY <1>1
<1>4. (q + 1) * c + o \in i .. i + c * 2
  BY <1>1, <1>3
<1>. QED  BY <1>2, <1>4

(***************************************************************************)
(* A search that finds nothing has seen every entry marked.                 *)
(***************************************************************************)
LEMMA SearchSeesAll ==
  ASSUME QueueTypeOK, HasTable, ~Exhausted, Free = {}
  PROVE  occupied = Offsets
<1>1. W \in Nat \ {0} /\ index \in 0 .. W - 1 /\ capacity \in Nat \ {0}
  BY IndexQueueAssumption, TableFitsRange DEF QueueTypeOK
<1>2. end = index + capacity * 2
  <2>1. index + capacity * 2 \in 0 .. W - 1
    BY <1>1 DEF Exhausted
  <2>. QED  BY <2>1, <1>1 DEF end
<1>3. ASSUME NEW o \in Offsets PROVE o \in occupied
  <2>1. index \in Nat /\ o \in 0 .. capacity - 1
    BY <1>1 DEF Offsets
  <2>2. PICK k \in index .. index + capacity * 2 : k % capacity = o
    BY <2>1, <1>1, TwoTurns
  <2>. QED  BY <2>2, <1>2 DEF Free
<1>. QED  BY <1>3 DEF QueueTypeOK

(***************************************************************************)
(* Capture_INDEX_QUEUE never refuses while an index is free and its counter *)
(* is not exhausted, for any range and any width of the counter.            *)
(***************************************************************************)
THEOREM RefusalMeansFull == QueueSpec => RefusesOnlyWhenFull
<1>. DEFINE Full == (\E u \in Users : CaptureRefused(u)) => occupied = Offsets \/ Exhausted
<1>1. QueueTypeOK /\ [QueueNext]_queueVars => [Full]_queueVars
  BY SearchSeesAll DEF CaptureRefused
<1>. QED  BY <1>1, MarksMatch, PTL DEF QueueSpec, RefusesOnlyWhenFull

-----------------------------------------------------------------------------
(***************************************************************************)
(* What the codecs of Converter do for every code point, and the size pass *)
(* for every text and buffer.                                              *)
(***************************************************************************)

Scalars == {c \in Nat : c <= UNICODE_MAX /\ ~IsSurrogate(c)}

\* The units of e stand in s from i on.
StandsAt(e, s, i) ==
  /\ i \in 1..Len(s)
  /\ i + Len(e) - 1 <= Len(s)
  /\ \A k \in 1..Len(e) : s[i + k - 1] = e[k]

-----------------------------------------------------------------------------
(* UTF-16 *)

LEMMA Length16 ==
  ASSUME NEW c \in Scalars
  PROVE  /\ Len(encode_utf16(c)) = calculate_utf16_len(c)
         /\ calculate_utf16_len(c) \in 1..2
         /\ encode_utf16(c) \in Seq(utf16_t)
<1> DEFINE d == c - 65536
<1>1. CASE c <= BMP_END
  BY <1>1, SMT DEF Scalars, encode_utf16, calculate_utf16_len, BMP_END, utf16_t
<1>2. CASE ~(c <= BMP_END)
  <2>1. d \in Nat BY <1>2, SMT DEF Scalars, BMP_END
  <2>2. 55296 + ((d \div 1024) % 1024) \in utf16_t /\ 56320 + (d % 1024) \in utf16_t
    <3> HIDE DEF d
    <3> QED BY <2>1, SMT DEF utf16_t
  <2> QED BY <1>2, <2>2, SMT DEF encode_utf16, calculate_utf16_len
<1> QED BY <1>1, <1>2

\* decode_utf16 reads what encode_utf16 wrote, wherever it stands in a text,
\* for every Unicode scalar value: the offset of the surrogate pairs, their two
\* halves and the marks of either agree in the two functions.
THEOREM ReadsBack16 ==
  ASSUME NEW c \in Scalars, NEW s \in Seq(utf16_t), NEW i \in Nat,
         StandsAt(encode_utf16(c), s, i)
  PROVE  decode_utf16(s, i) = Read(c, i + calculate_utf16_len(c) - 1)
<1>1. CASE c <= BMP_END
  <2>1. s[i] = c
    BY <1>1, SMT DEF StandsAt, encode_utf16, Scalars, BMP_END
  <2> QED
    BY <1>1, <2>1, SMT DEF decode_utf16, calculate_utf16_len, Read, Scalars
<1>2. CASE ~(c <= BMP_END)
  <2> DEFINE d == c - 65536
             h == 55296 + ((d \div 1024) % 1024)
             l == 56320 + (d % 1024)
  <2>1. d \in Nat /\ d <= 1048575 /\ c = d + 65536
    BY <1>2, SMT DEF Scalars, BMP_END, UNICODE_MAX
  <2>2. s[i] = h /\ s[i + 1] = l /\ i # Len(s) /\ i \in 1..Len(s)
    BY <1>2, SMT DEF StandsAt, encode_utf16
  <2>3. /\ h \div 2048 = 27 /\ h \div 1024 = 54 /\ l \div 1024 = 55
        /\ (h % 1024) * 1024 + (l % 1024) + 65536 = d + 65536
    <3> HIDE DEF d
    <3> QED BY <2>1, SMT
  <2> QED
    BY <1>2, <2>1, <2>2, <2>3, SMT
    DEF decode_utf16, calculate_utf16_len, Read, IsSurrogate, IsHighSurrogate,
        IsLowSurrogate, FromSurrogates
<1> QED BY <1>1, <1>2

\* What decode_utf16 returns is a scalar value, and the index of a unit of the
\* text, not before the one it was given: the loop ends.
LEMMA Reads16 ==
  ASSUME NEW s \in Seq(utf16_t), NEW i \in 1..Len(s)
  PROVE  decode_utf16(s, i).codepoint \in Scalars /\ decode_utf16(s, i).index \in i..Len(s)
<1>1. s[i] \in utf16_t OBVIOUS
<1>2. INVALID_CODEPOINT \in Scalars
  BY SMT DEF Scalars, INVALID_CODEPOINT, UNICODE_MAX, IsSurrogate
<1>3. CASE ~IsSurrogate(s[i])
  BY <1>1, <1>3, SMT DEF decode_utf16, Read, Scalars, UNICODE_MAX, utf16_t
<1>4. CASE IsSurrogate(s[i]) /\ (~IsHighSurrogate(s[i]) \/ i = Len(s) \/ ~IsLowSurrogate(s[i + 1]))
  BY <1>2, <1>4, SMT DEF decode_utf16, Read
<1>5. CASE IsSurrogate(s[i]) /\ ~(~IsHighSurrogate(s[i]) \/ i = Len(s) \/ ~IsLowSurrogate(s[i + 1]))
  <2>1. s[i + 1] \in utf16_t BY <1>5
  <2>2. /\ FromSurrogates(s[i], s[i + 1]) \in Nat
        /\ FromSurrogates(s[i], s[i + 1]) <= UNICODE_MAX
        /\ FromSurrogates(s[i], s[i + 1]) >= 65536
    <3>1. \A h, l \in Nat : /\ (h % 1024) * 1024 + (l % 1024) + 65536 \in Nat
                            /\ (h % 1024) * 1024 + (l % 1024) + 65536 <= 1114111
                            /\ (h % 1024) * 1024 + (l % 1024) + 65536 >= 65536
      BY SMT
    <3>2. s[i] \in Nat /\ s[i + 1] \in Nat BY <1>1, <2>1, SMT DEF utf16_t
    <3> QED BY <3>1, <3>2, SMT DEF FromSurrogates, UNICODE_MAX
  <2>3. FromSurrogates(s[i], s[i + 1]) \in Scalars
    BY <2>2, SMT DEF Scalars, IsSurrogate, UNICODE_MAX
  <2> QED BY <1>5, <2>3, SMT DEF decode_utf16, Read
<1> QED BY <1>3, <1>4, <1>5

-----------------------------------------------------------------------------
(* UTF-8 *)

LEMMA ContinuationByte ==
  ASSUME NEW c \in Nat
  PROVE  /\ Continuation(c) \in utf8_t
         /\ IsContinuation(Continuation(c))
         /\ Continuation(c) % 64 = c % 64
  BY SMT DEF Continuation, IsContinuation, utf8_t

\* A byte whose bits above its m free ones are those of its pattern.
LEMMA LeadByte ==
  ASSUME NEW c \in Nat
  PROVE  /\ c % 128 \in utf8_t /\ 192 + (c % 32) \in utf8_t
         /\ 224 + (c % 16) \in utf8_t /\ 240 + (c % 8) \in utf8_t
         /\ Leads(c % 128, 1) /\ Leads(192 + (c % 32), 2)
         /\ Leads(224 + (c % 16), 3) /\ Leads(240 + (c % 8), 4)
         /\ (192 + (c % 32)) % 32 = c % 32
         /\ (224 + (c % 16)) % 16 = c % 16
         /\ (240 + (c % 8)) % 8 = c % 8
  BY SMT DEF Leads, utf8_t

LEMMA Shifts ==
  ASSUME NEW c \in Nat
  PROVE  c \div 64 \in Nat /\ c \div 4096 \in Nat /\ c \div 262144 \in Nat
  BY SMT

LEMMA Length8 ==
  ASSUME NEW c \in Scalars
  PROVE  /\ Len(encode_utf8(c)) = calculate_utf8_len(c)
         /\ calculate_utf8_len(c) \in 1..4
         /\ encode_utf8(c) \in Seq(utf8_t)
<1>1. c \in Nat BY SMT DEF Scalars
<1> DEFINE n == calculate_utf8_len(c)
<1>2. n \in 1..4 BY SMT DEF calculate_utf8_len
<1>3. c \div 64 \in Nat /\ c \div 4096 \in Nat /\ c \div 262144 \in Nat
  BY <1>1, Shifts
<1>4. /\ c % 128 \in utf8_t /\ 192 + ((c \div 64) % 32) \in utf8_t
      /\ 224 + ((c \div 4096) % 16) \in utf8_t /\ 240 + ((c \div 262144) % 8) \in utf8_t
  <2>1. c % 128 \in utf8_t BY <1>1, LeadByte
  <2>2. 192 + ((c \div 64) % 32) \in utf8_t BY <1>3, LeadByte
  <2>3. 224 + ((c \div 4096) % 16) \in utf8_t BY <1>3, LeadByte
  <2>4. 240 + ((c \div 262144) % 8) \in utf8_t BY <1>3, LeadByte
  <2> QED BY <2>1, <2>2, <2>3, <2>4
<1>5. /\ Continuation(c) \in utf8_t /\ Continuation(c \div 64) \in utf8_t
      /\ Continuation(c \div 4096) \in utf8_t
  BY <1>1, <1>3, ContinuationByte
<1> QED BY <1>2, <1>4, <1>5, SMT DEF encode_utf8

\* If the first byte leads n, decode_utf8 takes n for the length.
LEMMA LeadIsUnique ==
  ASSUME NEW b \in utf8_t, NEW n \in 1..4, NEW m \in 1..4, Leads(b, n), Leads(b, m)
  PROVE  n = m
  BY SMT DEF Leads, utf8_t

\* With all its continuation bytes there, what decode_utf8 does.
LEMMA ReadsComplete8 ==
  ASSUME NEW s \in Seq(utf8_t), NEW i \in 1..Len(s), NEW n \in 1..4,
         Leads(s[i], n), Complete(s, i, n), Proper(CodepointAt(s, i, n), n)
  PROVE  decode_utf8(s, i) = Read(CodepointAt(s, i, n), i + n - 1)
<1> DEFINE m == CHOOSE k \in 1..4 : Leads(s[i], k)
<1>1. s[i] \in utf8_t OBVIOUS
<1>2. m \in 1..4 /\ Leads(s[i], m) OBVIOUS
<1>3. m = n BY <1>1, <1>2, LeadIsUnique
<1> DEFINE f == Found(s, i, m)
<1> HIDE DEF m
<1>4. \A k \in 1..n : Complete(s, i, k)
  <2> TAKE k \in 1..n
  <2>1. i + k - 1 <= Len(s) BY SMT DEF Complete
  <2>2. 1..k - 1 \subseteq 1..n - 1 BY SMT
  <2> QED BY <2>1, <2>2 DEF Complete
<1>5. f \in 1..m /\ Complete(s, i, f) /\ (f < m => ~Complete(s, i, f + 1))
  <2>1. n \in 1..m /\ Complete(s, i, n) /\ (n < m => ~Complete(s, i, n + 1))
    BY <1>3, SMT
  <2>2. \E k \in 1..m : Complete(s, i, k) /\ (k < m => ~Complete(s, i, k + 1))
    BY <2>1
  <2> QED BY <2>2 DEF Found
<1> HIDE DEF f
<1>6. f = n
  <2>1. CASE f < n
    <3>1. f + 1 \in 1..n BY <1>3, <1>5, <2>1, SMT
    <3> QED BY <1>3, <1>4, <1>5, <2>1, <3>1
  <2> QED BY <1>3, <1>5, <2>1, SMT
<1>7. decode_utf8(s, i) = IF f = m /\ Proper(CodepointAt(s, i, m), m)
                            THEN Read(CodepointAt(s, i, m), i + m - 1)
                            ELSE Read(INVALID_CODEPOINT, i + f - 1)
  BY SMT DEF decode_utf8, m, f
<1> QED BY <1>3, <1>6, <1>7

\* decode_utf8 reads what encode_utf8 wrote, wherever it stands in a text, for
\* every Unicode scalar value: the four patterns, the six bits of a
\* continuation byte and the bounds of the lengths agree in the two functions,
\* and no value that is written is taken for overlong, a surrogate or too large.
THEOREM ReadsBack8 ==
  ASSUME NEW c \in Scalars, NEW s \in Seq(utf8_t), NEW i \in Nat,
         StandsAt(encode_utf8(c), s, i)
  PROVE  decode_utf8(s, i) = Read(c, i + calculate_utf8_len(c) - 1)
<1> DEFINE n == calculate_utf8_len(c)
           e == encode_utf8(c)
<1>1. c \in Nat /\ c <= UNICODE_MAX /\ ~IsSurrogate(c) BY DEF Scalars
<1>2. n \in 1..4 /\ Len(e) = n BY Length8
<1>3. c \div 64 \in Nat /\ c \div 4096 \in Nat /\ c \div 262144 \in Nat
  BY <1>1, Shifts
<1>4. /\ IsContinuation(Continuation(c)) /\ Continuation(c) % 64 = c % 64
      /\ IsContinuation(Continuation(c \div 64))
      /\ Continuation(c \div 64) % 64 = (c \div 64) % 64
      /\ IsContinuation(Continuation(c \div 4096))
      /\ Continuation(c \div 4096) % 64 = (c \div 4096) % 64
  BY <1>1, <1>3, ContinuationByte
<1>5. i \in 1..Len(s) /\ i + n - 1 <= Len(s) BY <1>2 DEF StandsAt
<1>6. \A k \in 1..n : s[i + k - 1] = e[k] BY <1>2 DEF StandsAt
<1>7. Proper(c, n) BY <1>1 DEF Proper
<1>8. CASE n = 1
  <2>1. c <= 127 BY <1>8, <1>1, SMT DEF calculate_utf8_len
  <2>2. s[i] = c % 128 BY <1>6, <1>8, <1>5, SMT DEF encode_utf8
  <2>3. Leads(s[i], 1) BY <1>1, <2>2, LeadByte
  <2>4. CodepointAt(s, i, 1) = c BY <1>1, <2>1, <2>2, SMT DEF CodepointAt
  <2>5. Complete(s, i, 1) BY <1>5, SMT DEF Complete
  <2> QED BY <1>5, <1>7, <1>8, <2>3, <2>4, <2>5, ReadsComplete8
<1>9. CASE n = 2
  <2>1. c <= 2047 BY <1>9, <1>1, SMT DEF calculate_utf8_len
  <2>2. s[i] = 192 + ((c \div 64) % 32) /\ s[i + 1] = Continuation(c)
    BY <1>6, <1>9, <1>5, SMT DEF encode_utf8
  <2>3. Leads(s[i], 2) /\ s[i] % 32 = (c \div 64) % 32 BY <1>3, <2>2, LeadByte
  <2>4. CodepointAt(s, i, 2) = c
    <3>1. ((c \div 64) % 32) * 64 + (c % 64) = c BY <1>1, <2>1, SMT
    <3> QED BY <1>4, <2>2, <2>3, <3>1, SMT DEF CodepointAt
  <2>5. Complete(s, i, 2) BY <1>4, <1>5, <1>9, <2>2, SMT DEF Complete
  <2> QED BY <1>5, <1>7, <1>9, <2>3, <2>4, <2>5, ReadsComplete8
<1>10. CASE n = 3
  <2>1. c <= 65535 BY <1>10, <1>1, SMT DEF calculate_utf8_len
  <2>2. /\ s[i] = 224 + ((c \div 4096) % 16) /\ s[i + 1] = Continuation(c \div 64)
        /\ s[i + 2] = Continuation(c)
    BY <1>6, <1>10, <1>5, SMT DEF encode_utf8
  <2>3. Leads(s[i], 3) /\ s[i] % 16 = (c \div 4096) % 16 BY <1>3, <2>2, LeadByte
  <2>4. CodepointAt(s, i, 3) = c
    <3>1. (((c \div 4096) % 16) * 64 + ((c \div 64) % 64)) * 64 + (c % 64) = c
      BY <1>1, <2>1, SMT
    <3> QED BY <1>4, <2>2, <2>3, <3>1, SMT DEF CodepointAt
  <2>5. Complete(s, i, 3) BY <1>4, <1>5, <1>10, <2>2, SMT DEF Complete
  <2> QED BY <1>5, <1>7, <1>10, <2>3, <2>4, <2>5, ReadsComplete8
<1>11. CASE n = 4
  <2>1. s[i] = 240 + ((c \div 262144) % 8)
    BY <1>6, <1>11, <1>5, SMT DEF encode_utf8
  <2>2. /\ s[i + 1] = Continuation(c \div 4096) /\ s[i + 2] = Continuation(c \div 64)
        /\ s[i + 3] = Continuation(c)
    BY <1>6, <1>11, <1>5, SMT DEF encode_utf8
  <2>3. Leads(s[i], 4) /\ s[i] % 8 = (c \div 262144) % 8 BY <1>3, <2>1, LeadByte
  <2>4. CodepointAt(s, i, 4) = c
    <3>1. ((((c \div 262144) % 8) * 64 + ((c \div 4096) % 64)) * 64 + ((c \div 64) % 64)) * 64
            + (c % 64) = c
      BY <1>1, SMT DEF UNICODE_MAX
    <3> QED BY <1>4, <2>2, <2>3, <3>1, SMT DEF CodepointAt
  <2>5. Complete(s, i, 4) BY <1>4, <1>5, <1>11, <2>2, SMT DEF Complete
  <2> QED BY <1>5, <1>7, <1>11, <2>3, <2>4, <2>5, ReadsComplete8
<1> QED BY <1>2, <1>8, <1>9, <1>10, <1>11, SMT

\* One more continuation byte, and the bits of the first.
LEMMA Digits ==
  ASSUME NEW a \in Nat, NEW b \in Nat
  PROVE  a * 64 + (b % 64) \in Nat /\ b % 8 \in Nat /\ b % 16 \in Nat /\ b % 32 \in Nat
           /\ b % 128 \in Nat
BY SMT

\* d is what decode_utf8 returns when n bytes are announced and f of them there.
Decodes(s, i, n, f, d) ==
  /\ n \in 1..4 /\ f \in 1..n
  /\ Leads(s[i], n) /\ Complete(s, i, f)
  /\ d = IF f = n /\ Proper(CodepointAt(s, i, n), n)
           THEN Read(CodepointAt(s, i, n), i + n - 1)
           ELSE Read(INVALID_CODEPOINT, i + f - 1)

\* The two ways decode_utf8 can go.
LEMMA Decodes8 ==
  ASSUME NEW s \in Seq(utf8_t), NEW i \in 1..Len(s)
  PROVE  \/ decode_utf8(s, i) = Read(INVALID_CODEPOINT, i)
         \/ \E n \in 1..4, f \in 1..4 : Decodes(s, i, n, f, decode_utf8(s, i))
<1>1. CASE \A n \in 1..4 : ~Leads(s[i], n)
  BY <1>1 DEF decode_utf8
<1>2. CASE \E n \in 1..4 : Leads(s[i], n)
  <2> DEFINE n == CHOOSE k \in 1..4 : Leads(s[i], k)
             f == Found(s, i, n)
  <2>1. n \in 1..4 /\ Leads(s[i], n) BY <1>2
  <2>2. decode_utf8(s, i) = IF f = n /\ Proper(CodepointAt(s, i, n), n)
                              THEN Read(CodepointAt(s, i, n), i + n - 1)
                              ELSE Read(INVALID_CODEPOINT, i + f - 1)
    BY <1>2 DEF decode_utf8
  <2> HIDE DEF n
  <2>3. f \in 1..n /\ Complete(s, i, f)
    <3>1. Complete(s, i, 1) BY SMT DEF Complete
    <3>2. \E k \in 1..n : Complete(s, i, k) /\ (k < n => ~Complete(s, i, k + 1))
      <4>1. CASE Complete(s, i, 2) /\ n >= 2
        <5>1. CASE Complete(s, i, 3) /\ n >= 3
          <6>1. CASE Complete(s, i, 4) /\ n = 4 BY <6>1, SMT
          <6>2. CASE ~(Complete(s, i, 4) /\ n = 4) BY <2>1, <5>1, <6>2, SMT
          <6> QED BY <6>1, <6>2
        <5>2. CASE ~(Complete(s, i, 3) /\ n >= 3) BY <2>1, <4>1, <5>2, SMT
        <5> QED BY <5>1, <5>2
      <4>2. CASE ~(Complete(s, i, 2) /\ n >= 2) BY <2>1, <3>1, <4>2, SMT
      <4> QED BY <4>1, <4>2
    <3> QED BY <3>2 DEF Found
  <2> HIDE DEF f
  <2>4. f \in 1..4 BY <2>1, <2>3
  <2>5. Decodes(s, i, n, f, decode_utf8(s, i)) BY <2>1, <2>2, <2>3 DEF Decodes
  <2> QED BY <2>1, <2>4, <2>5
<1> QED BY <1>1, <1>2

\* What decode_utf8 returns is a scalar value, and the index of a byte of the
\* text, not before the one it was given: the loop ends.
LEMMA Reads8 ==
  ASSUME NEW s \in Seq(utf8_t), NEW i \in 1..Len(s)
  PROVE  decode_utf8(s, i).codepoint \in Scalars /\ decode_utf8(s, i).index \in i..Len(s)
<1>1. INVALID_CODEPOINT \in Scalars
  BY SMT DEF Scalars, INVALID_CODEPOINT, UNICODE_MAX, IsSurrogate
<1>2. CASE decode_utf8(s, i) = Read(INVALID_CODEPOINT, i)
  BY <1>1, <1>2 DEF Read
<1>3. CASE \E n \in 1..4, f \in 1..4 : Decodes(s, i, n, f, decode_utf8(s, i))
  <2>1. PICK n \in 1..4, f \in 1..4 : Decodes(s, i, n, f, decode_utf8(s, i)) BY <1>3
  <2>2. decode_utf8(s, i) = IF f = n /\ Proper(CodepointAt(s, i, n), n)
                              THEN Read(CodepointAt(s, i, n), i + n - 1)
                              ELSE Read(INVALID_CODEPOINT, i + f - 1)
    BY <2>1 DEF Decodes
  <2>3. f \in 1..n /\ Complete(s, i, f) BY <2>1 DEF Decodes
  <2>4. i + f - 1 \in i..Len(s) BY <2>1, <2>3, SMT DEF Complete
  <2>5. CASE f = n /\ Proper(CodepointAt(s, i, n), n)
    <3>1. /\ s[i] \in Nat /\ (n >= 2 => s[i + 1] \in Nat)
          /\ (n >= 3 => s[i + 2] \in Nat) /\ (n >= 4 => s[i + 3] \in Nat)
      BY <2>1, <2>3, <2>5, SMT DEF Complete, utf8_t
    <3>2. CodepointAt(s, i, n) \in Nat
      <4>1. CASE n = 1
        <5>1. /\ s[i] \in Nat BY <3>1, <4>1, SMT
        <5> QED BY <4>1, <5>1, Digits DEF CodepointAt
      <4>2. CASE n = 2
        <5>1. /\ s[i] \in Nat /\ s[i + 1] \in Nat BY <3>1, <4>2, SMT
        <5> QED BY <4>2, <5>1, Digits DEF CodepointAt
      <4>3. CASE n = 3
        <5>1. /\ s[i] \in Nat /\ s[i + 1] \in Nat /\ s[i + 2] \in Nat BY <3>1, <4>3, SMT
        <5>2. CodepointAt(s, i, n) = ((s[i] % 16) * 64 + (s[i + 1] % 64)) * 64 + (s[i + 2] % 64)
          BY <4>3, SMT DEF CodepointAt
        <5>3. (s[i] % 16) * 64 + (s[i + 1] % 64) \in Nat BY <5>1, Digits
        <5>4. ((s[i] % 16) * 64 + (s[i + 1] % 64)) * 64 + (s[i + 2] % 64) \in Nat
          BY <5>1, <5>3, Digits
        <5> QED BY <5>2, <5>4
      <4>4. CASE n = 4
        <5>1. /\ s[i] \in Nat /\ s[i + 1] \in Nat /\ s[i + 2] \in Nat /\ s[i + 3] \in Nat BY <3>1, <4>4, SMT
        <5>2. CodepointAt(s, i, n) = (((s[i] % 8) * 64 + (s[i + 1] % 64)) * 64 + (s[i + 2] % 64)) * 64
                                       + (s[i + 3] % 64)
          BY <4>4, SMT DEF CodepointAt
        <5>3. (s[i] % 8) * 64 + (s[i + 1] % 64) \in Nat BY <5>1, Digits
        <5>4. ((s[i] % 8) * 64 + (s[i + 1] % 64)) * 64 + (s[i + 2] % 64) \in Nat
          BY <5>1, <5>3, Digits
        <5>5. (((s[i] % 8) * 64 + (s[i + 1] % 64)) * 64 + (s[i + 2] % 64)) * 64 + (s[i + 3] % 64)
                \in Nat
          BY <5>1, <5>4, Digits
        <5> QED BY <5>2, <5>5
      <4> QED BY <2>1, <4>1, <4>2, <4>3, <4>4, SMT
    <3>3. CodepointAt(s, i, n) \in Scalars BY <2>5, <3>2 DEF Proper, Scalars
    <3> QED BY <2>2, <2>4, <2>5, <3>3 DEF Read
  <2>6. CASE ~(f = n /\ Proper(CodepointAt(s, i, n), n))
    BY <1>1, <2>2, <2>4, <2>6 DEF Read
  <2> QED BY <2>5, <2>6
<1> QED BY <1>2, <1>3, Decodes8

-----------------------------------------------------------------------------
(* The rows of the table, and what is encoded. *)

LEMMA InWithin ==
  \A a, b \in Nat : \A u : u \in Within(a, b) <=> u \in Nat /\ a <= u /\ u <= b
BY DEF Within

LEMMA InTail8 == \A u : u \in Tail8 <=> u \in Nat /\ 128 <= u /\ u <= 191
BY InWithin, SMT DEF Tail8

LEMMA Rows ==
  ASSUME NEW encoding, NEW row \in RowsOf(encoding)
  PROVE  Len(row) \in 1..4
<1>1. CASE encoding = "utf16"
  <2>1. \A A, B : Len(<<A>>) = 1 /\ Len(<<A, B>>) = 2 OBVIOUS
  <2>2. row \in Rows16 BY <1>1 DEF RowsOf
  <2>3. Len(row) = 1 \/ Len(row) = 2 BY <2>1, <2>2, SMT DEF Rows16
  <2> QED BY <2>3
<1>2. CASE encoding # "utf16"
  <2>1. row \in Rows8 BY <1>2 DEF RowsOf
  <2> QED BY <2>1, SMT DEF Rows8
<1> QED BY <1>1, <1>2

\* A text of as many units as a row, each in its range.
Fills(e, row) == Len(row) = Len(e) /\ \A j \in 1..Len(row) : e[j] \in row[j]

LEMMA Fill1 ==
  ASSUME NEW rows, NEW A, NEW a \in A, <<A>> \in rows
  PROVE  \E row \in rows : Fills(<<a>>, row)
<1>1. Fills(<<a>>, <<A>>) BY SMT DEF Fills
<1> QED BY <1>1, Zenon

LEMMA Fill2 ==
  ASSUME NEW rows, NEW A, NEW a \in A, NEW B, NEW b \in B, <<A, B>> \in rows
  PROVE  \E row \in rows : Fills(<<a, b>>, row)
<1>1. Fills(<<a, b>>, <<A, B>>) BY SMT DEF Fills
<1> QED BY <1>1, Zenon

LEMMA Fill3 ==
  ASSUME NEW rows, NEW A, NEW a \in A, NEW B, NEW b \in B, NEW C, NEW c \in C,
         <<A, B, C>> \in rows
  PROVE  \E row \in rows : Fills(<<a, b, c>>, row)
<1>1. Fills(<<a, b, c>>, <<A, B, C>>) BY SMT DEF Fills
<1> QED BY <1>1, Zenon

LEMMA Fill4 ==
  ASSUME NEW rows, NEW A, NEW a \in A, NEW B, NEW b \in B, NEW C, NEW c \in C,
         NEW D, NEW d \in D, <<A, B, C, D>> \in rows
  PROVE  \E row \in rows : Fills(<<a, b, c, d>>, row)
<1>1. Fills(<<a, b, c, d>>, <<A, B, C, D>>) BY SMT DEF Fills
<1> QED BY <1>1, Zenon

LEMMA InRow16 ==
  ASSUME NEW c \in Scalars
  PROVE  \E row \in Rows16 : Fills(encode_utf16(c), row)
<1>1. c \in Nat /\ c <= 1114111 /\ c \div 2048 # 27
  BY DEF Scalars, UNICODE_MAX, IsSurrogate
<1> HIDE DEF Fills
<1>2. CASE c <= BMP_END
  <2> DEFINE A == Within(0, 55295) \cup Within(57344, 65535)
  <2>1. c < 55296 \/ c >= 57344 BY <1>1, SMT
  <2>2. c \in A
    <3>1. c \in Nat /\ c <= 65535 BY <1>1, <1>2 DEF BMP_END
    <3>2. CASE c < 55296 BY <3>1, <3>2, InWithin, SMT
    <3>3. CASE c >= 57344 BY <3>1, <3>3, InWithin, SMT
    <3> QED BY <2>1, <3>2, <3>3
  <2>3. <<A>> \in Rows16 BY DEF Rows16
  <2>4. encode_utf16(c) = <<c>> BY <1>2 DEF encode_utf16
  <2> HIDE DEF A
  <2>5. \E row \in Rows16 : Fills(<<c>>, row) BY <2>2, <2>3, Fill1
  <2> QED BY <2>4, <2>5
<1>3. CASE ~(c <= BMP_END)
  <2> DEFINE A == Within(55296, 56319)
             B == Within(56320, 57343)
             h == 55296 + (((c - 65536) \div 1024) % 1024)
             l == 56320 + ((c - 65536) % 1024)
  <2>1. h \in A /\ l \in B
    BY <1>1, <1>3, InWithin, SMT DEF BMP_END
  <2>2. <<A, B>> \in Rows16 BY DEF Rows16
  <2>3. encode_utf16(c) = <<h, l>> BY <1>3 DEF encode_utf16
  <2> HIDE DEF h, l, A, B
  <2>4. \E row \in Rows16 : Fills(<<h, l>>, row) BY <2>1, <2>2, Fill2
  <2> QED BY <2>3, <2>4
<1> QED BY <1>2, <1>3

LEMMA InRow8 ==
  ASSUME NEW c \in Scalars
  PROVE  \E row \in Rows8 : Fills(encode_utf8(c), row)
<1>1. c \in Nat /\ c <= 1114111 /\ c \div 2048 # 27
  BY DEF Scalars, UNICODE_MAX, IsSurrogate
<1> DEFINE n == calculate_utf8_len(c)
           e == encode_utf8(c)
           C == Tail8
           x == Continuation(c)
<1>2. \A d \in Nat : Continuation(d) \in C
  BY InWithin, SMT DEF Continuation, Tail8
<1>3. x \in C /\ Continuation(c \div 64) \in C /\ Continuation(c \div 4096) \in C
  BY <1>1, <1>2, Shifts
<1>4. CASE n = 1
  <2> DEFINE A == Within(0, 127)
             a == c % 128
  <2>1. a \in A BY <1>1, InWithin, SMT
  <2>2. e = <<a>> BY <1>4 DEF encode_utf8
  <2>3. <<A>> \in Rows8 BY DEF Rows8
  <2> HIDE DEF e, A, a, Fills
  <2>4. \E row \in Rows8 : Fills(<<a>>, row) BY <2>1, <2>3, Fill1
  <2> QED BY <2>2, <2>4 DEF e
<1>5. CASE n = 2
  <2> DEFINE A == Within(194, 223)
             a == 192 + ((c \div 64) % 32)
  <2>1. c > 127 /\ c <= 2047 BY <1>1, <1>5, SMT DEF calculate_utf8_len
  <2>2. a \in A BY <1>1, <2>1, InWithin, SMT
  <2>3. e = <<a, x>> BY <1>5 DEF encode_utf8
  <2>4. <<A, C>> \in Rows8 BY DEF Rows8
  <2> HIDE DEF e, A, a, C, x, Fills
  <2>5. x \in C BY <1>3
  <2>6. \E row \in Rows8 : Fills(<<a, x>>, row) BY <2>2, <2>4, <2>5, Fill2
  <2> QED BY <2>3, <2>6 DEF e
<1>6. CASE n = 3
  <2> DEFINE a == 224 + ((c \div 4096) % 16)
             b == Continuation(c \div 64)
  <2>1. c > 2047 /\ c <= 65535 BY <1>1, <1>6, SMT DEF calculate_utf8_len
  <2>2. e = <<a, b, x>> BY <1>6 DEF encode_utf8
  <2>3. /\ a \in Within(224, 239)
        /\ (a = 224 => b \in Within(160, 191))
        /\ (a = 237 => b \in Within(128, 159))
    BY <1>1, <2>1, InWithin, SMT DEF Continuation, Tail8
  <2>4. b \in C BY <1>3
  <2> HIDE DEF e, a, b, x, Fills
  <2>5. \E A, B : a \in A /\ b \in B /\ <<A, B, C>> \in Rows8
    <3>1. CASE a = 224
      <4>1. <<{224}, Within(160, 191), C>> \in Rows8 BY DEF Rows8
      <4>2. a \in {224} /\ b \in Within(160, 191) BY <2>3, <3>1
      <4> HIDE DEF C
      <4> QED BY <4>1, <4>2
    <3>2. CASE a = 237
      <4>1. <<{237}, Within(128, 159), C>> \in Rows8 BY DEF Rows8
      <4>2. a \in {237} /\ b \in Within(128, 159) BY <2>3, <3>2
      <4> HIDE DEF C
      <4> QED BY <4>1, <4>2
    <3>3. CASE a # 224 /\ a # 237
      <4> DEFINE A == Within(225, 236) \cup {238, 239}
      <4>1. <<A, C, C>> \in Rows8 BY DEF Rows8
      <4>2. a \in A BY <2>3, <3>3, InWithin, SMT
      <4> HIDE DEF A, C
      <4> QED BY <2>4, <4>1, <4>2
    <3> QED BY <3>1, <3>2, <3>3
  <2> HIDE DEF C
  <2>6. x \in C BY <1>3
  <2>7. \E row \in Rows8 : Fills(<<a, b, x>>, row) BY <2>5, <2>6, Fill3
  <2> QED BY <2>2, <2>7 DEF e
<1>7. CASE n = 4
  <2> DEFINE a == 240 + ((c \div 262144) % 8)
             b == Continuation(c \div 4096)
             d == Continuation(c \div 64)
  <2>1. c > 65535 BY <1>1, <1>7, SMT DEF calculate_utf8_len
  <2>2. e = <<a, b, d, x>> BY <1>7, <2>1, SMT DEF encode_utf8
  <2>3. /\ a \in Within(240, 244)
        /\ (a = 240 => b \in Within(144, 191))
        /\ (a = 244 => b \in Within(128, 143))
    BY <1>1, <2>1, InWithin, SMT DEF Continuation, Tail8
  <2>4. b \in C /\ d \in C BY <1>3
  <2> HIDE DEF e, a, b, d, x, Fills
  <2>5. \E A, B : a \in A /\ b \in B /\ <<A, B, C, C>> \in Rows8
    <3>1. CASE a = 240
      <4>1. <<{240}, Within(144, 191), C, C>> \in Rows8 BY DEF Rows8
      <4>2. a \in {240} /\ b \in Within(144, 191) BY <2>3, <3>1
      <4> HIDE DEF C
      <4> QED BY <4>1, <4>2
    <3>2. CASE a = 244
      <4>1. <<{244}, Within(128, 143), C, C>> \in Rows8 BY DEF Rows8
      <4>2. a \in {244} /\ b \in Within(128, 143) BY <2>3, <3>2
      <4> HIDE DEF C
      <4> QED BY <4>1, <4>2
    <3>3. CASE a # 240 /\ a # 244
      <4> DEFINE A == Within(241, 243)
      <4>1. <<A, C, C, C>> \in Rows8 BY DEF Rows8
      <4>2. a \in A BY <2>3, <3>3, InWithin, SMT
      <4> HIDE DEF A, C
      <4> QED BY <2>4, <4>1, <4>2
    <3> QED BY <3>1, <3>2, <3>3
  <2> HIDE DEF C
  <2>6. x \in C BY <1>3
  <2>7. \E row \in Rows8 : Fills(<<a, b, d, x>>, row) BY <2>4, <2>5, <2>6, Fill4
  <2> QED BY <2>2, <2>7 DEF e
<1> QED BY <1>4, <1>5, <1>6, <1>7, Length8, SMT

\* A row written after rows that fill the buffer.
LEMMA CoveredGrows ==
  ASSUME NEW rows, \A row \in rows : Len(row) \in 1..4,
         NEW s \in Seq(Nat), NEW e \in Seq(Nat), Covered(rows, s, Len(s)),
         NEW r \in rows, Fills(e, r)
  PROVE  Covered(rows, s \o e, Len(s \o e))
<1> DEFINE t == s \o e
           n == Len(s)
           m == Len(e)
<1>1. n \in Nat /\ m \in 1..4
  <2>1. n \in Nat OBVIOUS
  <2>2. Len(r) \in 1..4 OBVIOUS
  <2>3. m = Len(r) BY DEF Fills
  <2> QED BY <2>1, <2>2, <2>3
<1>2. /\ Len(t) = n + m
      /\ \A k \in 1..n : t[k] = s[k]
      /\ \A j \in 1..m : t[n + j] = e[j]
  BY SMT
<1> HIDE DEF t, n, m
<1> SUFFICES ASSUME NEW k \in 1..Len(t)
             PROVE  \E row \in rows, i \in 1..k :
                      k < i + Len(row) /\ i + Len(row) - 1 <= Len(t) /\ Stands(row, t, i)
  BY DEF Covered, t
<1>3. CASE k <= n
  <2>1. k \in 1..n BY <1>1, <1>3, SMT
  <2>2. PICK row \in rows, i \in 1..k :
          k < i + Len(row) /\ i + Len(row) - 1 <= n /\ Stands(row, s, i)
    BY <2>1 DEF Covered, n
  <2>3. Len(row) \in 1..4 /\ i \in Nat /\ i >= 1 BY <2>1, SMT
  <2>4. i + Len(row) - 1 <= Len(t) BY <1>1, <1>2, <2>2, <2>3, SMT
  <2>5. \A j \in 1..Len(row) : t[i + j - 1] \in row[j]
    <3> TAKE j \in 1..Len(row)
    <3>1. i + j - 1 \in 1..n BY <1>1, <2>2, <2>3, SMT
    <3> QED BY <1>2, <2>2, <3>1 DEF Stands
  <2> QED BY <2>2, <2>4, <2>5 DEF Stands
<1>4. CASE k > n
  <2>1. n + 1 \in 1..k BY <1>1, <1>4, SMT
  <2>2. Len(r) = m BY DEF m, Fills
  <2>3. k < n + 1 + m /\ n + 1 + m - 1 <= Len(t) BY <1>1, <1>2, SMT
  <2>4. \A j \in 1..m : t[n + 1 + j - 1] \in r[j]
    <3> TAKE j \in 1..m
    <3>1. n + 1 + j - 1 = n + j BY <1>1, SMT
    <3> QED BY <1>2, <2>2, <3>1 DEF Fills
  <2> QED BY <2>1, <2>2, <2>3, <2>4 DEF Stands
<1> QED BY <1>1, <1>2, <1>3, <1>4, SMT

-----------------------------------------------------------------------------
(* The rows of the table, and what is decoded. *)

LEMMA Stands1 ==
  ASSUME NEW s, NEW i \in Nat, NEW A
  PROVE  Stands(<<A>>, s, i) <=> i + 1 - 1 <= Len(s) /\ s[i] \in A
<1>1. Len(<<A>>) = 1 /\ <<A>>[1] = A /\ i + 1 - 1 = i OBVIOUS
<1> QED BY <1>1, SMT DEF Stands

LEMMA Stands2 ==
  ASSUME NEW s, NEW i \in Nat, NEW A, NEW B
  PROVE  Stands(<<A, B>>, s, i) <=> i + 2 - 1 <= Len(s) /\ s[i] \in A /\ s[i + 1] \in B
<1>1. i + 1 - 1 = i /\ i + 2 - 1 = i + 1 OBVIOUS
<1> QED BY <1>1, SMT DEF Stands

LEMMA Stands3 ==
  ASSUME NEW s, NEW i \in Nat, NEW A, NEW B, NEW C
  PROVE  Stands(<<A, B, C>>, s, i) <=>
           i + 3 - 1 <= Len(s) /\ s[i] \in A /\ s[i + 1] \in B /\ s[i + 2] \in C
<1>1. i + 1 - 1 = i /\ i + 2 - 1 = i + 1 /\ i + 3 - 1 = i + 2 OBVIOUS
<1> QED BY <1>1, SMT DEF Stands

LEMMA Stands4 ==
  ASSUME NEW s, NEW i \in Nat, NEW A, NEW B, NEW C, NEW D
  PROVE  Stands(<<A, B, C, D>>, s, i) <=>
           /\ i + 4 - 1 <= Len(s)
           /\ s[i] \in A /\ s[i + 1] \in B /\ s[i + 2] \in C /\ s[i + 3] \in D
<1>1. i + 1 - 1 = i /\ i + 2 - 1 = i + 1 /\ i + 3 - 1 = i + 2 /\ i + 4 - 1 = i + 3 OBVIOUS
<1> QED BY <1>1, SMT DEF Stands

\* What the reader needs of a decoder that returned d for the place i of s.
Faithful(encoding, s, i, d) ==
  /\ d.codepoint # INVALID_CODEPOINT =>
       \E row \in RowsOf(encoding) : Stands(row, s, i) /\ d.index = i + Len(row) - 1
  /\ d.codepoint = INVALID_CODEPOINT /\ (\E row \in RowsOf(encoding) : Stands(row, s, i)) =>
       Stands(ReplacementRow(encoding), s, i)
  /\ Stands(ReplacementRow(encoding), s, i) => d.codepoint = INVALID_CODEPOINT
  /\ s[i] <= 127 => d = Read(s[i], i)
  /\ s[i] > 127 => d.codepoint > 127 /\ \A k \in i + 1..d.index : s[k] > 127

LEMMA Faithful16 ==
  ASSUME NEW s \in Seq(utf16_t), NEW i \in 1..Len(s)
  PROVE  Faithful("utf16", s, i, decode_utf16(s, i))
<1> DEFINE d == decode_utf16(s, i)
           A == Within(0, 55295) \cup Within(57344, 65535)
           H == Within(55296, 56319)
           L == Within(56320, 57343)
           u == s[i]
           v == s[i + 1]
<1>1. /\ i \in Nat /\ i <= Len(s) /\ Len(s) \in Nat
      /\ u \in Nat /\ u <= 65535
  BY DEF utf16_t
<1>2. i # Len(s) => v \in Nat /\ v <= 65535
  <2>1. i # Len(s) => i + 1 \in 1..Len(s) BY <1>1
  <2> QED BY <2>1 DEF utf16_t
<1>3. /\ Stands(<<A>>, s, i) <=> u \in A
      /\ Stands(<<H, L>>, s, i) <=> i # Len(s) /\ u \in H /\ v \in L
      /\ Stands(<<{65533}>>, s, i) <=> u = 65533
  <2>1. Stands(<<A>>, s, i) <=> u \in A
    <3> HIDE DEF A
    <3> QED BY <1>1, Stands1
  <2>2. Stands(<<H, L>>, s, i) <=> i + 2 - 1 <= Len(s) /\ u \in H /\ v \in L
    <3> HIDE DEF H, L
    <3> QED BY <1>1, Stands2
  <2>3. i + 2 - 1 <= Len(s) <=> i # Len(s) BY <1>1
  <2>4. Stands(<<{65533}>>, s, i) <=> u \in {65533} BY <1>1, Stands1
  <2> QED BY <2>1, <2>2, <2>3, <2>4
<1>4. /\ RowsOf("utf16") = {<<A>>, <<H, L>>} /\ ReplacementRow("utf16") = <<{65533}>>
  BY DEF RowsOf, Rows16, ReplacementRow
<1>5. /\ u \in A <=> ~IsSurrogate(u)
      /\ u \in H <=> IsHighSurrogate(u)
      /\ IsHighSurrogate(u) => IsSurrogate(u) /\ u > 127
      /\ IsSurrogate(u) => u > 127
      /\ u = 65533 => ~IsSurrogate(u)
      /\ i # Len(s) => (v \in L <=> IsLowSurrogate(v))
      /\ i # Len(s) /\ IsLowSurrogate(v) => v > 127
  <2>1. /\ u \in A <=> ~IsSurrogate(u)
        /\ u \in H <=> IsHighSurrogate(u)
        /\ IsHighSurrogate(u) => IsSurrogate(u) /\ u > 127
        /\ IsSurrogate(u) => u > 127
        /\ u = 65533 => ~IsSurrogate(u)
    <3>1. u \in A <=> u <= 55295 \/ 57344 <= u BY <1>1, InWithin, SMT
    <3>2. u \in H <=> 55296 <= u /\ u <= 56319 BY <1>1, InWithin, SMT
    <3> HIDE DEF u, A, H
    <3> QED BY <1>1, <3>1, <3>2, SMT DEF IsSurrogate, IsHighSurrogate
  <2>2. i # Len(s) => (v \in L <=> IsLowSurrogate(v)) /\ (IsLowSurrogate(v) => v > 127)
    <3> HIDE DEF v
    <3> QED BY <1>2, InWithin, SMT DEF IsLowSurrogate
  <2> QED BY <2>1, <2>2
<1>6. Len(<<A>>) = 1 /\ Len(<<H, L>>) = 2 OBVIOUS
<1> HIDE DEF A, H, L
<1> DEFINE rows == {<<A>>, <<H, L>>}
           repl == <<{65533}>>
<1>7. ASSUME \/ /\ d.codepoint # INVALID_CODEPOINT
                 /\ \E row \in rows : Stands(row, s, i) /\ d.index = i + Len(row) - 1
                 /\ ~Stands(repl, s, i)
              \/ /\ d.codepoint = INVALID_CODEPOINT
                 /\ (\E row \in rows : Stands(row, s, i)) => Stands(repl, s, i),
              \/ u <= 127 /\ d = Read(u, i)
              \/ ~(u <= 127) /\ u > 127 /\ d.codepoint > 127 /\ \A k \in i + 1..d.index : s[k] > 127
       PROVE  Faithful("utf16", s, i, d)
  <2>1. u <= 127 => ~(u > 127) BY <1>1
  <2> HIDE DEF rows, repl, d
  <2>2. RowsOf("utf16") = rows /\ ReplacementRow("utf16") = repl BY <1>4 DEF rows, repl
  <2> QED BY <1>7, <2>1, <2>2, Zenon DEF Faithful
<1>8. CASE ~IsSurrogate(u)
  <2>1. d = Read(u, i) BY <1>8 DEF decode_utf16
  <2>2. d.codepoint = u /\ d.index = i BY <2>1 DEF Read
  <2>3. Stands(<<A>>, s, i) /\ i = i + Len(<<A>>) - 1 BY <1>1, <1>3, <1>5, <1>6, <1>8
  <2>4. \A k : k \notin i + 1..i BY <1>1
  <2>5. <<A>> \in rows OBVIOUS
  <2>6. u <= 127 \/ (~(u <= 127) /\ u > 127) BY <1>1
  <2>7. Stands(repl, s, i) <=> d.codepoint = INVALID_CODEPOINT BY <1>3, <2>2 DEF INVALID_CODEPOINT
  <2>8. \E row \in rows : Stands(row, s, i) /\ d.index = i + Len(row) - 1
    <3> HIDE DEF rows, d
    <3> QED BY <2>2, <2>3, <2>5
  <2> HIDE DEF d, rows, repl, u
  <2> QED BY <1>7, <2>1, <2>2, <2>4, <2>6, <2>7, <2>8, Zenon DEF d
<1>9. CASE IsSurrogate(u) /\ (~IsHighSurrogate(u) \/ i = Len(s) \/ ~IsLowSurrogate(v))
  <2>1. d = Read(INVALID_CODEPOINT, i) BY <1>9 DEF decode_utf16
  <2>2. d.codepoint = INVALID_CODEPOINT /\ d.index = i BY <2>1 DEF Read
  <2>3. ~Stands(<<A>>, s, i) /\ ~Stands(<<H, L>>, s, i) BY <1>3, <1>5, <1>9
  <2>4. \A k : k \notin i + 1..i BY <1>1
  <2>5. u > 127 /\ ~(u <= 127) BY <1>1, <1>5, <1>9
  <2>6. ~\E row \in rows : Stands(row, s, i) BY <2>3
  <2>7. d.codepoint > 127 BY <2>2 DEF INVALID_CODEPOINT
  <2>8. \A k \in i + 1..d.index : s[k] > 127 BY <2>2, <2>4
  <2> HIDE DEF d, rows, repl, u
  <2> QED BY <1>7, <2>2, <2>5, <2>6, <2>7, <2>8 DEF d
<1>10. CASE IsSurrogate(u) /\ ~(~IsHighSurrogate(u) \/ i = Len(s) \/ ~IsLowSurrogate(v))
  <2>1. d = Read(FromSurrogates(u, v), i + 1) BY <1>10 DEF decode_utf16
  <2>2. d.codepoint = FromSurrogates(u, v) /\ d.index = i + 1 BY <2>1 DEF Read
  <2>3. FromSurrogates(u, v) >= 65536
    <3>1. \A h, l \in Nat : (h % 1024) * 1024 + (l % 1024) + 65536 >= 65536 BY SMT
    <3> QED BY <1>1, <1>2, <1>10, <3>1 DEF FromSurrogates
  <2>4. FromSurrogates(u, v) \in Nat
    <3>1. \A h, l \in Nat : (h % 1024) * 1024 + (l % 1024) + 65536 \in Nat BY SMT
    <3> QED BY <1>1, <1>2, <1>10, <3>1 DEF FromSurrogates
  <2>5. Stands(<<H, L>>, s, i) /\ i + 1 = i + Len(<<H, L>>) - 1 BY <1>1, <1>3, <1>5, <1>6, <1>10
  <2>6. u > 127 /\ ~(u <= 127) /\ v > 127 BY <1>1, <1>5, <1>10
  <2>7. \A k \in i + 1..i + 1 : s[k] > 127 BY <1>1, <2>6
  <2>8. ~Stands(<<{65533}>>, s, i) BY <1>3, <1>5, <1>10
  <2>9. <<H, L>> \in rows OBVIOUS
  <2>10. \E row \in rows : Stands(row, s, i) /\ d.index = i + Len(row) - 1
    <3> HIDE DEF rows, d
    <3> QED BY <2>2, <2>5, <2>9
  <2>11. d.codepoint # INVALID_CODEPOINT /\ d.codepoint > 127
    <3> HIDE DEF d
    <3> QED BY <2>2, <2>3, <2>4 DEF INVALID_CODEPOINT
  <2>12. \A k \in i + 1..d.index : s[k] > 127 BY <2>2, <2>7
  <2> HIDE DEF d, rows, u
  <2> QED BY <1>7, <2>6, <2>8, <2>10, <2>11, <2>12 DEF d
<1> QED BY <1>8, <1>9, <1>10 DEF d

\* A row of the table is decoded; only that of U+FFFD as INVALID_CODEPOINT.
DecodesRow(s, i, n) ==
  /\ Leads(s[i], n) /\ Complete(s, i, n) /\ Proper(CodepointAt(s, i, n), n)
  /\ CodepointAt(s, i, n) = INVALID_CODEPOINT => Stands(<<{239}, {191}, {189}>>, s, i)

LEMMA Row1 ==
  ASSUME NEW s \in Seq(utf8_t), NEW i \in 1..Len(s)
  PROVE  /\ Stands(<<Within(0, 127)>>, s, i) => DecodesRow(s, i, 1)
         /\ Leads(s[i], 1) => Stands(<<Within(0, 127)>>, s, i)
<1> DEFINE a == s[i]
<1>1. a \in Nat /\ a <= 255 /\ i \in Nat /\ i <= Len(s) BY DEF utf8_t
<1>2. Stands(<<Within(0, 127)>>, s, i) <=> i + 1 - 1 <= Len(s) /\ a \in Within(0, 127)
  BY <1>1, Stands1
<1>3. CodepointAt(s, i, 1) = a % 128 BY DEF CodepointAt
<1>4. Complete(s, i, 1) BY <1>1, SMT DEF Complete
<1> HIDE DEF a
<1>5. a \in Within(0, 127) => Leads(a, 1) /\ Proper(a % 128, 1) /\ a % 128 # INVALID_CODEPOINT
  BY <1>1, InWithin, SMT DEF Leads, Proper, calculate_utf8_len, IsSurrogate, UNICODE_MAX,
                   INVALID_CODEPOINT
<1>6. Leads(a, 1) => a \in Within(0, 127) BY <1>1, InWithin, SMT DEF Leads
<1> QED BY <1>1, <1>2, <1>3, <1>4, <1>5, <1>6 DEF DecodesRow, a

LEMMA Row2 ==
  ASSUME NEW s \in Seq(utf8_t), NEW i \in 1..Len(s)
  PROVE  /\ Stands(<<Within(194, 223), Tail8>>, s, i) => DecodesRow(s, i, 2)
         /\ DecodesRow(s, i, 2) => Stands(<<Within(194, 223), Tail8>>, s, i)
<1> DEFINE a == s[i]
           b == s[i + 1]
           A == Within(194, 223)
<1>1. a \in Nat /\ a <= 255 /\ i \in Nat /\ Len(s) \in Nat BY DEF utf8_t
<1>2. Stands(<<A, Tail8>>, s, i) <=> i + 2 - 1 <= Len(s) /\ a \in A /\ b \in Tail8
  <2> HIDE DEF A
  <2> QED BY <1>1, Stands2
<1>3. CodepointAt(s, i, 2) = (a % 32) * 64 + (b % 64) BY SMT DEF CodepointAt
<1>4. Complete(s, i, 2) <=> i + 2 - 1 <= Len(s) /\ IsContinuation(b)
  BY <1>1, SMT DEF Complete
<1>5. i + 2 - 1 <= Len(s) => b \in Nat /\ b <= 255
  <2>1. i + 2 - 1 <= Len(s) => i + 1 \in 1..Len(s) BY <1>1
  <2> QED BY <2>1 DEF utf8_t
<1>6. b \in Nat /\ b <= 255 => (b \in Tail8 <=> IsContinuation(b))
  <2> HIDE DEF b
  <2> QED BY InWithin, SMT DEF Tail8, IsContinuation
<1>7. b \in Nat /\ a \in A =>
        LET c == (a % 32) * 64 + (b % 64)
        IN  Leads(a, 2) /\ Proper(c, 2) /\ c # INVALID_CODEPOINT
  <2> HIDE DEF a, b
  <2> QED BY <1>1, InWithin, SMT DEF Leads, Proper, calculate_utf8_len, IsSurrogate, UNICODE_MAX,
                   INVALID_CODEPOINT
<1>8. b \in Nat /\ Leads(a, 2) /\ Proper((a % 32) * 64 + (b % 64), 2) => a \in A
  <2> HIDE DEF a, b
  <2> QED BY <1>1, InWithin, SMT DEF Leads, Proper, calculate_utf8_len
<1> HIDE DEF b, A
<1> QED BY <1>2, <1>3, <1>4, <1>5, <1>6, <1>7, <1>8 DEF DecodesRow, A

LEMMA Remainders ==
  ASSUME NEW x \in Nat
  PROVE  /\ x <= 15 => (x + 224) % 16 = x
         /\ x <= 7 => (x + 240) % 8 = x
         /\ x <= 63 => (x + 128) % 64 = x
BY SMT

ThreeBytes == {<<{224}, Within(160, 191), Tail8>>,
               <<Within(225, 236) \cup {238, 239}, Tail8, Tail8>>,
               <<{237}, Within(128, 159), Tail8>>}
FourBytes == {<<{240}, Within(144, 191), Tail8, Tail8>>,
              <<Within(241, 243), Tail8, Tail8, Tail8>>,
              <<{244}, Within(128, 143), Tail8, Tail8>>}

LEMMA Row3 ==
  ASSUME NEW s \in Seq(utf8_t), NEW i \in 1..Len(s)
  PROVE  /\ DecodesRow(s, i, 3) <=> \E row \in ThreeBytes : Stands(row, s, i)
         /\ Stands(<<{239}, {191}, {189}>>, s, i) =>
              DecodesRow(s, i, 3) /\ CodepointAt(s, i, 3) = INVALID_CODEPOINT
<1> DEFINE a == s[i]
           b == s[i + 1]
           c == s[i + 2]
           M == Within(225, 236) \cup {238, 239}
           lo == Within(160, 191)
           hi == Within(128, 159)
           p == ((a % 16) * 64 + (b % 64)) * 64 + (c % 64)
           there == i + 3 - 1 <= Len(s)
<1>1. a \in Nat /\ a <= 255 /\ i \in Nat /\ Len(s) \in Nat BY DEF utf8_t
<1>2. /\ Stands(<<{224}, lo, Tail8>>, s, i) <=> there /\ a = 224 /\ b \in lo /\ c \in Tail8
      /\ Stands(<<M, Tail8, Tail8>>, s, i) <=> there /\ a \in M /\ b \in Tail8 /\ c \in Tail8
      /\ Stands(<<{237}, hi, Tail8>>, s, i) <=> there /\ a = 237 /\ b \in hi /\ c \in Tail8
      /\ Stands(<<{239}, {191}, {189}>>, s, i) <=> there /\ a = 239 /\ b = 191 /\ c = 189
  <2> HIDE DEF lo, hi, M
  <2>1. Stands(<<{224}, lo, Tail8>>, s, i) <=> there /\ a \in {224} /\ b \in lo /\ c \in Tail8
    BY <1>1, Stands3
  <2>2. Stands(<<M, Tail8, Tail8>>, s, i) <=> there /\ a \in M /\ b \in Tail8 /\ c \in Tail8
    BY <1>1, Stands3
  <2>3. Stands(<<{237}, hi, Tail8>>, s, i) <=> there /\ a \in {237} /\ b \in hi /\ c \in Tail8
    BY <1>1, Stands3
  <2>4. Stands(<<{239}, {191}, {189}>>, s, i) <=>
          there /\ a \in {239} /\ b \in {191} /\ c \in {189}
    BY <1>1, Stands3
  <2> QED BY <2>1, <2>2, <2>3, <2>4
<1>3. CodepointAt(s, i, 3) = p BY SMT DEF CodepointAt
<1>4. Complete(s, i, 3) <=> there /\ IsContinuation(b) /\ IsContinuation(c)
  BY <1>1, SMT DEF Complete
<1>5. there => b \in Nat /\ b <= 255 /\ c \in Nat /\ c <= 255
  <2>1. there => i + 1 \in 1..Len(s) /\ i + 2 \in 1..Len(s) BY <1>1
  <2> QED BY <2>1 DEF utf8_t
<1> HIDE DEF a, b, c
<1>6. ASSUME b \in Nat, b <= 255, c \in Nat, c <= 255
      PROVE  /\ b \in Tail8 <=> IsContinuation(b)
             /\ c \in Tail8 <=> IsContinuation(c)
             /\ b \in lo => b \in Tail8
             /\ b \in hi => b \in Tail8
             /\ Leads(a, 3) <=> a \in Within(224, 239)
  <2>1. /\ b \in Tail8 <=> 128 <= b /\ b <= 191
        /\ c \in Tail8 <=> 128 <= c /\ c <= 191
    BY <1>6, InTail8
  <2>2. /\ b \in Tail8 <=> IsContinuation(b)
        /\ c \in Tail8 <=> IsContinuation(c)
    BY <1>6, <2>1, SMT DEF IsContinuation
  <2>3. (b \in lo => b \in Tail8) /\ (b \in hi => b \in Tail8) BY <2>1, InWithin, SMT
  <2>4. Leads(a, 3) <=> a \in Within(224, 239) BY <1>1, InWithin, SMT DEF Leads
  <2> QED BY <2>2, <2>3, <2>4
<1>7. ASSUME b \in Tail8, c \in Tail8, a \in Within(224, 239)
      PROVE  /\ Proper(p, 3) <=> (a = 224 => b \in lo) /\ (a = 237 => b \in hi)
             /\ p = INVALID_CODEPOINT <=> a = 239 /\ b = 191 /\ c = 189
  <2> DEFINE x == a - 224
             y == b - 128
             z == c - 128
  <2>1. x \in 0..15 /\ y \in 0..63 /\ z \in 0..63 /\ a = x + 224 /\ b = y + 128 /\ c = z + 128
    <3>1. /\ a \in Nat /\ 224 <= a /\ a <= 239
          /\ b \in Nat /\ 128 <= b /\ b <= 191
          /\ c \in Nat /\ 128 <= c /\ c <= 191
      BY <1>7, InWithin, InTail8, SMT
    <3> QED BY <3>1, SMT
  <2> HIDE DEF x, y, z
  <2>2. a % 16 = x /\ b % 64 = y /\ c % 64 = z
    <3>1. x \in Nat /\ x <= 15 /\ y \in Nat /\ y <= 63 /\ z \in Nat /\ z <= 63 BY <2>1
    <3>2. (x + 224) % 16 = x /\ (y + 128) % 64 = y /\ (z + 128) % 64 = z BY <3>1, Remainders
    <3> QED BY <2>1, <3>2
  <2>3. p = x * 4096 + y * 64 + z
    <3>1. p = (x * 64 + y) * 64 + z BY <2>2
    <3> HIDE DEF p
    <3> QED BY <2>1, <3>1
  <2> HIDE DEF p
  <2>4. p = INVALID_CODEPOINT <=> a = 239 /\ b = 191 /\ c = 189
    BY <2>1, <2>3, SMT DEF INVALID_CODEPOINT
  <2>5. calculate_utf8_len(p) = 3 <=> (a = 224 => b \in lo)
    BY <2>1, <2>3, InWithin, SMT DEF calculate_utf8_len
  <2>6. p \in Nat /\ p <= UNICODE_MAX BY <2>1, <2>3, SMT DEF UNICODE_MAX
  <2>7. ~IsSurrogate(p) <=> (a = 237 => b \in hi)
    BY <2>1, <2>3, InWithin, SMT DEF IsSurrogate
  <2> QED BY <2>4, <2>5, <2>6, <2>7 DEF Proper
<1>8. a \in Within(224, 239) <=> a = 224 \/ a = 237 \/ a \in M
  BY <1>1, InWithin, SMT
<1>9. ~(224 \in M) /\ ~(237 \in M) BY InWithin, SMT
<1>10. 191 \in Tail8 /\ 189 \in Tail8 /\ 239 \in M BY InWithin, SMT DEF Tail8
<1> HIDE DEF p, M, lo, hi, there
<1>11. DecodesRow(s, i, 3) <=>
         \/ there /\ a = 224 /\ b \in lo /\ c \in Tail8
         \/ there /\ a \in M /\ b \in Tail8 /\ c \in Tail8
         \/ there /\ a = 237 /\ b \in hi /\ c \in Tail8
  <2>1. DecodesRow(s, i, 3) <=>
          /\ Leads(a, 3) /\ there /\ IsContinuation(b) /\ IsContinuation(c) /\ Proper(p, 3)
          /\ p = INVALID_CODEPOINT => a = 239 /\ b = 191 /\ c = 189
    BY <1>2, <1>3, <1>4 DEF DecodesRow, a
  <2> QED BY <2>1, <1>5, <1>6, <1>7, <1>8, <1>9
<1>12. Stands(<<{239}, {191}, {189}>>, s, i) => DecodesRow(s, i, 3) /\ p = INVALID_CODEPOINT
  BY <1>2, <1>7, <1>8, <1>10, <1>11
<1>13. DecodesRow(s, i, 3) <=>
         \/ Stands(<<{224}, lo, Tail8>>, s, i)
         \/ Stands(<<M, Tail8, Tail8>>, s, i)
         \/ Stands(<<{237}, hi, Tail8>>, s, i)
  BY <1>2, <1>11
<1>14. ThreeBytes = {<<{224}, lo, Tail8>>, <<M, Tail8, Tail8>>, <<{237}, hi, Tail8>>}
  BY DEF ThreeBytes, lo, hi, M
<1> HIDE DEF DecodesRow
<1>15. DecodesRow(s, i, 3) <=> \E row \in ThreeBytes : Stands(row, s, i) BY <1>13, <1>14
<1> QED BY <1>3, <1>12, <1>15

LEMMA Row4 ==
  ASSUME NEW s \in Seq(utf8_t), NEW i \in 1..Len(s)
  PROVE  DecodesRow(s, i, 4) <=> \E row \in FourBytes : Stands(row, s, i)
<1> DEFINE a == s[i]
           b == s[i + 1]
           c == s[i + 2]
           d == s[i + 3]
           M == Within(241, 243)
           lo == Within(144, 191)
           hi == Within(128, 143)
           p == (((a % 8) * 64 + (b % 64)) * 64 + (c % 64)) * 64 + (d % 64)
           there == i + 4 - 1 <= Len(s)
<1>1. a \in Nat /\ a <= 255 /\ i \in Nat /\ Len(s) \in Nat BY DEF utf8_t
<1>2. /\ Stands(<<{240}, lo, Tail8, Tail8>>, s, i) <=>
           there /\ a = 240 /\ b \in lo /\ c \in Tail8 /\ d \in Tail8
      /\ Stands(<<M, Tail8, Tail8, Tail8>>, s, i) <=>
           there /\ a \in M /\ b \in Tail8 /\ c \in Tail8 /\ d \in Tail8
      /\ Stands(<<{244}, hi, Tail8, Tail8>>, s, i) <=>
           there /\ a = 244 /\ b \in hi /\ c \in Tail8 /\ d \in Tail8
  <2> HIDE DEF lo, hi, M
  <2>1. Stands(<<{240}, lo, Tail8, Tail8>>, s, i) <=>
          there /\ a \in {240} /\ b \in lo /\ c \in Tail8 /\ d \in Tail8
    BY <1>1, Stands4
  <2>2. Stands(<<M, Tail8, Tail8, Tail8>>, s, i) <=>
          there /\ a \in M /\ b \in Tail8 /\ c \in Tail8 /\ d \in Tail8
    BY <1>1, Stands4
  <2>3. Stands(<<{244}, hi, Tail8, Tail8>>, s, i) <=>
          there /\ a \in {244} /\ b \in hi /\ c \in Tail8 /\ d \in Tail8
    BY <1>1, Stands4
  <2> QED BY <2>1, <2>2, <2>3
<1>3. CodepointAt(s, i, 4) = p BY SMT DEF CodepointAt
<1>4. Complete(s, i, 4) <=> there /\ IsContinuation(b) /\ IsContinuation(c) /\ IsContinuation(d)
  BY <1>1, SMT DEF Complete
<1>5. there => b \in Nat /\ b <= 255 /\ c \in Nat /\ c <= 255 /\ d \in Nat /\ d <= 255
  <2>1. there => i + 1 \in 1..Len(s) /\ i + 2 \in 1..Len(s) /\ i + 3 \in 1..Len(s) BY <1>1
  <2> QED BY <2>1 DEF utf8_t
<1> HIDE DEF a, b, c, d
<1>6. ASSUME b \in Nat, b <= 255, c \in Nat, c <= 255, d \in Nat, d <= 255
      PROVE  /\ b \in Tail8 <=> IsContinuation(b)
             /\ c \in Tail8 <=> IsContinuation(c)
             /\ d \in Tail8 <=> IsContinuation(d)
             /\ b \in lo => b \in Tail8
             /\ b \in hi => b \in Tail8
             /\ Leads(a, 4) <=> a \in Within(240, 247)
  <2>1. /\ b \in Tail8 <=> 128 <= b /\ b <= 191
        /\ c \in Tail8 <=> 128 <= c /\ c <= 191
    BY <1>6, InTail8
  <2>2. /\ b \in Tail8 <=> IsContinuation(b)
        /\ c \in Tail8 <=> IsContinuation(c)
    BY <1>6, <2>1, SMT DEF IsContinuation
  <2>3. (b \in lo => b \in Tail8) /\ (b \in hi => b \in Tail8) BY <2>1, InWithin, SMT
  <2>4. (d \in Tail8 <=> IsContinuation(d)) /\ (Leads(a, 4) <=> a \in Within(240, 247))
    <3>1. d \in Tail8 <=> 128 <= d /\ d <= 191 BY <1>6, InTail8
    <3>2. a \in Within(240, 247) <=> 240 <= a /\ a <= 247 BY <1>1, InWithin, SMT
    <3> QED BY <1>1, <1>6, <3>1, <3>2, SMT DEF IsContinuation, Leads
  <2> QED BY <2>2, <2>3, <2>4
<1>7. ASSUME b \in Tail8, c \in Tail8, d \in Tail8, a \in Within(240, 247)
      PROVE  /\ Proper(p, 4) <=> a <= 244 /\ (a = 240 => b \in lo) /\ (a = 244 => b \in hi)
             /\ Proper(p, 4) => p # INVALID_CODEPOINT
  <2> DEFINE x == a - 240
             y == b - 128
             z == c - 128
             w == d - 128
  <2>1. /\ x \in 0..7 /\ y \in 0..63 /\ z \in 0..63 /\ w \in 0..63
        /\ a = x + 240 /\ b = y + 128 /\ c = z + 128 /\ d = w + 128
    <3>1. /\ a \in Nat /\ 240 <= a /\ a <= 247
          /\ b \in Nat /\ 128 <= b /\ b <= 191
          /\ c \in Nat /\ 128 <= c /\ c <= 191
          /\ d \in Nat /\ 128 <= d /\ d <= 191
      BY <1>7, InWithin, InTail8, SMT
    <3> QED BY <3>1, SMT
  <2> HIDE DEF x, y, z, w
  <2>2. a % 8 = x /\ b % 64 = y /\ c % 64 = z /\ d % 64 = w
    <3>1. /\ x \in Nat /\ x <= 7 /\ y \in Nat /\ y <= 63 /\ z \in Nat /\ z <= 63
          /\ w \in Nat /\ w <= 63
      BY <2>1
    <3>2. /\ (x + 240) % 8 = x /\ (y + 128) % 64 = y
          /\ (z + 128) % 64 = z /\ (w + 128) % 64 = w
      BY <3>1, Remainders
    <3> QED BY <2>1, <3>2
  <2>3. p = x * 262144 + y * 4096 + z * 64 + w
    <3>1. p = ((x * 64 + y) * 64 + z) * 64 + w BY <2>2
    <3> HIDE DEF p
    <3> QED BY <2>1, <3>1
  <2> HIDE DEF p
  <2>4. calculate_utf8_len(p) = 4 <=> p > 65535
    BY <2>1, <2>3, SMT DEF calculate_utf8_len
  <2>5. p > 65535 <=> (a = 240 => b \in lo)
    BY <2>1, <2>3, InWithin, SMT
  <2>6. p <= UNICODE_MAX <=> a <= 244 /\ (a = 244 => b \in hi)
    BY <2>1, <2>3, InWithin, SMT DEF UNICODE_MAX
  <2>7. p > 65535 => ~IsSurrogate(p) /\ p # INVALID_CODEPOINT
    <3>1. p \in Nat BY <2>1, <2>3, SMT
    <3> QED BY <3>1, SMT DEF IsSurrogate, INVALID_CODEPOINT
  <2> QED BY <2>4, <2>5, <2>6, <2>7 DEF Proper
<1>8. a \in Within(240, 247) /\ a <= 244 <=> a = 240 \/ a = 244 \/ a \in M
  BY <1>1, InWithin, SMT
<1>9. ~(240 \in M) /\ ~(244 \in M) BY InWithin, SMT
<1> HIDE DEF p, M, lo, hi, there
<1>10. DecodesRow(s, i, 4) <=>
         \/ there /\ a = 240 /\ b \in lo /\ c \in Tail8 /\ d \in Tail8
         \/ there /\ a \in M /\ b \in Tail8 /\ c \in Tail8 /\ d \in Tail8
         \/ there /\ a = 244 /\ b \in hi /\ c \in Tail8 /\ d \in Tail8
  <2>1. DecodesRow(s, i, 4) <=>
          /\ Leads(a, 4) /\ there /\ IsContinuation(b) /\ IsContinuation(c) /\ IsContinuation(d)
          /\ Proper(p, 4)
          /\ p = INVALID_CODEPOINT => Stands(<<{239}, {191}, {189}>>, s, i)
    BY <1>3, <1>4 DEF DecodesRow, a
  <2> QED BY <2>1, <1>5, <1>6, <1>7, <1>8, <1>9
<1>11. DecodesRow(s, i, 4) <=>
         \/ Stands(<<{240}, lo, Tail8, Tail8>>, s, i)
         \/ Stands(<<M, Tail8, Tail8, Tail8>>, s, i)
         \/ Stands(<<{244}, hi, Tail8, Tail8>>, s, i)
  BY <1>2, <1>10
<1>12. FourBytes = {<<{240}, lo, Tail8, Tail8>>, <<M, Tail8, Tail8, Tail8>>,
                    <<{244}, hi, Tail8, Tail8>>}
  BY DEF FourBytes, lo, hi, M
<1> HIDE DEF DecodesRow
<1> QED BY <1>11, <1>12

LEMMA RowsDecode8 ==
  ASSUME NEW s \in Seq(utf8_t), NEW i \in 1..Len(s)
  PROVE  /\ \A row \in Rows8 : Stands(row, s, i) => DecodesRow(s, i, Len(row))
         /\ \A n \in 1..4 : DecodesRow(s, i, n) =>
              \E row \in Rows8 : Stands(row, s, i) /\ Len(row) = n
<1> DEFINE A == Within(0, 127)
           B == Within(194, 223)
           C1 == Within(160, 191)
           C2 == Within(225, 236) \cup {238, 239}
           C3 == Within(128, 159)
           D1 == Within(144, 191)
           D2 == Within(241, 243)
           D3 == Within(128, 143)
           T == Tail8
           rows1 == {<<A>>}
           rows2 == {<<B, T>>}
<1>1. DecodesRow(s, i, 1) <=> \E row \in rows1 : Stands(row, s, i)
  <2>1. DecodesRow(s, i, 1) => Stands(<<A>>, s, i) BY Row1 DEF DecodesRow
  <2>2. Stands(<<A>>, s, i) => DecodesRow(s, i, 1) BY Row1
  <2> HIDE DEF A
  <2> QED BY <2>1, <2>2
<1>2. DecodesRow(s, i, 2) <=> \E row \in rows2 : Stands(row, s, i)
  <2>1. DecodesRow(s, i, 2) <=> Stands(<<B, T>>, s, i) BY Row2
  <2> HIDE DEF B, T
  <2> QED BY <2>1
<1>3. DecodesRow(s, i, 3) <=> \E row \in ThreeBytes : Stands(row, s, i) BY Row3
<1>4. DecodesRow(s, i, 4) <=> \E row \in FourBytes : Stands(row, s, i) BY Row4
<1>5. Rows8 = rows1 \cup rows2 \cup ThreeBytes \cup FourBytes
  <2>1. Rows8 = {<<A>>, <<B, T>>, <<{224}, C1, T>>, <<C2, T, T>>, <<{237}, C3, T>>,
                 <<{240}, D1, T, T>>, <<D2, T, T, T>>, <<{244}, D3, T, T>>}
    BY DEF Rows8
  <2> DEFINE r1 == <<A>>
             r2 == <<B, T>>
             r3 == <<{224}, C1, T>>
             r4 == <<C2, T, T>>
             r5 == <<{237}, C3, T>>
             r6 == <<{240}, D1, T, T>>
             r7 == <<D2, T, T, T>>
             r8 == <<{244}, D3, T, T>>
  <2> HIDE DEF r1, r2, r3, r4, r5, r6, r7, r8
  <2>2. \A x1, x2, x3, x4, x5, x6, x7, x8 :
          {x1, x2, x3, x4, x5, x6, x7, x8} = {x1} \cup {x2} \cup {x3, x4, x5} \cup {x6, x7, x8}
    OBVIOUS
  <2>3. {r1, r2, r3, r4, r5, r6, r7, r8} = {r1} \cup {r2} \cup {r3, r4, r5} \cup {r6, r7, r8}
    BY <2>2
  <2>4. ThreeBytes = {r3, r4, r5} BY DEF ThreeBytes, r3, r4, r5
  <2>5. FourBytes = {r6, r7, r8} BY DEF FourBytes, r6, r7, r8
  <2>6. rows1 = {r1} /\ rows2 = {r2} BY DEF r1, r2
  <2>7. Rows8 = {r1, r2, r3, r4, r5, r6, r7, r8}
    BY <2>1, Zenon DEF r1, r2, r3, r4, r5, r6, r7, r8
  <2> HIDE DEF rows1, rows2
  <2> QED BY <2>3, <2>4, <2>5, <2>6, <2>7
<1>6. /\ \A row \in rows1 : Len(row) = 1
      /\ \A row \in rows2 : Len(row) = 2
      /\ \A row \in ThreeBytes : Len(row) = 3
      /\ \A row \in FourBytes : Len(row) = 4
  <2> HIDE DEF A, B, C1, C2, C3, D1, D2, D3, T
  <2>1. \A row \in rows1 : Len(row) = 1 OBVIOUS
  <2>2. \A row \in rows2 : Len(row) = 2 OBVIOUS
  <2>3. \A row \in ThreeBytes : Len(row) = 3 BY DEF ThreeBytes
  <2>4. \A row \in FourBytes : Len(row) = 4 BY DEF FourBytes
  <2> QED BY <2>1, <2>2, <2>3, <2>4
<1> HIDE DEF rows1, rows2, DecodesRow, Stands
<1>7. ASSUME NEW row \in Rows8, Stands(row, s, i) PROVE DecodesRow(s, i, Len(row))
  <2>1. row \in rows1 \/ row \in rows2 \/ row \in ThreeBytes \/ row \in FourBytes BY <1>5
  <2> QED BY <1>1, <1>2, <1>3, <1>4, <1>6, <1>7, <2>1
<1>8. ASSUME NEW n \in 1..4, DecodesRow(s, i, n)
      PROVE  \E row \in Rows8 : Stands(row, s, i) /\ Len(row) = n
  <2>1. n = 1 \/ n = 2 \/ n = 3 \/ n = 4 OBVIOUS
  <2>2. CASE n = 1 BY <1>1, <1>5, <1>6, <1>8, <2>2
  <2>3. CASE n = 2 BY <1>2, <1>5, <1>6, <1>8, <2>3
  <2>4. CASE n = 3 BY <1>3, <1>5, <1>6, <1>8, <2>4
  <2>5. CASE n = 4 BY <1>4, <1>5, <1>6, <1>8, <2>5
  <2> QED BY <2>1, <2>2, <2>3, <2>4, <2>5
<1> QED BY <1>7, <1>8

LEMMA Faithful8 ==
  ASSUME NEW s \in Seq(utf8_t), NEW i \in 1..Len(s)
  PROVE  Faithful("utf8", s, i, decode_utf8(s, i))
<1> DEFINE d == decode_utf8(s, i)
           repl == <<{239}, {191}, {189}>>
           u == s[i]
<1>1. i \in Nat /\ i <= Len(s) /\ Len(s) \in Nat /\ u \in Nat /\ u <= 255 BY DEF utf8_t
<1>2. RowsOf("utf8") = Rows8 /\ ReplacementRow("utf8") = repl
  BY DEF RowsOf, ReplacementRow
<1>3. d.codepoint \in Nat BY Reads8 DEF Scalars
<1>4. ASSUME NEW n \in 1..4, Leads(u, n), Complete(s, i, n), Proper(CodepointAt(s, i, n), n)
      PROVE  d.codepoint = CodepointAt(s, i, n)
  <2>1. d = Read(CodepointAt(s, i, n), i + n - 1) BY <1>4, ReadsComplete8
  <2> QED BY <2>1 DEF Read
<1>5. ASSUME d.codepoint # INVALID_CODEPOINT
      PROVE  \E row \in Rows8 : Stands(row, s, i) /\ d.index = i + Len(row) - 1
  <2>1. d # Read(INVALID_CODEPOINT, i) BY <1>5 DEF Read
  <2>2. PICK n \in 1..4, f \in 1..4 : Decodes(s, i, n, f, d) BY <2>1, Decodes8
  <2>3. f = n /\ Proper(CodepointAt(s, i, n), n) BY <1>5, <2>2 DEF Decodes, Read
  <2>4. d.codepoint = CodepointAt(s, i, n) /\ d.index = i + n - 1 BY <2>2, <2>3 DEF Decodes, Read
  <2>5. DecodesRow(s, i, n) BY <1>5, <2>2, <2>3, <2>4 DEF Decodes, DecodesRow
  <2>6. \E row \in Rows8 : Stands(row, s, i) /\ Len(row) = n BY <2>5, RowsDecode8
  <2> HIDE DEF d
  <2> QED BY <2>4, <2>6
<1>6. ASSUME d.codepoint = INVALID_CODEPOINT, NEW row \in Rows8, Stands(row, s, i)
      PROVE  Stands(repl, s, i)
  <2> DEFINE n == Len(row)
  <2>1. n \in 1..4
    <3>1. row \in RowsOf("utf8") BY <1>2
    <3> QED BY <3>1, Rows
  <2>2. DecodesRow(s, i, n) BY <1>6, RowsDecode8
  <2>3. CodepointAt(s, i, n) = INVALID_CODEPOINT BY <1>4, <1>6, <2>1, <2>2 DEF DecodesRow
  <2> QED BY <2>2, <2>3 DEF DecodesRow
<1>7. Stands(repl, s, i) => d.codepoint = INVALID_CODEPOINT
  <2>1. Stands(repl, s, i) => DecodesRow(s, i, 3) /\ CodepointAt(s, i, 3) = INVALID_CODEPOINT
    BY Row3
  <2>2. 3 \in 1..4 OBVIOUS
  <2> QED BY <1>4, <2>1, <2>2 DEF DecodesRow
<1>8. ASSUME u <= 127 PROVE d = Read(u, i)
  <2>1. Leads(u, 1) BY <1>1, <1>8, SMT DEF Leads
  <2>2. Complete(s, i, 1) BY <1>1, SMT DEF Complete
  <2>3. CodepointAt(s, i, 1) = u
    <3>1. u % 128 = u BY <1>1, <1>8, SMT
    <3> QED BY <3>1 DEF CodepointAt
  <2>4. Proper(u, 1)
    BY <1>1, <1>8, SMT DEF Proper, calculate_utf8_len, IsSurrogate, UNICODE_MAX
  <2>5. i + 1 - 1 = i /\ 1 \in 1..4 BY <1>1
  <2> QED BY <2>1, <2>2, <2>3, <2>4, <2>5, ReadsComplete8
<1>9. ASSUME u > 127 PROVE d.codepoint > 127 /\ \A k \in i + 1..d.index : s[k] > 127
  <2>1. CASE d = Read(INVALID_CODEPOINT, i)
    <3>1. d.codepoint = 65533 /\ d.index = i BY <2>1 DEF Read, INVALID_CODEPOINT
    <3> HIDE DEF d
    <3> QED BY <1>1, <3>1
  <2>2. CASE d # Read(INVALID_CODEPOINT, i)
    <3>1. PICK n \in 1..4, f \in 1..4 : Decodes(s, i, n, f, d) BY <2>2, Decodes8
    <3>2. d.index = i + f - 1 BY <3>1 DEF Decodes, Read
    <3>3. n # 1 BY <1>1, <1>9, <3>1, SMT DEF Decodes, Leads
    <3>4. d.codepoint > 127
      <4>1. CASE f = n /\ Proper(CodepointAt(s, i, n), n)
        <5>1. d.codepoint = CodepointAt(s, i, n) BY <3>1, <4>1 DEF Decodes, Read
        <5>2. calculate_utf8_len(d.codepoint) = n BY <4>1, <5>1 DEF Proper
        <5> HIDE DEF d
        <5> QED BY <1>3, <3>3, <5>2 DEF calculate_utf8_len
      <4>2. CASE ~(f = n /\ Proper(CodepointAt(s, i, n), n))
        <5>1. d.codepoint = 65533 BY <3>1, <4>2 DEF Decodes, Read, INVALID_CODEPOINT
        <5> HIDE DEF d
        <5> QED BY <5>1
      <4> QED BY <4>1, <4>2
    <3>5. ASSUME NEW k \in i + 1..d.index PROVE s[k] > 127
      <4> DEFINE j == k - i
      <4>1. j \in 1..f - 1 /\ k = i + j /\ k \in Nat
        <5> HIDE DEF d
        <5> QED BY <1>1, <3>2
      <4>2. IsContinuation(s[k]) /\ k <= Len(s)
        <5>1. /\ i + f - 1 <= Len(s) /\ f \in 1..4
              /\ \A m \in 1..f - 1 : IsContinuation(s[i + m])
          BY <3>1 DEF Decodes, Complete
        <5>2. j \in 1..f - 1 /\ k = i + j BY <4>1
        <5> HIDE DEF j
        <5>3. IsContinuation(s[k]) BY <5>1, <5>2, Zenon
        <5>4. k <= Len(s) BY <1>1, <5>1, <5>2
        <5> QED BY <5>3, <5>4
      <4>3. k \in 1..Len(s) BY <1>1, <4>1, <4>2
      <4>4. s[k] \in Nat BY <4>3 DEF utf8_t
      <4> QED BY <4>2, <4>4, SMT DEF IsContinuation
    <3> QED BY <3>4, <3>5
  <2> QED BY <2>1, <2>2
<1> HIDE DEF d, repl, u
<1>10. Faithful("utf8", s, i, d)
  BY <1>2, <1>5, <1>6, <1>7, <1>8, <1>9, Zenon DEF Faithful, u
<1> QED BY <1>10 DEF d

-----------------------------------------------------------------------------
(* Rows side by side. *)

\* What begins a row of the table tells its length.
Begins8(row, u) ==
  /\ u \in Nat
  /\ Len(row) = 1 => u <= 127
  /\ Len(row) = 2 => 192 <= u /\ u <= 223
  /\ Len(row) = 3 => 224 <= u /\ u <= 239
  /\ Len(row) = 4 => 240 <= u

Begins16(row, u) == Len(row) = 1 <=> ~IsHighSurrogate(u)

LEMMA Shape8 ==
  ASSUME NEW row \in Rows8
  PROVE  /\ \A u \in row[1] : Begins8(row, u)
         /\ \A j \in 2..Len(row) : \A u \in row[j] : u \in Nat /\ 128 <= u /\ u <= 191
<1> DEFINE Good(r) == /\ \A u \in r[1] : Begins8(r, u)
                      /\ \A j \in 2..Len(r) : \A u \in r[j] : u \in Nat /\ 128 <= u /\ u <= 191
<1>1. Good(<<Within(0, 127)>>) BY InWithin, SMT DEF Begins8
<1>2. Good(<<Within(194, 223), Tail8>>) BY InWithin, SMT DEF Tail8, Begins8
<1>3. Good(<<{224}, Within(160, 191), Tail8>>) BY InWithin, SMT DEF Tail8, Begins8
<1>4. Good(<<Within(225, 236) \cup {238, 239}, Tail8, Tail8>>) BY InWithin, SMT DEF Tail8, Begins8
<1>5. Good(<<{237}, Within(128, 159), Tail8>>) BY InWithin, SMT DEF Tail8, Begins8
<1>6. Good(<<{240}, Within(144, 191), Tail8, Tail8>>) BY InWithin, SMT DEF Tail8, Begins8
<1>7. Good(<<Within(241, 243), Tail8, Tail8, Tail8>>) BY InWithin, SMT DEF Tail8, Begins8
<1>8. Good(<<{244}, Within(128, 143), Tail8, Tail8>>) BY InWithin, SMT DEF Tail8, Begins8
<1>9. Good(row)
  <2> DEFINE r1 == <<Within(0, 127)>>
             r2 == <<Within(194, 223), Tail8>>
             r3 == <<{224}, Within(160, 191), Tail8>>
             r4 == <<Within(225, 236) \cup {238, 239}, Tail8, Tail8>>
             r5 == <<{237}, Within(128, 159), Tail8>>
             r6 == <<{240}, Within(144, 191), Tail8, Tail8>>
             r7 == <<Within(241, 243), Tail8, Tail8, Tail8>>
             r8 == <<{244}, Within(128, 143), Tail8, Tail8>>
  <2> HIDE DEF Good
  <2>1. Good(r1) /\ Good(r2) /\ Good(r3) /\ Good(r4) /\ Good(r5) /\ Good(r6) /\ Good(r7) /\ Good(r8)
    BY <1>1, <1>2, <1>3, <1>4, <1>5, <1>6, <1>7, <1>8
  <2>2. Rows8 = {r1, r2, r3, r4, r5, r6, r7, r8} BY DEF Rows8
  <2> HIDE DEF r1, r2, r3, r4, r5, r6, r7, r8
  <2> QED BY <2>1, <2>2
<1> QED BY <1>9 DEF Good

LEMMA Shape16 ==
  ASSUME NEW row \in Rows16
  PROVE  /\ \A u \in row[1] : Begins16(row, u) /\ ~IsLowSurrogate(u)
         /\ \A j \in 2..Len(row) : \A u \in row[j] : IsLowSurrogate(u)
<1> DEFINE Good(r) == /\ \A u \in r[1] : Begins16(r, u) /\ ~IsLowSurrogate(u)
                      /\ \A j \in 2..Len(r) : \A u \in r[j] : IsLowSurrogate(u)
<1>1. Good(<<Within(0, 55295) \cup Within(57344, 65535)>>)
  BY InWithin, SMT DEF Begins16, IsHighSurrogate, IsLowSurrogate
<1>2. Good(<<Within(55296, 56319), Within(56320, 57343)>>)
  BY InWithin, SMT DEF Begins16, IsHighSurrogate, IsLowSurrogate
<1> HIDE DEF Good
<1>3. Good(row)
  <2> DEFINE r == <<Within(0, 55295) \cup Within(57344, 65535)>>
             q == <<Within(55296, 56319), Within(56320, 57343)>>
  <2>1. Rows16 = {r, q} /\ Good(r) /\ Good(q) BY <1>1, <1>2 DEF Rows16
  <2> HIDE DEF r, q
  <2> QED BY <2>1
<1> QED BY <1>3 DEF Good

\* What begins a row is nowhere else in one.
LEMMA BeginsOnly ==
  ASSUME NEW encoding \in {"utf16", "utf8"},
         NEW r \in RowsOf(encoding), NEW q \in RowsOf(encoding), NEW u \in r[1]
  PROVE  /\ u \in q[1] => Len(q) = Len(r)
         /\ \A j \in 2..Len(q) : u \notin q[j]
<1>1. Len(r) \in 1..4 /\ Len(q) \in 1..4 BY Rows
<1>2. CASE encoding = "utf16"
  <2>1. r \in Rows16 /\ q \in Rows16 BY <1>2 DEF RowsOf
  <2>2. (Len(r) = 1 \/ Len(r) = 2) /\ (Len(q) = 1 \/ Len(q) = 2) BY <2>1, SMT DEF Rows16
  <2>3. Begins16(r, u) /\ ~IsLowSurrogate(u) /\ (u \in q[1] => Begins16(q, u))
    BY <2>1, Shape16
  <2>4. \A j \in 2..Len(q) : u \notin q[j] BY <2>1, <2>3, Shape16
  <2>5. u \in q[1] => Len(q) = Len(r) BY <2>2, <2>3 DEF Begins16
  <2> QED BY <2>4, <2>5
<1>3. CASE encoding = "utf8"
  <2>1. r \in Rows8 /\ q \in Rows8 BY <1>3 DEF RowsOf
  <2>2. Begins8(r, u) /\ (u \in q[1] => Begins8(q, u)) BY <2>1, Shape8
  <2>3. u \in Nat /\ (u <= 127 \/ 192 <= u) BY <1>1, <2>2 DEF Begins8
  <2>4. \A j \in 2..Len(q) : u \notin q[j]
    <3>1. ASSUME NEW j \in 2..Len(q), u \in q[j] PROVE FALSE
      <4>1. 128 <= u /\ u <= 191 BY <2>1, <3>1, Shape8
      <4> QED BY <2>3, <4>1
    <3> QED BY <3>1
  <2>5. u \in q[1] => Len(q) = Len(r) BY <1>1, <2>2 DEF Begins8
  <2> QED BY <2>4, <2>5
<1> QED BY <1>2, <1>3

LEMMA ReplacementBegins ==
  ASSUME NEW encoding \in {"utf16", "utf8"}, NEW s, NEW i \in Nat,
         Stands(ReplacementRow(encoding), s, i)
  PROVE  \E row \in RowsOf(encoding) : s[i] \in row[1]
<1>1. CASE encoding = "utf16"
  <2> DEFINE row == <<Within(0, 55295) \cup Within(57344, 65535)>>
  <2>1. s[i] = 65533 BY <1>1, Stands1 DEF ReplacementRow
  <2>2. 65533 \in row[1] BY InWithin, SMT
  <2>3. row \in RowsOf(encoding) BY <1>1 DEF RowsOf, Rows16
  <2> HIDE DEF row
  <2> QED BY <2>1, <2>2, <2>3
<1>2. CASE encoding = "utf8"
  <2> DEFINE row == <<Within(225, 236) \cup {238, 239}, Tail8, Tail8>>
  <2>1. s[i] = 239 BY <1>2, Stands3 DEF ReplacementRow
  <2>2. 239 \in row[1] BY SMT
  <2>3. row \in RowsOf(encoding) BY <1>2 DEF RowsOf, Rows8
  <2> HIDE DEF row
  <2> QED BY <2>1, <2>2, <2>3
<1> QED BY <1>1, <1>2

\* One more row after the first i - 1 units.
LEMMA CoveredFurther ==
  ASSUME NEW encoding, NEW s, NEW i \in Nat \ {0}, NEW r \in RowsOf(encoding), Stands(r, s, i),
         Covered(RowsOf(encoding), s, i - 1)
  PROVE  Covered(RowsOf(encoding), s, i + Len(r) - 1)
<1> DEFINE rows == RowsOf(encoding)
           n == i + Len(r) - 1
<1>1. Len(r) \in 1..4 BY Rows
<1>2. \A row \in rows : Len(row) \in 1..4 BY Rows
<1> HIDE DEF rows
<1> SUFFICES ASSUME NEW k \in 1..n
             PROVE  \E row \in rows, l \in 1..k :
                      k < l + Len(row) /\ l + Len(row) - 1 <= n /\ Stands(row, s, l)
  BY DEF Covered, rows
<1>3. CASE k < i
  <2>1. k \in 1..i - 1 BY <1>1, <1>3
  <2>2. PICK row \in rows, l \in 1..k :
          k < l + Len(row) /\ l + Len(row) - 1 <= i - 1 /\ Stands(row, s, l)
    BY <2>1 DEF Covered, rows
  <2>3. l + Len(row) - 1 <= n BY <1>1, <1>2, <2>2
  <2> QED BY <2>2, <2>3
<1>4. CASE ~(k < i)
  <2>1. i \in 1..k /\ k < i + Len(r) /\ i + Len(r) - 1 <= n BY <1>1, <1>4
  <2> QED BY <2>1 DEF rows
<1> QED BY <1>3, <1>4

\* Rows fill the first i - 1 units and none begins at i: the text is ill formed.
LEMMA IllFormedFrom ==
  ASSUME NEW encoding \in {"utf16", "utf8"}, NEW s, Len(s) \in Nat, NEW i \in 1..Len(s),
         Covered(RowsOf(encoding), s, i - 1),
         \A row \in RowsOf(encoding) : ~Stands(row, s, i)
  PROVE  ~WellFormed(encoding, s)
<1> DEFINE rows == RowsOf(encoding)
<1> SUFFICES ASSUME Covered(rows, s, Len(s)) PROVE FALSE BY DEF WellFormed
<1>1. \A row \in rows : Len(row) \in 1..4 BY Rows
<1>2. PICK r \in rows, l \in 1..i :
        i < l + Len(r) /\ l + Len(r) - 1 <= Len(s) /\ Stands(r, s, l)
  BY DEF Covered
<1>3. l # i BY <1>2
<1>4. l \in 1..i - 1 BY <1>2, <1>3
<1>5. PICK q \in rows, m \in 1..l :
        l < m + Len(q) /\ m + Len(q) - 1 <= i - 1 /\ Stands(q, s, m)
  BY <1>4 DEF Covered
<1>6. s[l] \in r[1]
  <2>1. 1 \in 1..Len(r) /\ l + 1 - 1 = l BY <1>1, <1>2
  <2> QED BY <1>2, <2>1 DEF Stands
<1>7. s[l] \in q[l - m + 1]
  <2>1. l - m + 1 \in 1..Len(q) /\ m + (l - m + 1) - 1 = l BY <1>1, <1>5
  <2>2. s[m + (l - m + 1) - 1] \in q[l - m + 1] BY <1>5, <2>1 DEF Stands
  <2> QED BY <2>1, <2>2
<1>8. CASE l = m
  <2>1. l - m + 1 = 1 BY <1>8
  <2>2. Len(q) = Len(r) BY <1>6, <1>7, <2>1, BeginsOnly
  <2> QED BY <1>1, <1>2, <1>5, <1>8, <2>2
<1>9. CASE l # m
  <2>1. l - m + 1 \in 2..Len(q) BY <1>1, <1>5, <1>9
  <2> QED BY <1>6, <1>7, <2>1, BeginsOnly
<1> QED BY <1>8, <1>9

\* No U+FFFD begins inside a row.
LEMMA NoneInside ==
  ASSUME NEW encoding \in {"utf16", "utf8"}, NEW s, NEW i \in Nat \ {0},
         NEW r \in RowsOf(encoding), Stands(r, s, i), NEW k \in i + 1..i + Len(r) - 1
  PROVE  ~Stands(ReplacementRow(encoding), s, k)
<1> SUFFICES ASSUME Stands(ReplacementRow(encoding), s, k) PROVE FALSE OBVIOUS
<1>1. Len(r) \in 1..4 BY Rows
<1>2. k - i + 1 \in 2..Len(r) /\ i + (k - i + 1) - 1 = k /\ k \in Nat BY <1>1
<1>3. k - i + 1 \in 1..Len(r) BY <1>2
<1>4. s[i + (k - i + 1) - 1] \in r[k - i + 1] BY <1>3 DEF Stands
<1>5. s[k] \in r[k - i + 1] BY <1>2, <1>4
<1>6. PICK q \in RowsOf(encoding) : s[k] \in q[1] BY <1>2, ReplacementBegins
<1> QED BY <1>2, <1>5, <1>6, BeginsOnly

-----------------------------------------------------------------------------
(* The loop *)

Units(encoding) == IF encoding = "utf16" THEN utf16_t ELSE utf8_t

TypeInv ==
  /\ from \in {"utf16", "utf8"}
  /\ text \in Seq(Units(from))
  /\ at \in Nat \ {0}
  /\ output \in Seq(Units(Other(from)))
  /\ len \in Nat /\ size \in Nat
  /\ codepoints \in Seq(Scalars)

\* In each state, not only at the end: what SizeIsEnough says.
SizeInv == IF size <= len THEN Len(output) = size ELSE Len(output) < size

LEMMA DecodedStep ==
  ASSUME TypeInv, at <= Len(text)
  PROVE  /\ Decoded.codepoint \in Scalars
         /\ Decoded.index \in Nat
         /\ Length(Decoded.codepoint) \in Nat \ {0}
         /\ Len(Encoded(Decoded.codepoint)) = Length(Decoded.codepoint)
         /\ Encoded(Decoded.codepoint) \in Seq(Units(Other(from)))
<1>1. at \in 1..Len(text) BY SMT DEF TypeInv
<1>2. CASE from = "utf16"
  <2>1. Decoded.codepoint \in Scalars /\ Decoded.index \in at..Len(text)
    BY <1>1, <1>2, Reads16 DEF TypeInv, Units, Decoded
  <2>2. Decoded.index \in Nat BY <1>1, <2>1, SMT
  <2> HIDE DEF Decoded
  <2>3. /\ Len(encode_utf8(Decoded.codepoint)) = calculate_utf8_len(Decoded.codepoint)
        /\ calculate_utf8_len(Decoded.codepoint) \in 1..4
        /\ encode_utf8(Decoded.codepoint) \in Seq(utf8_t)
    BY <2>1, Length8
  <2>4. calculate_utf8_len(Decoded.codepoint) \in Nat \ {0} BY <2>3, SMT
  <2> QED BY <1>2, <2>1, <2>2, <2>3, <2>4 DEF Length, Encoded, Units, Other
<1>3. CASE from = "utf8"
  <2>1. Decoded.codepoint \in Scalars /\ Decoded.index \in at..Len(text)
    BY <1>1, <1>3, Reads8 DEF TypeInv, Units, Decoded
  <2>2. Decoded.index \in Nat BY <1>1, <2>1, SMT
  <2>3. /\ Len(encode_utf16(Decoded.codepoint)) = calculate_utf16_len(Decoded.codepoint)
        /\ calculate_utf16_len(Decoded.codepoint) \in 1..2
        /\ encode_utf16(Decoded.codepoint) \in Seq(utf16_t)
    BY <2>1, Length16
  <2>4. calculate_utf16_len(Decoded.codepoint) \in Nat \ {0} BY <2>3, SMT
  <2> QED BY <1>3, <2>1, <2>2, <2>3, <2>4 DEF Length, Encoded, Units, Other
<1> QED BY <1>2, <1>3 DEF TypeInv

LEMMA ConverterInitInv == ConverterInit => TypeInv /\ SizeInv
<1> SUFFICES ASSUME ConverterInit PROVE TypeInv /\ SizeInv OBVIOUS
<1>1. text \in Seq(Units(from)) /\ from \in {"utf16", "utf8"} /\ len \in Nat
  BY ConverterAssumption DEF ConverterInit, Units
<1>2. TypeInv BY <1>1 DEF ConverterInit, TypeInv
<1>3. SizeInv BY <1>1, SMT DEF ConverterInit, SizeInv
<1> QED BY <1>2, <1>3

LEMMA ConverterNextInv == TypeInv /\ SizeInv /\ [ConverterNext]_converterVars => TypeInv' /\ SizeInv'
<1> SUFFICES ASSUME TypeInv, SizeInv, [ConverterNext]_converterVars PROVE TypeInv' /\ SizeInv' OBVIOUS
<1>1. CASE Convert
  <2> DEFINE c == Decoded.codepoint
             e == Encoded(c)
             l == Length(c)
  <2>1. /\ c \in Scalars /\ Decoded.index \in Nat /\ l \in Nat \ {0}
        /\ Len(e) = l /\ e \in Seq(Units(Other(from)))
    BY <1>1, DecodedStep DEF Convert
  <2>2. /\ at' = Decoded.index + 1 /\ codepoints' = Append(codepoints, c)
        /\ output' = IF Len(output) + l <= len THEN output \o e ELSE output
        /\ size' = size + l /\ from' = from /\ text' = text /\ len' = len
    BY <1>1 DEF Convert, Fits
  <2> HIDE DEF c, e, l
  <2>3. output \in Seq(Units(Other(from))) /\ size \in Nat /\ len \in Nat
    BY DEF TypeInv
  <2>4. output' \in Seq(Units(Other(from))) BY <2>1, <2>2, <2>3
  <2>5. TypeInv'
    <3>1. at' \in Nat \ {0} /\ size' \in Nat BY <2>1, <2>2, <2>3, SMT
    <3>2. codepoints' \in Seq(Scalars) BY <2>1, <2>2 DEF TypeInv
    <3> QED BY <2>2, <2>4, <3>1, <3>2 DEF TypeInv
  <2>6. Len(output \o e) = Len(output) + l BY <2>1, <2>3, SMT
  <2>7. SizeInv'
    <3>1. Len(output) \in Nat BY <2>3
    <3>2. CASE Len(output) + l <= len
      <4>1. Len(output') = Len(output) + l /\ len' = len /\ size' = size + l
        BY <2>2, <2>6, <3>2
      <4>2. IF size <= len THEN Len(output) = size ELSE Len(output) < size BY DEF SizeInv
      <4>3. IF size + l <= len THEN Len(output) + l = size + l ELSE Len(output) + l < size + l
        BY <2>1, <2>3, <3>1, <3>2, <4>2, SMT
      <4> QED BY <4>1, <4>3 DEF SizeInv
    <3>3. CASE ~(Len(output) + l <= len)
      <4>1. output' = output /\ len' = len /\ size' = size + l BY <2>2, <3>3
      <4>2. Len(output) <= size /\ (size > len => Len(output) < size)
        BY <2>3, <3>1, SMT DEF SizeInv
      <4>3. size' > len /\ Len(output) < size'
        <5>1. l > 0 BY <2>1, SMT
        <5>2. size >= Len(output) BY <4>2
        <5> QED BY <2>1, <2>3, <3>1, <3>3, <4>1, <4>2, <5>1, SMT
      <4>4. ~(size' <= len') BY <2>1, <2>3, <4>1, <4>3, SMT
      <4>5. Len(output') < size' BY <4>1, <4>3
      <4> QED BY <4>4, <4>5 DEF SizeInv
    <3> QED BY <3>2, <3>3
  <2> QED BY <2>5, <2>7
<1>2. CASE ConvertBack
  <2>1. TypeInv'
    BY <1>2, ConverterAssumption DEF TypeInv, ConvertBack, Units, Other
  <2>2. SizeInv'
    BY <1>2, ConverterAssumption, SMT DEF ConvertBack, SizeInv
  <2> QED BY <2>1, <2>2
<1>3. CASE UNCHANGED converterVars
  BY <1>3 DEF converterVars, TypeInv, SizeInv, Units
<1> QED BY <1>1, <1>2, <1>3 DEF ConverterNext

\* The size that utf16_to_utf8 or utf8_to_utf16 returns for a NULL buffer is
\* what a buffer of that size receives, for every text and buffer.
THEOREM SizePassIsExact == ConverterSpec => []SizeIsEnough
<1>1. TypeInv /\ SizeInv => SizeIsEnough BY DEF SizeInv, SizeIsEnough
<1> QED BY ConverterInitInv, ConverterNextInv, <1>1, PTL DEF ConverterSpec

\* Whatever is in the text, only Unicode scalar values are read from it, and
\* only units of the other encoding are written.
THEOREM ReadsScalars == ConverterSpec => []TypeInv
BY ConverterInitInv, ConverterNextInv, PTL DEF ConverterSpec

-----------------------------------------------------------------------------
(* What is written is well formed. *)

LEMMA SeqOfMore == ASSUME NEW S, NEW T, S \subseteq T, NEW s \in Seq(S) PROVE s \in Seq(T)
OBVIOUS

LEMMA UnitsAreNat ==
  ASSUME NEW encoding, NEW s \in Seq(Units(encoding))
  PROVE  s \in Seq(Nat)
<1>1. Units(encoding) \subseteq Nat BY DEF Units, utf16_t, utf8_t
<1> QED BY <1>1, SeqOfMore

LEMMA EncodedFills ==
  ASSUME TypeInv, NEW c \in Scalars
  PROVE  \E row \in RowsOf(Other(from)) : Fills(Encoded(c), row)
<1>1. CASE from = "utf16"
  <2>1. RowsOf(Other(from)) = Rows8 /\ Encoded(c) = encode_utf8(c)
    BY <1>1 DEF RowsOf, Other, Encoded
  <2> QED BY <2>1, InRow8
<1>2. CASE from = "utf8"
  <2>1. RowsOf(Other(from)) = Rows16 /\ Encoded(c) = encode_utf16(c)
    BY <1>2 DEF RowsOf, Other, Encoded
  <2> QED BY <2>1, InRow16
<1> QED BY <1>1, <1>2 DEF TypeInv

LEMMA NothingCovered == ASSUME NEW rows PROVE Covered(rows, <<>>, 0)
BY SMT DEF Covered

LEMMA InitWritten == ConverterInit => WritesWellFormedText
<1> SUFFICES ASSUME ConverterInit PROVE WritesWellFormedText OBVIOUS
<1>1. output = <<>> /\ len \in Nat BY ConverterAssumption DEF ConverterInit
<1>2. Len(output) = 0 BY <1>1
<1>3. Covered(RowsOf(Other(from)), output, Len(output)) BY <1>1, <1>2, NothingCovered
<1> QED BY <1>1, <1>2, <1>3, SMT DEF WritesWellFormedText, WellFormed

LEMMA NextWritten ==
  TypeInv /\ WritesWellFormedText /\ [ConverterNext]_converterVars => WritesWellFormedText'
<1> SUFFICES ASSUME TypeInv, WritesWellFormedText, [ConverterNext]_converterVars
             PROVE  WritesWellFormedText'
  OBVIOUS
<1> USE DEF WritesWellFormedText, WellFormed
<1>1. CASE Convert
  <2> DEFINE c == Decoded.codepoint
             e == Encoded(c)
             l == Length(c)
             rows == RowsOf(Other(from))
  <2>1. /\ c \in Scalars /\ l \in Nat \ {0}
        /\ Len(e) = l /\ e \in Seq(Units(Other(from)))
    BY <1>1, DecodedStep DEF Convert
  <2>2. /\ output' = IF Len(output) + l <= len THEN output \o e ELSE output
        /\ from' = from /\ len' = len
    BY <1>1 DEF Convert, Fits
  <2>3. \E row \in rows : Fills(e, row) BY <2>1, EncodedFills
  <2>4. \A row \in rows : Len(row) \in 1..4 BY Rows
  <2>5. output \in Seq(Nat) /\ e \in Seq(Nat)
    BY <2>1, UnitsAreNat DEF TypeInv
  <2>6. Covered(rows, output, Len(output)) OBVIOUS
  <2>7. rows' = rows BY <2>2
  <2> HIDE DEF c, e, l, rows
  <2>8. CASE Len(output) + l <= len
    <3>1. output' = output \o e BY <2>2, <2>8
    <3>2. Len(output \o e) = Len(output) + l BY <2>1, <2>5
    <3>3. PICK row \in rows : Fills(e, row) BY <2>3
    <3>4. Covered(rows, output \o e, Len(output \o e))
      BY <2>4, <2>5, <2>6, <3>3, CoveredGrows
    <3>5. Covered(rows', output', Len(output')) BY <2>7, <3>1, <3>4
    <3>6. Len(output') <= len' BY <2>2, <2>8, <3>1, <3>2
    <3> QED BY <3>5, <3>6 DEF rows
  <2>9. CASE ~(Len(output) + l <= len)
    <3>1. output' = output BY <2>2, <2>9
    <3>2. Covered(rows', output', Len(output')) BY <2>6, <2>7, <3>1
    <3>3. Len(output') <= len' BY <2>2, <3>1
    <3> QED BY <3>2, <3>3 DEF rows
  <2> QED BY <2>8, <2>9
<1>2. CASE ConvertBack
  <2>1. output' = <<>> /\ len' \in Nat BY <1>2, ConverterAssumption DEF ConvertBack
  <2>2. Len(output') = 0 BY <2>1
  <2>3. Covered(RowsOf(Other(from')), output', Len(output')) BY <2>1, <2>2, NothingCovered
  <2> QED BY <2>1, <2>2, <2>3, SMT
<1>3. CASE UNCHANGED converterVars
  BY <1>3 DEF converterVars
<1> QED BY <1>1, <1>2, <1>3 DEF ConverterNext

\* The buffer that utf16_to_utf8 or utf8_to_utf16 fills never holds more than it
\* has room for, and is well formed in every state: no code point is written in
\* part and what is read of a broken text is written as U+FFFD, for every text and
\* every size of the buffer.
THEOREM OutputIsWellFormed == ConverterSpec => []WritesWellFormedText
<1>1. ConverterInit => TypeInv /\ WritesWellFormedText BY ConverterInitInv, InitWritten
<1> QED BY <1>1, ReadsScalars, NextWritten, PTL DEF ConverterSpec

-----------------------------------------------------------------------------
(* There and back. *)

Written(encoding, c) == IF encoding = "utf16" THEN encode_utf16(c) ELSE encode_utf8(c)

\* s is the code points w written one after the other, w[k] from p[k] on.
Spells(encoding, s, w, p) ==
  /\ w \in Seq(Scalars)
  /\ p \in Seq(Nat) /\ Len(p) = Len(w) + 1
  /\ p[1] = 1 /\ p[Len(w) + 1] = Len(s) + 1
  /\ \A k \in 1..Len(w) : /\ StandsAt(Written(encoding, w[k]), s, p[k])
                          /\ p[k + 1] = p[k] + Len(Written(encoding, w[k]))

\* What was left out of w did not fit; nothing was, if it is as long as c.
LeavesOut(c, w) == Len(w) <= Len(c) /\ (Len(w) = Len(c) => w = c)

PassOne ==
  \E w \in Seq(Scalars), p \in Seq(Nat) :
    Spells(Other(from), output, w, p) /\ LeavesOut(codepoints, w)

ReadSoFar(w, p) ==
  /\ Spells(from, text, w, p) /\ LeavesOut(given, w)
  /\ Len(codepoints) <= Len(w)
  /\ \A k \in 1..Len(codepoints) : codepoints[k] = w[k]
  /\ at = p[Len(codepoints) + 1]

TripInv ==
  /\ given \in Seq(Scalars) /\ pass \in {1, 2}
  /\ pass = 1 => PassOne
  /\ pass = 2 => \E w \in Seq(Scalars), p \in Seq(Nat) : ReadSoFar(w, p)

LEMMA WrittenUnits ==
  ASSUME NEW encoding \in {"utf16", "utf8"}, NEW c \in Scalars
  PROVE  /\ Written(encoding, c) \in Seq(Units(encoding))
         /\ Written(encoding, c) \in Seq(Nat)
         /\ Len(Written(encoding, c)) \in 1..4
<1>1. CASE encoding = "utf16"
  <2>1. Written(encoding, c) \in Seq(Units(encoding))
    BY <1>1, Length16 DEF Written, Units
  <2>2. Len(encode_utf16(c)) \in 1..4
    <3>1. Len(encode_utf16(c)) = calculate_utf16_len(c) /\ calculate_utf16_len(c) \in 1..2
      BY Length16
    <3> QED BY <3>1, SMT
  <2>3. Len(Written(encoding, c)) \in 1..4 BY <1>1, <2>2 DEF Written
  <2> QED BY <2>1, <2>3, UnitsAreNat
<1>2. CASE encoding = "utf8"
  <2>1. Written(encoding, c) \in Seq(Units(encoding))
    BY <1>2, Length8 DEF Written, Units
  <2>2. Len(Written(encoding, c)) \in 1..4
    BY <1>2, Length8 DEF Written
  <2> QED BY <2>1, <2>2, UnitsAreNat
<1> QED BY <1>1, <1>2

LEMMA EncodedIsWritten ==
  ASSUME TypeInv, NEW c \in Scalars
  PROVE  Encoded(c) = Written(Other(from), c)
BY DEF TypeInv, Encoded, Written, Other

\* What stands in a text stands in what it is the beginning of.
LEMMA StillStands ==
  ASSUME NEW e \in Seq(Nat), NEW s \in Seq(Nat), NEW t \in Seq(Nat), NEW i \in Nat,
         StandsAt(e, s, i)
  PROVE  StandsAt(e, s \o t, i)
<1>1. Len(s \o t) = Len(s) + Len(t) /\ Len(s) \in Nat /\ Len(t) \in Nat /\ Len(e) \in Nat
  OBVIOUS
<1>2. i \in 1..Len(s) /\ i + Len(e) - 1 <= Len(s) BY DEF StandsAt
<1>3. i \in 1..Len(s \o t) /\ i + Len(e) - 1 <= Len(s \o t) BY <1>1, <1>2
<1>4. ASSUME NEW k \in 1..Len(e) PROVE (s \o t)[i + k - 1] = e[k]
  <2>1. i + k - 1 \in 1..Len(s) BY <1>1, <1>2
  <2>2. (s \o t)[i + k - 1] = s[i + k - 1] BY <2>1
  <2> QED BY <2>2 DEF StandsAt
<1> QED BY <1>3, <1>4 DEF StandsAt

LEMMA StandsAtEnd ==
  ASSUME NEW e \in Seq(Nat), NEW s \in Seq(Nat), Len(e) \in 1..4
  PROVE  StandsAt(e, s \o e, Len(s) + 1)
<1>1. Len(s \o e) = Len(s) + Len(e) /\ Len(s) \in Nat OBVIOUS
<1>2. ASSUME NEW k \in 1..Len(e) PROVE (s \o e)[Len(s) + 1 + k - 1] = e[k]
  <2>1. Len(s) + 1 + k - 1 = Len(s) + k BY <1>1
  <2>2. (s \o e)[Len(s) + k] = e[k] OBVIOUS
  <2> QED BY <2>1, <2>2
<1>3. Len(s) + 1 \in 1..Len(s \o e) /\ Len(s) + 1 + Len(e) - 1 <= Len(s \o e)
  <2> DEFINE n == Len(s)
             m == Len(e)
             l == Len(s \o e)
  <2>1. l = n + m /\ n \in Nat /\ m \in 1..4 BY <1>1
  <2> HIDE DEF n, m, l
  <2>2. n + 1 \in 1..l /\ n + 1 + m - 1 <= l BY <2>1, SMT
  <2> QED BY <2>2 DEF n, m, l
<1> QED BY <1>2, <1>3 DEF StandsAt

LEMMA NothingSpelt ==
  ASSUME NEW encoding
  PROVE  Spells(encoding, <<>>, <<>>, <<1>>)
BY DEF Spells

\* One more code point is written.
LEMMA SpellsMore ==
  ASSUME NEW encoding \in {"utf16", "utf8"}, NEW s \in Seq(Nat), NEW w, NEW p,
         Spells(encoding, s, w, p), NEW c \in Scalars
  PROVE  LET e == Written(encoding, c)
         IN  Spells(encoding, s \o e, Append(w, c), Append(p, Len(s \o e) + 1))
<1> DEFINE e == Written(encoding, c)
           t == s \o e
           v == Append(w, c)
           q == Append(p, Len(t) + 1)
           n == Len(w)
<1>1. e \in Seq(Nat) /\ Len(e) \in 1..4 BY WrittenUnits
<1>2. w \in Seq(Scalars) /\ p \in Seq(Nat) /\ Len(p) = n + 1 /\ n \in Nat
  BY DEF Spells
<1>3. p[1] = 1 /\ p[n + 1] = Len(s) + 1 BY DEF Spells
<1>4. t \in Seq(Nat) /\ Len(t) = Len(s) + Len(e) /\ Len(s) \in Nat BY <1>1
<1>5. StandsAt(e, t, Len(s) + 1) BY <1>1, StandsAtEnd
<1>6. \A f \in Seq(Nat), i \in Nat : StandsAt(f, s, i) => StandsAt(f, t, i)
  BY <1>1, StillStands
<1>7. \A k \in 1..n : /\ StandsAt(Written(encoding, w[k]), s, p[k])
                      /\ p[k + 1] = p[k] + Len(Written(encoding, w[k]))
  BY DEF Spells
<1> HIDE DEF e, t
<1>8. v \in Seq(Scalars) /\ Len(v) = n + 1 /\ v[n + 1] = c /\ \A k \in 1..n : v[k] = w[k]
  BY <1>2
<1>9. /\ q \in Seq(Nat) /\ Len(q) = n + 2 /\ q[n + 2] = Len(t) + 1
      /\ \A k \in 1..n + 1 : q[k] = p[k]
  BY <1>2, <1>4
<1> HIDE DEF v, q, n
<1>10. ASSUME NEW k \in 1..n + 1
       PROVE  /\ StandsAt(Written(encoding, v[k]), t, q[k])
              /\ q[k + 1] = q[k] + Len(Written(encoding, v[k]))
  <2>1. CASE k = n + 1
    <3>1. q[k] = Len(s) + 1 /\ v[k] = c BY <1>3, <1>8, <1>9, <2>1
    <3>2. q[k + 1] = Len(t) + 1
      <4>1. k + 1 = n + 2 BY <1>2, <2>1
      <4> QED BY <1>9, <4>1
    <3>3. Len(t) + 1 = Len(s) + 1 + Len(e) BY <1>1, <1>4
    <3> QED BY <1>5, <3>1, <3>2, <3>3 DEF e
  <2>2. CASE k # n + 1
    <3>1. k \in 1..n /\ k + 1 \in 1..n + 1 BY <1>2, <2>2
    <3>2. v[k] = w[k] /\ q[k] = p[k] /\ q[k + 1] = p[k + 1] BY <1>8, <1>9, <3>1
    <3>3. w[k] \in Scalars /\ p[k] \in Nat
      <4>1. k \in 1..Len(w) BY <3>1 DEF n
      <4>2. k \in 1..Len(p) BY <1>2, <3>1
      <4> QED BY <1>2, <4>1, <4>2
    <3>4. Written(encoding, w[k]) \in Seq(Nat) BY <3>3, WrittenUnits
    <3> QED BY <1>6, <1>7, <3>1, <3>2, <3>3, <3>4
  <2> QED BY <2>1, <2>2
<1>11. Len(q) = Len(v) + 1 /\ q[1] = 1 /\ q[Len(v) + 1] = Len(t) + 1
  <2>1. Len(v) + 1 = n + 2 /\ 1 \in 1..n + 1 BY <1>2, <1>8
  <2> QED BY <1>3, <1>9, <2>1
<1>12. Spells(encoding, t, v, q) BY <1>8, <1>9, <1>10, <1>11 DEF Spells
<1> QED BY <1>12 DEF e, t, v, q

\* What is written is decoded again.
LEMMA DecodesWritten ==
  ASSUME TypeInv, NEW c \in Scalars, at <= Len(text), StandsAt(Written(from, c), text, at)
  PROVE  /\ Decoded.codepoint = c
         /\ Decoded.index + 1 = at + Len(Written(from, c))
<1>1. at \in Nat BY DEF TypeInv
<1>2. CASE from = "utf16"
  <2>1. text \in Seq(utf16_t) BY <1>2 DEF TypeInv, Units
  <2>2. Decoded = Read(c, at + calculate_utf16_len(c) - 1)
    BY <1>1, <1>2, <2>1, ReadsBack16 DEF Written, Decoded
  <2>3. Len(Written(from, c)) = calculate_utf16_len(c) /\ calculate_utf16_len(c) \in 1..2
    BY <1>2, Length16 DEF Written
  <2> HIDE DEF Decoded
  <2> QED BY <1>1, <2>2, <2>3, SMT DEF Read
<1>3. CASE from = "utf8"
  <2>1. text \in Seq(utf8_t) BY <1>3 DEF TypeInv, Units
  <2>2. Decoded = Read(c, at + calculate_utf8_len(c) - 1)
    BY <1>1, <1>3, <2>1, ReadsBack8 DEF Written, Decoded
  <2>3. Len(Written(from, c)) = calculate_utf8_len(c) /\ calculate_utf8_len(c) \in 1..4
    BY <1>3, Length8 DEF Written
  <2> HIDE DEF Decoded
  <2> QED BY <1>1, <2>2, <2>3, SMT DEF Read
<1> QED BY <1>2, <1>3 DEF TypeInv

LEMMA InitTrip == ConverterInit => TripInv
<1> SUFFICES ASSUME ConverterInit PROVE TripInv OBVIOUS
<1>1. output = <<>> /\ codepoints = <<>> /\ given = <<>> /\ pass = 1 BY DEF ConverterInit
<1>2. Spells(Other(from), output, <<>>, <<1>>) /\ LeavesOut(codepoints, <<>>)
  BY <1>1, NothingSpelt DEF LeavesOut
<1>3. <<>> \in Seq(Scalars) /\ <<1>> \in Seq(Nat) OBVIOUS
<1>4. PassOne BY <1>2, <1>3 DEF PassOne
<1> QED BY <1>1, <1>3, <1>4 DEF TripInv

LEMMA NextTrip == TypeInv /\ TripInv /\ [ConverterNext]_converterVars => TripInv'
<1> SUFFICES ASSUME TypeInv, TripInv, [ConverterNext]_converterVars PROVE TripInv' OBVIOUS
<1>1. CASE Convert
  <2> DEFINE c == Decoded.codepoint
             e == Encoded(c)
             i == Decoded.index
  <2>1. c \in Scalars BY <1>1, DecodedStep DEF Convert
  <2>2. /\ at' = i + 1 /\ codepoints' = Append(codepoints, c)
        /\ output' = output \o e \/ output' = output
        /\ from' = from /\ text' = text /\ pass' = pass /\ given' = given
        /\ at <= Len(text)
    BY <1>1 DEF Convert
  <2>3. e = Written(Other(from), c) BY <2>1, EncodedIsWritten
  <2>4. output \in Seq(Nat) BY UnitsAreNat DEF TypeInv
  <2>5. codepoints \in Seq(Scalars) BY DEF TypeInv
  <2>6. Other(from) \in {"utf16", "utf8"} BY DEF Other
  <2>7. given' \in Seq(Scalars) /\ pass' \in {1, 2} BY <2>2 DEF TripInv
  <2>9. \A d \in Scalars : StandsAt(Written(from, d), text, at) =>
           c = d /\ i + 1 = at + Len(Written(from, d))
    BY <2>2, DecodesWritten
  <2> HIDE DEF c, e, i
  <2>10. /\ Len(codepoints') = Len(codepoints) + 1
         /\ codepoints'[Len(codepoints) + 1] = c
         /\ \A k \in 1..Len(codepoints) : codepoints'[k] = codepoints[k]
         /\ Len(codepoints) \in Nat
    BY <2>1, <2>2, <2>5
  <2>11. CASE pass = 1
    <3>1. PICK w \in Seq(Scalars), p \in Seq(Nat) :
            Spells(Other(from), output, w, p) /\ LeavesOut(codepoints, w)
      BY <2>11 DEF TripInv, PassOne
    <3>2. CASE output' = output \o e
      <4> DEFINE v == Append(w, c)
                 q == Append(p, Len(output \o e) + 1)
      <4>1. Spells(Other(from), output \o e, v, q)
        BY <2>1, <2>3, <2>4, <2>6, <3>1, SpellsMore
      <4>2. LeavesOut(codepoints', v)
        <5>1. Len(v) = Len(w) + 1 /\ Len(w) \in Nat OBVIOUS
        <5>2. Len(w) <= Len(codepoints) /\ (Len(w) = Len(codepoints) => w = codepoints)
          BY <3>1 DEF LeavesOut
        <5> QED BY <2>2, <2>10, <5>1, <5>2 DEF LeavesOut
      <4>3. v \in Seq(Scalars) /\ q \in Seq(Nat) BY <4>1 DEF Spells
      <4> HIDE DEF v, q
      <4>4. Spells(Other(from'), output', v, q) BY <2>2, <3>2, <4>1
      <4> QED BY <2>2, <2>7, <2>11, <4>2, <4>3, <4>4 DEF TripInv, PassOne
    <3>3. CASE output' = output
      <4>1. LeavesOut(codepoints', w)
        <5>1. Len(w) \in Nat OBVIOUS
        <5> QED BY <2>10, <3>1, <5>1 DEF LeavesOut
      <4>2. Spells(Other(from'), output', w, p) BY <2>2, <3>1, <3>3
      <4> QED BY <2>2, <2>7, <2>11, <3>1, <4>1, <4>2 DEF TripInv, PassOne
    <3> QED BY <2>2, <3>2, <3>3
  <2>12. CASE pass = 2
    <3>1. PICK w \in Seq(Scalars), p \in Seq(Nat) : ReadSoFar(w, p)
      BY <2>12 DEF TripInv
    <3> DEFINE n == Len(codepoints)
    <3>2. /\ Spells(from, text, w, p) /\ LeavesOut(given, w)
          /\ n <= Len(w) /\ \A k \in 1..n : codepoints[k] = w[k]
          /\ at = p[n + 1]
      BY <3>1 DEF ReadSoFar
    <3>3. p[Len(w) + 1] = Len(text) + 1 BY <3>2 DEF Spells
    <3>4. Len(text) \in Nat /\ Len(w) \in Nat BY DEF TypeInv
    <3> HIDE DEF n
    <3>5. n # Len(w) BY <2>2, <3>2, <3>3, <3>4
    <3>6. n + 1 \in 1..Len(w) /\ n \in Nat BY <2>10, <3>2, <3>4, <3>5 DEF n
    <3>7. w[n + 1] \in Scalars BY <3>6
    <3>8. /\ StandsAt(Written(from, w[n + 1]), text, at)
          /\ p[n + 1 + 1] = at + Len(Written(from, w[n + 1]))
      BY <3>2, <3>6 DEF Spells
    <3>9. c = w[n + 1] /\ i + 1 = p[n + 1 + 1] BY <2>9, <3>7, <3>8
    <3>10. Len(codepoints') = n + 1 /\ Len(codepoints') <= Len(w) /\ at' = p[Len(codepoints') + 1]
      BY <2>2, <2>10, <3>6, <3>9 DEF n
    <3>11. ASSUME NEW k \in 1..Len(codepoints') PROVE codepoints'[k] = w[k]
      <4>1. CASE k = n + 1 BY <2>10, <3>9, <4>1 DEF n
      <4>2. CASE k # n + 1
        <5>1. k \in 1..n BY <3>6, <3>10, <4>2
        <5> QED BY <2>10, <3>2, <5>1 DEF n
      <4> QED BY <4>1, <4>2
    <3>12. Spells(from', text', w, p) /\ LeavesOut(given', w) BY <2>2, <3>2
    <3>13. ReadSoFar(w, p)' BY <3>10, <3>11, <3>12 DEF ReadSoFar
    <3> QED BY <2>2, <2>7, <2>12, <3>13 DEF TripInv
  <2> QED BY <2>11, <2>12 DEF TripInv
<1>2. CASE ConvertBack
  <2>1. /\ pass = 1 /\ pass' = 2 /\ text' = output /\ given' = codepoints /\ at' = 1
        /\ codepoints' = <<>> /\ from' = Other(from)
    BY <1>2 DEF ConvertBack, Other
  <2>2. PICK w \in Seq(Scalars), p \in Seq(Nat) :
          Spells(Other(from), output, w, p) /\ LeavesOut(codepoints, w)
    BY <2>1 DEF TripInv, PassOne
  <2>3. p[1] = 1 BY <2>2 DEF Spells
  <2>4. Len(codepoints') = 0 /\ Len(w) \in Nat BY <2>1
  <2>5. ReadSoFar(w, p)' BY <2>1, <2>2, <2>3, <2>4 DEF ReadSoFar
  <2>6. codepoints \in Seq(Scalars) BY DEF TypeInv
  <2> QED BY <2>1, <2>5, <2>6 DEF TripInv
<1>3. CASE UNCHANGED converterVars
  BY <1>3 DEF converterVars, TripInv, PassOne, ReadSoFar
<1> QED BY <1>1, <1>2, <1>3 DEF ConverterNext

\* A text converted into the other encoding and back reads as it did at first,
\* for every text and every size of the two buffers, unless a code point was
\* left out: then fewer come back, and none is read that was not written.
THEOREM ComesBack == ConverterSpec => []RoundTrip
<1>1. TypeInv /\ TripInv => RoundTrip
  <2> SUFFICES ASSUME TypeInv, TripInv, Converted, pass = 2
               PROVE  codepoints = given \/ Len(codepoints) < Len(given)
    BY DEF RoundTrip
  <2>1. PICK w \in Seq(Scalars), p \in Seq(Nat) : ReadSoFar(w, p) BY DEF TripInv
  <2> DEFINE n == Len(codepoints)
  <2>2. /\ Spells(from, text, w, p) /\ LeavesOut(given, w)
        /\ n <= Len(w) /\ \A k \in 1..n : codepoints[k] = w[k]
        /\ at = p[n + 1]
    BY <2>1 DEF ReadSoFar
  <2>3. n \in Nat /\ Len(w) \in Nat /\ Len(text) \in Nat /\ Len(given) \in Nat
    BY DEF TypeInv, TripInv
  <2>4. n = Len(w)
    <3>1. CASE n # Len(w)
      <4>1. n + 1 \in 1..Len(w) BY <2>2, <2>3, <3>1
      <4>2. at \in 1..Len(text) BY <2>2, <4>1 DEF Spells, StandsAt
      <4> QED BY <2>3, <4>2 DEF Converted
    <3> QED BY <3>1
  <2>5. codepoints = w
    <3>1. codepoints \in Seq(Scalars) BY DEF TypeInv
    <3> QED BY <2>2, <2>4, <3>1
  <2> QED BY <2>2, <2>3, <2>4, <2>5 DEF LeavesOut
<1> QED BY InitTrip, NextTrip, ReadsScalars, <1>1, PTL DEF ConverterSpec

-----------------------------------------------------------------------------
(* What is replaced. *)

\* SameAscii for the first n units of s.
SameUpTo(s, n, c) ==
  /\ Cardinality(Ascii(s, n)) = Cardinality(Ascii(c, Len(c)))
  /\ \A k \in Ascii(c, Len(c)) : \E i \in Ascii(s, n) :
        c[k] = s[i] /\ Cardinality(Ascii(c, k)) = Cardinality(Ascii(s, i))

LEMMA AsciiMore ==
  ASSUME NEW s, NEW n \in Nat, s[n + 1] <= 127
  PROVE  /\ Ascii(s, n + 1) = Ascii(s, n) \cup {n + 1}
         /\ Cardinality(Ascii(s, n + 1)) = Cardinality(Ascii(s, n)) + 1
<1>1. Ascii(s, n + 1) = Ascii(s, n) \cup {n + 1} BY SMT DEF Ascii
<1>2. IsFiniteSet(Ascii(s, n))
  <2>1. IsFiniteSet(1..n) BY FS_Interval
  <2>2. Ascii(s, n) \subseteq 1..n BY DEF Ascii
  <2> QED BY <2>1, <2>2, FS_Subset
<1>3. n + 1 \notin Ascii(s, n) BY SMT DEF Ascii
<1> QED BY <1>1, <1>2, <1>3, FS_AddElement

LEMMA AsciiSame ==
  ASSUME NEW s, NEW n \in Nat, NEW m \in Nat, n <= m, \A k \in n + 1..m : ~(s[k] <= 127)
  PROVE  Ascii(s, m) = Ascii(s, n)
BY SMT DEF Ascii

LEMMA AsciiAppended ==
  ASSUME NEW s \in Seq(Nat), NEW d, NEW n \in 0..Len(s)
  PROVE  Ascii(Append(s, d), n) = Ascii(s, n)
<1>1. \A k \in 1..n : Append(s, d)[k] = s[k] OBVIOUS
<1> QED BY <1>1 DEF Ascii

\* An ASCII unit is read as itself.
LEMMA SameWithAscii ==
  ASSUME NEW s, NEW n \in Nat, NEW c \in Seq(Nat), SameUpTo(s, n, c), s[n + 1] <= 127,
         s[n + 1] \in Nat
  PROVE  SameUpTo(s, n + 1, Append(c, s[n + 1]))
<1> DEFINE d == s[n + 1]
           t == Append(c, d)
           l == Len(c)
           A == Ascii(s, n)
           B == Ascii(c, l)
<1>1. l \in Nat /\ Len(t) = l + 1 /\ t[l + 1] = d OBVIOUS
<1>2. \A k \in 1..l : t[k] = c[k] OBVIOUS
<1>3. \A k \in 0..l : Ascii(t, k) = Ascii(c, k) BY AsciiAppended
<1>4. Ascii(s, n + 1) = A \cup {n + 1} /\ Cardinality(Ascii(s, n + 1)) = Cardinality(A) + 1
  BY AsciiMore
<1> HIDE DEF t, l, d
<1>5. Ascii(t, l) = B BY <1>1, <1>3
<1>6. Ascii(t, l + 1) = B \cup {l + 1} /\ Cardinality(Ascii(t, l + 1)) = Cardinality(B) + 1
  <2>1. t[l + 1] <= 127 BY <1>1 DEF d
  <2>2. /\ Ascii(t, l + 1) = Ascii(t, l) \cup {l + 1}
        /\ Cardinality(Ascii(t, l + 1)) = Cardinality(Ascii(t, l)) + 1
    BY <1>1, <2>1, AsciiMore
  <2> QED BY <1>5, <2>2
<1>7. /\ Cardinality(A) = Cardinality(B)
      /\ \A k \in B : \E i \in A :
           c[k] = s[i] /\ Cardinality(Ascii(c, k)) = Cardinality(Ascii(s, i))
  BY DEF SameUpTo, l
<1>8. \A k \in B : k \in 1..l BY DEF Ascii
<1>9. ASSUME NEW k \in Ascii(t, Len(t))
      PROVE  \E i \in Ascii(s, n + 1) :
               t[k] = s[i] /\ Cardinality(Ascii(t, k)) = Cardinality(Ascii(s, i))
  <2>1. CASE k = l + 1
    <3>1. t[k] = s[n + 1] BY <1>1, <2>1 DEF d
    <3>2. Cardinality(Ascii(t, k)) = Cardinality(Ascii(s, n + 1)) BY <1>4, <1>6, <1>7, <2>1
    <3> QED BY <1>4, <3>1, <3>2
  <2>2. CASE k # l + 1
    <3>1. k \in B BY <1>1, <1>6, <2>2
    <3>2. k \in 1..l /\ k \in 0..l BY <1>1, <1>8, <3>1
    <3>3. t[k] = c[k] /\ Ascii(t, k) = Ascii(c, k) BY <1>2, <1>3, <3>2
    <3>4. PICK i \in A : c[k] = s[i] /\ Cardinality(Ascii(c, k)) = Cardinality(Ascii(s, i))
      BY <1>7, <3>1
    <3>5. i \in Ascii(s, n + 1) BY <1>4
    <3> QED BY <3>3, <3>4, <3>5
  <2> QED BY <2>1, <2>2
<1>10. Cardinality(Ascii(s, n + 1)) = Cardinality(Ascii(t, Len(t))) BY <1>1, <1>4, <1>6, <1>7
<1>11. SameUpTo(s, n + 1, t) BY <1>9, <1>10 DEF SameUpTo
<1> QED BY <1>11 DEF t, d

\* Other units are not, and none of them is lost from the count.
LEMMA SameWithOther ==
  ASSUME NEW s, NEW n \in Nat, NEW m \in Nat, n <= m, \A k \in n + 1..m : ~(s[k] <= 127),
         NEW c \in Seq(Nat), SameUpTo(s, n, c), NEW d \in Nat, d > 127
  PROVE  SameUpTo(s, m, Append(c, d))
<1> DEFINE t == Append(c, d)
           l == Len(c)
<1>1. l \in Nat /\ Len(t) = l + 1 /\ t[l + 1] = d OBVIOUS
<1>2. \A k \in 1..l : t[k] = c[k] OBVIOUS
<1>3. \A k \in 0..l : Ascii(t, k) = Ascii(c, k) BY AsciiAppended
<1>4. Ascii(s, m) = Ascii(s, n) BY AsciiSame
<1> HIDE DEF t, l
<1>5. Ascii(t, l + 1) = Ascii(c, l)
  <2>1. ~(t[l + 1] <= 127) BY <1>1
  <2>2. \A k \in l + 1..l + 1 : ~(t[k] <= 127) BY <1>1, <2>1
  <2>3. Ascii(t, l + 1) = Ascii(t, l) BY <1>1, <2>2, AsciiSame
  <2> QED BY <1>1, <1>3, <2>3
<1>6. \A k \in Ascii(c, l) : k \in 1..l BY DEF Ascii
<1>7. \A k \in Ascii(c, l) : t[k] = c[k] /\ Ascii(t, k) = Ascii(c, k) BY <1>1, <1>2, <1>3, <1>6
<1>8. /\ Cardinality(Ascii(s, n)) = Cardinality(Ascii(c, l))
      /\ \A k \in Ascii(c, l) : \E i \in Ascii(s, n) :
           c[k] = s[i] /\ Cardinality(Ascii(c, k)) = Cardinality(Ascii(s, i))
  BY DEF SameUpTo, l
<1>9. Ascii(t, Len(t)) = Ascii(c, l) BY <1>1, <1>5
<1>10. ASSUME NEW k \in Ascii(t, Len(t))
       PROVE  \E i \in Ascii(s, m) :
                t[k] = s[i] /\ Cardinality(Ascii(t, k)) = Cardinality(Ascii(s, i))
  <2>1. k \in Ascii(c, l) /\ t[k] = c[k] /\ Ascii(t, k) = Ascii(c, k) BY <1>7, <1>9
  <2> QED BY <1>4, <1>8, <2>1
<1>11. Cardinality(Ascii(s, m)) = Cardinality(Ascii(t, Len(t))) BY <1>4, <1>8, <1>9
<1> QED BY <1>10, <1>11 DEF SameUpTo, t

-----------------------------------------------------------------------------
NoneReplaced == \A k \in 1..Len(codepoints) : codepoints[k] # INVALID_CODEPOINT

\* What has been read so far was rows, none of them U+FFFD, or the text is lost.
ReadInv ==
  pass = 1 =>
    /\ at <= Len(text) + 1
    /\ NoneReplaced =>
         /\ Covered(RowsOf(from), text, at - 1)
         /\ \A i \in 1..at - 1 : ~Stands(ReplacementRow(from), text, i)
    /\ ~NoneReplaced => ~(WellFormed(from, text) /\ ~HasReplacement(from, text))
    /\ SameUpTo(text, at - 1, codepoints)

LEMMA InitRead == ConverterInit => ReadInv
<1> SUFFICES ASSUME ConverterInit PROVE ReadInv OBVIOUS
<1>1. at - 1 = 0 /\ codepoints = <<>> /\ Len(codepoints) = 0 BY DEF ConverterInit
<1>2. Len(text) \in Nat BY ConverterInitInv DEF TypeInv
<1>3. at <= Len(text) + 1 BY <1>2 DEF ConverterInit
<1>4. \A k : k \notin 1..0 OBVIOUS
<1>5. NoneReplaced BY <1>1, <1>4 DEF NoneReplaced
<1>6. Covered(RowsOf(from), text, at - 1) BY <1>1, <1>4 DEF Covered
<1>7. Ascii(text, 0) = {} /\ Ascii(codepoints, 0) = {} BY <1>4 DEF Ascii
<1>8. SameUpTo(text, at - 1, codepoints) BY <1>1, <1>7 DEF SameUpTo
<1> QED BY <1>1, <1>3, <1>4, <1>5, <1>6, <1>8 DEF ReadInv

LEMMA NextRead == TypeInv /\ ReadInv /\ [ConverterNext]_converterVars => ReadInv'
<1> SUFFICES ASSUME TypeInv, ReadInv, [ConverterNext]_converterVars, pass' = 1 PROVE ReadInv'
  BY DEF ReadInv
<1>1. CASE Convert
  <2> DEFINE d == Decoded
             c == d.codepoint
             j == d.index
             rows == RowsOf(from)
             repl == ReplacementRow(from)
             all == codepoints
  <2>1. /\ at <= Len(text) /\ at' = j + 1 /\ codepoints' = Append(codepoints, c)
        /\ from' = from /\ text' = text /\ pass = 1
    BY <1>1 DEF Convert
  <2>2. c \in Scalars /\ j \in Nat BY <2>1, DecodedStep
  <2>3. from \in {"utf16", "utf8"} /\ Len(text) \in Nat /\ at \in 1..Len(text)
        /\ codepoints \in Seq(Scalars) /\ at - 1 \in Nat
    BY <2>1, SMT DEF TypeInv
  <2>4. Faithful(from, text, at, d)
    <3>1. CASE from = "utf16"
      <4>1. text \in Seq(utf16_t) BY <3>1 DEF TypeInv, Units
      <4> QED BY <2>3, <3>1, <4>1, Faithful16 DEF Decoded
    <3>2. CASE from = "utf8"
      <4>1. text \in Seq(utf8_t) BY <3>2 DEF TypeInv, Units
      <4> QED BY <2>3, <3>2, <4>1, Faithful8 DEF Decoded
    <3> QED BY <2>3, <3>1, <3>2
  <2>5. j \in at..Len(text)
    <3>1. CASE from = "utf16"
      <4>1. text \in Seq(utf16_t) BY <3>1 DEF TypeInv, Units
      <4> QED BY <2>3, <3>1, <4>1, Reads16 DEF Decoded
    <3>2. CASE from = "utf8"
      <4>1. text \in Seq(utf8_t) BY <3>2 DEF TypeInv, Units
      <4> QED BY <2>3, <3>2, <4>1, Reads8 DEF Decoded
    <3> QED BY <2>3, <3>1, <3>2
  <2>6. text[at] \in Nat
    <3>1. text \in Seq(Nat) BY UnitsAreNat DEF TypeInv
    <3> QED BY <2>3, <3>1
  <2>7. /\ c # INVALID_CODEPOINT => \E row \in rows : Stands(row, text, at) /\ j = at + Len(row) - 1
        /\ c = INVALID_CODEPOINT /\ (\E row \in rows : Stands(row, text, at)) =>
             Stands(repl, text, at)
        /\ Stands(repl, text, at) => c = INVALID_CODEPOINT
        /\ text[at] <= 127 => d = Read(text[at], at)
        /\ text[at] > 127 => c > 127 /\ \A k \in at + 1..j : text[k] > 127
    BY <2>4, Zenon DEF Faithful
  <2>8. text[at] <= 127 => c = text[at] /\ j = at BY <2>7 DEF Read
  <2>9. c \in Nat /\ codepoints \in Seq(Nat)
    <3>1. Scalars \subseteq Nat BY DEF Scalars
    <3> HIDE DEF c, Scalars
    <3>2. c \in Nat BY <2>2, <3>1
    <3>3. codepoints \in Seq(Nat) BY <2>3, <3>1, SeqOfMore
    <3> QED BY <3>2, <3>3
  <2>10. /\ Len(codepoints') = Len(codepoints) + 1 /\ Len(codepoints) \in Nat
         /\ codepoints'[Len(codepoints) + 1] = c
         /\ \A k \in 1..Len(codepoints) : codepoints'[k] = codepoints[k]
    <3> HIDE DEF d
    <3> QED BY <2>1, <2>2, <2>3
  <2>11. /\ at <= Len(text) + 1
         /\ NoneReplaced => Covered(rows, text, at - 1) /\ \A i \in 1..at - 1 : ~Stands(repl, text, i)
         /\ ~NoneReplaced => ~(WellFormed(from, text) /\ ~HasReplacement(from, text))
         /\ SameUpTo(text, at - 1, codepoints)
    BY <2>1 DEF ReadInv
  <2> HIDE DEF d, c, j, rows, repl
  <2>12. NoneReplaced' <=> NoneReplaced /\ c # INVALID_CODEPOINT
    <3>1. NoneReplaced' => NoneReplaced /\ c # INVALID_CODEPOINT BY <2>10 DEF NoneReplaced
    <3>2. ASSUME NoneReplaced, c # INVALID_CODEPOINT, NEW k \in 1..Len(codepoints) + 1
          PROVE  codepoints'[k] # INVALID_CODEPOINT
      <4>1. k = Len(codepoints) + 1 \/ k \in 1..Len(codepoints) BY <2>10
      <4> QED BY <2>10, <3>2, <4>1 DEF NoneReplaced
    <3> QED BY <2>10, <3>1, <3>2 DEF NoneReplaced
  <2>13. at' - 1 = j /\ at' <= Len(text) + 1 BY <2>1, <2>2, <2>3, <2>5
  <2>14. ASSUME NoneReplaced'
         PROVE  Covered(rows, text, j) /\ \A i \in 1..j : ~Stands(repl, text, i)
    <3>1. NoneReplaced /\ c # INVALID_CODEPOINT BY <2>12, <2>14
    <3>2. PICK r \in rows : Stands(r, text, at) /\ j = at + Len(r) - 1 BY <2>7, <3>1
    <3>3. at \in Nat \ {0} BY <2>3
    <3>4. Covered(rows, text, j) BY <2>11, <3>1, <3>2, <3>3, CoveredFurther DEF rows
    <3>5. ASSUME NEW i \in 1..j PROVE ~Stands(repl, text, i)
      <4>1. CASE i \in 1..at - 1 BY <2>11, <3>1, <4>1
      <4>2. CASE i = at BY <2>7, <3>1, <4>2
      <4>3. CASE i \in at + 1..at + Len(r) - 1
        BY <2>3, <3>2, <3>3, <4>3, NoneInside DEF rows, repl
      <4> QED BY <2>2, <2>3, <3>2, <4>1, <4>2, <4>3
    <3> QED BY <3>4, <3>5
  <2>15. ASSUME ~NoneReplaced'
         PROVE  ~(WellFormed(from, text) /\ ~HasReplacement(from, text))
    <3>1. CASE ~NoneReplaced BY <2>11, <3>1
    <3>2. CASE NoneReplaced
      <4>1. c = INVALID_CODEPOINT BY <2>12, <2>15, <3>2
      <4>2. CASE Stands(repl, text, at) BY <2>3, <4>2 DEF HasReplacement, repl
      <4>3. CASE ~Stands(repl, text, at)
        <5>1. \A row \in RowsOf(from) : ~Stands(row, text, at) BY <2>7, <4>1, <4>3 DEF rows
        <5> QED BY <2>3, <2>11, <3>2, <5>1, IllFormedFrom DEF rows
      <4> QED BY <4>2, <4>3
    <3> QED BY <3>1, <3>2
  <2>16. SameUpTo(text, j, Append(codepoints, c))
    <3> DEFINE n == at - 1
    <3>1. n \in Nat /\ n + 1 = at /\ SameUpTo(text, n, codepoints) BY <2>3, <2>11
    <3> HIDE DEF n
    <3>2. CASE text[at] <= 127
      <4>1. SameUpTo(text, n + 1, Append(codepoints, text[n + 1]))
        BY <2>6, <2>9, <3>1, <3>2, SameWithAscii
      <4> QED BY <2>8, <3>1, <3>2, <4>1
    <3>3. CASE ~(text[at] <= 127)
      <4>1. text[at] > 127 BY <2>6, <3>3
      <4>2. c > 127 /\ \A k \in at + 1..j : text[k] > 127 BY <2>7, <4>1
      <4>3. n <= j BY <2>2, <2>3, <2>5, <3>1
      <4>4. ASSUME NEW k \in n + 1..j PROVE ~(text[k] <= 127)
        <5>1. k = at \/ k \in at + 1..j BY <2>3, <3>1
        <5>2. text[k] > 127 BY <4>1, <4>2, <5>1
        <5>3. text \in Seq(Nat) BY UnitsAreNat DEF TypeInv
        <5>4. k \in 1..Len(text) BY <2>2, <2>3, <2>5, <3>1
        <5> QED BY <5>2, <5>3, <5>4
      <4> QED BY <2>2, <2>9, <3>1, <4>2, <4>3, <4>4, SameWithOther
    <3> QED BY <3>2, <3>3
  <2>17. rows' = rows /\ repl' = repl BY <2>1 DEF rows, repl
  <2>18. SameUpTo(text', at' - 1, codepoints') BY <2>1, <2>13, <2>16
  <2>19. NoneReplaced' => /\ Covered(RowsOf(from'), text', at' - 1)
                          /\ \A i \in 1..at' - 1 : ~Stands(ReplacementRow(from'), text', i)
    BY <2>1, <2>13, <2>14 DEF rows, repl
  <2>20. ~NoneReplaced' => ~(WellFormed(from', text') /\ ~HasReplacement(from', text'))
    BY <2>1, <2>15
  <2> QED BY <2>1, <2>13, <2>18, <2>19, <2>20 DEF ReadInv
<1>2. CASE ConvertBack BY <1>2 DEF ConvertBack
<1>3. CASE UNCHANGED converterVars
  BY <1>3 DEF converterVars, ReadInv, NoneReplaced
<1> QED BY <1>1, <1>2, <1>3 DEF ConverterNext

\* A text is read without a replacement character exactly when Unicode calls it
\* well formed and it holds none, and every ASCII character is read wherever it
\* stands, for every text in either encoding: what the decoders look ahead at, and
\* where they resume after what they reject, never costs or adds a character.
THEOREM ReplacesExactly == ConverterSpec => []ReplacesIllFormed
<1>1. TypeInv /\ ReadInv => ReplacesIllFormed
  <2> SUFFICES ASSUME TypeInv, ReadInv, Converted, pass = 1
               PROVE  /\ WellFormed(from, text) /\ ~HasReplacement(from, text) <=> NoneReplaced
                      /\ SameAscii(text, codepoints)
    BY DEF ReplacesIllFormed, NoneReplaced
  <2>1. at - 1 = Len(text) BY SMT DEF TypeInv, ReadInv, Converted
  <2>2. /\ NoneReplaced => /\ Covered(RowsOf(from), text, Len(text))
                           /\ \A i \in 1..Len(text) : ~Stands(ReplacementRow(from), text, i)
        /\ ~NoneReplaced => ~(WellFormed(from, text) /\ ~HasReplacement(from, text))
        /\ SameUpTo(text, Len(text), codepoints)
    BY <2>1 DEF ReadInv
  <2>3. SameAscii(text, codepoints) BY <2>2 DEF SameUpTo, SameAscii
  <2>4. NoneReplaced => WellFormed(from, text) /\ ~HasReplacement(from, text)
    BY <2>2 DEF WellFormed, HasReplacement
  <2> QED BY <2>2, <2>3, <2>4
<1> QED BY InitRead, NextRead, ReadsScalars, <1>1, PTL DEF ConverterSpec

=============================================================================
