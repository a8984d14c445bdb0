--------------------------- MODULE AudioServer_proofs ---------------------------
(***************************************************************************)
(* For any number of rounds: the two threads of a round never meet in a    *)
(* buffer, and a packet is the recording of the round before.  The         *)
(* argument: the encoder's thread lives from the head of the loop to the   *)
(* swap, so the two names of the buffers stand still while it is there,    *)
(* and between two swaps only the front buffer is written.                 *)
(***************************************************************************)
EXTENDS AudioServer, TLAPS

InRound == {"read", "reading", "join"}

TypeInv ==
  /\ pc \in InRound \cup {"test", "ended"}
  /\ enc \in {"none", "start", "encoding", "send", "done"}
  /\ owner \in {"serving", "joining", "freed"}
  /\ PCM_bytes \in Buffers /\ PCM_bytes_back \in Buffers
  /\ content \in [Buffers -> Int]
  /\ encoding \in [buffer : Buffers, recording : Int]
  /\ Compressed \in Int /\ audio_count \in Int
  /\ round \in Nat
  /\ wire \in Seq([number : Int, recording : Int, round : Nat])

\* The encoder's thread lives within a round, and Delete waits for the loop.
ThreadsNest ==
  /\ pc \in InRound <=> enc # "none"
  /\ owner = "freed" => pc = "ended"

\* What the buffers hold: the back one never changes in a round.
BuffersKept ==
  /\ PCM_bytes # PCM_bytes_back
  /\ content[PCM_bytes_back] # Torn
  /\ pc # "reading" => content[PCM_bytes] # Torn
  /\ enc = "encoding" => encoding = [buffer |-> PCM_bytes_back, recording |-> content[PCM_bytes_back]]

\* Which recordings they are.
RecordingsKept ==
  /\ pc \notin InRound /\ round \notin failed => content[PCM_bytes_back] = round
  /\ pc \in InRound /\ round - 1 \notin failed => content[PCM_bytes_back] = round - 1
  /\ pc = "join" /\ round \notin failed => content[PCM_bytes] = round
  /\ enc = "send" /\ round - 1 \notin failed => Compressed = round - 1

IInv == TypeInv /\ ThreadsNest /\ BuffersKept /\ RecordingsKept /\ OneRoundLate

LEMMA InitIInv == Init => IInv
<1> SUFFICES ASSUME Init PROVE IInv OBVIOUS
<1> USE AudioAssumption DEF Init
<1>1. TypeInv BY DEF TypeInv, Buffers, InRound
<1>2. ThreadsNest BY DEF ThreadsNest, InRound
<1>3. BuffersKept BY DEF BuffersKept, Buffers, Torn
<1>4. RecordingsKept BY DEF RecordingsKept, InRound, Buffers
<1>5. OneRoundLate BY DEF OneRoundLate
<1> QED BY <1>1, <1>2, <1>3, <1>4, <1>5 DEF IInv

\* The steps of the main loop leave the packets alone.
LEMMA StartIInv == ASSUME IInv, StartRound PROVE IInv'
<1> USE DEF IInv, StartRound, buffers, control
<1>1. TypeInv' BY DEF TypeInv, InRound
<1>2. ThreadsNest' BY DEF ThreadsNest, InRound
<1>3. BuffersKept' BY DEF BuffersKept, ThreadsNest, InRound
<1>4. RecordingsKept' BY DEF RecordingsKept, InRound, TypeInv
<1>5. OneRoundLate' BY DEF OneRoundLate
<1> QED BY <1>1, <1>2, <1>3, <1>4, <1>5

LEMMA LeaveIInv == ASSUME IInv, LeaveLoop PROVE IInv'
<1> USE DEF IInv, LeaveLoop, buffers, control, encoder
<1>1. TypeInv' BY DEF TypeInv, InRound
<1>2. ThreadsNest' BY DEF ThreadsNest, InRound
<1>3. BuffersKept' BY DEF BuffersKept, InRound
<1>4. RecordingsKept' BY DEF RecordingsKept, InRound
<1>5. OneRoundLate' BY DEF OneRoundLate
<1> QED BY <1>1, <1>2, <1>3, <1>4, <1>5

\* A read writes the front buffer only.
LEMMA ReadIInv == ASSUME IInv, ReadBegin \/ ReadEnd PROVE IInv'
<1> USE DEF IInv, control, encoder
<1>1. /\ pc \in {"read", "reading"} /\ pc' \in {"reading", "join"}
      /\ \E r \in Int : content' = [content EXCEPT ![PCM_bytes] = r]
      /\ PCM_bytes' = PCM_bytes /\ PCM_bytes_back' = PCM_bytes_back
      /\ round' = round /\ failed' = failed
      /\ enc' = enc /\ encoding' = encoding /\ Compressed' = Compressed
      /\ audio_count' = audio_count /\ wire' = wire /\ owner' = owner
  BY DEF ReadBegin, ReadEnd, Torn, TypeInv
<1>2. content'[PCM_bytes_back] = content[PCM_bytes_back] BY <1>1 DEF TypeInv, BuffersKept
<1>3. pc' = "join" => content'[PCM_bytes] = round
  BY DEF ReadBegin, ReadEnd, TypeInv
<1>4. TypeInv' BY <1>1 DEF TypeInv, InRound
<1>5. ThreadsNest' BY <1>1 DEF ThreadsNest, InRound
<1>6. BuffersKept'
  <2>1. round # Torn BY DEF TypeInv, Torn
  <2> QED BY <1>1, <1>2, <1>3, <2>1 DEF BuffersKept
<1>7. RecordingsKept' BY <1>1, <1>2, <1>3 DEF RecordingsKept, InRound
<1>8. OneRoundLate' BY <1>1 DEF OneRoundLate
<1> QED BY <1>4, <1>5, <1>6, <1>7, <1>8

LEMMA ReadFailsIInv == ASSUME IInv, ReadFails PROVE IInv'
<1> USE DEF IInv, ReadFails, buffers, control, encoder
<1>1. TypeInv' BY DEF TypeInv, InRound
<1>2. ThreadsNest' BY DEF ThreadsNest, InRound
<1>3. BuffersKept' BY DEF BuffersKept
<1>4. RecordingsKept' BY DEF RecordingsKept, InRound
<1>5. OneRoundLate' BY DEF OneRoundLate
<1> QED BY <1>1, <1>2, <1>3, <1>4, <1>5

\* The swap finds the thread joined.
LEMMA SwapIInv == ASSUME IInv, JoinAndSwap PROVE IInv'
<1> USE DEF IInv, JoinAndSwap, control
<1>1. TypeInv' BY DEF TypeInv, InRound
<1>2. ThreadsNest' BY DEF ThreadsNest, InRound
<1>3. BuffersKept' BY DEF BuffersKept
<1>4. RecordingsKept' BY DEF RecordingsKept, InRound
<1>5. OneRoundLate' BY DEF OneRoundLate
<1> QED BY <1>1, <1>2, <1>3, <1>4, <1>5

LEMMA EncodeIInv == ASSUME IInv, EncodeBegin \/ EncodeEnd \/ EncodeFails PROVE IInv'
<1> USE DEF IInv, EncodeBegin, EncodeEnd, EncodeFails, buffers, control
<1>1. TypeInv' BY DEF TypeInv
<1>2. ThreadsNest' BY DEF ThreadsNest
<1>3. BuffersKept' BY DEF BuffersKept
<1>4. RecordingsKept' BY DEF RecordingsKept, BuffersKept, ThreadsNest
<1>5. OneRoundLate' BY DEF OneRoundLate
<1> QED BY <1>1, <1>2, <1>3, <1>4, <1>5

LEMMA SendIInv == ASSUME IInv, Send PROVE IInv'
<1> USE DEF IInv, Send, buffers, control
<1>1. TypeInv' BY DEF TypeInv
<1>2. ThreadsNest' BY DEF ThreadsNest
<1>3. BuffersKept' BY DEF BuffersKept
<1>4. RecordingsKept' BY DEF RecordingsKept
<1>5. OneRoundLate'
  <2> DEFINE packet == [number |-> audio_count - 1, recording |-> Compressed, round |-> round]
  <2>1. round - 1 \notin failed => packet.recording = packet.round - 1
    BY DEF RecordingsKept
  <2>2. wire \in Seq([number : Int, recording : Int, round : Nat])
        /\ packet \in [number : Int, recording : Int, round : Nat]
    BY DEF TypeInv
  <2>3. wire' = Append(wire, packet) OBVIOUS
  <2> HIDE DEF packet
  <2>4. \A k \in DOMAIN wire' : \/ k \in DOMAIN wire /\ wire'[k] = wire[k]
                                \/ wire'[k] = packet
    BY <2>2, <2>3, SMTT(30)
  <2> QED BY <2>1, <2>4 DEF OneRoundLate, packet
<1> QED BY <1>1, <1>2, <1>3, <1>4, <1>5

LEMMA DeleteIInv == ASSUME IInv, Delete PROVE IInv'
<1> USE DEF IInv, Delete, DeleteStop, DeleteFree, buffers, encoder
<1>1. TypeInv' BY DEF TypeInv
<1>2. ThreadsNest' BY DEF ThreadsNest
<1>3. BuffersKept' BY DEF BuffersKept
<1>4. RecordingsKept' BY DEF RecordingsKept
<1>5. OneRoundLate' BY DEF OneRoundLate
<1> QED BY <1>1, <1>2, <1>3, <1>4, <1>5

LEMMA StepIInv == IInv /\ [Next]_vars => IInv'
<1> SUFFICES ASSUME IInv, [Next]_vars PROVE IInv' OBVIOUS
<1>1. CASE MainLoop
  BY <1>1, StartIInv, LeaveIInv, ReadIInv, ReadFailsIInv, SwapIInv DEF MainLoop
<1>2. CASE SendBuffer BY <1>2, EncodeIInv, SendIInv DEF SendBuffer
<1>3. CASE Delete BY <1>3, DeleteIInv
<1>4. CASE UNCHANGED vars
  BY <1>4 DEF vars, IInv, TypeInv, ThreadsNest, BuffersKept, RecordingsKept, OneRoundLate
<1> QED BY <1>1, <1>2, <1>3, <1>4 DEF Next, Done

\* Main_AUDIO_SERVER and Send_Buffer: in whatever order the two threads of a
\* round run, the buffer opus_encode reads keeps still, and no thread is left
\* when the buffers are freed.
THEOREM BuffersSteady == Spec => []EncodesSteadyBuffer
<1>1. IInv => EncodesSteadyBuffer
  BY DEF IInv, TypeInv, ThreadsNest, BuffersKept, EncodesSteadyBuffer, InRound
<1> QED BY InitIInv, StepIInv, <1>1, PTL DEF Spec

\* Every packet is the recording of the round before it, unless that failed.
THEOREM SoundInOrder == Spec => []OneRoundLate
<1>1. IInv => OneRoundLate BY DEF IInv
<1> QED BY InitIInv, StepIInv, <1>1, PTL DEF Spec
=============================================================================
