---------------------------- MODULE AudioServer ----------------------------
(***************************************************************************)
(* The audio service of AUDIO_SERVER.cpp and OPUS_PA.cpp.  Its main loop    *)
(* works in rounds: a new thread encodes and sends one buffer while the     *)
(* loop records into the other, then the loop joins the thread and swaps    *)
(* the buffers.  Delete stops the loop and frees the buffers.               *)
(*                                                                          *)
(* A recording is named by the round that made it; 0 is the silence that    *)
(* memset leaves.  A round is not part of the code: it counts the passes    *)
(* of the main loop, at most MaxRounds of them.                             *)
(***************************************************************************)
EXTENDS Integers, Sequences

CONSTANTS
    MaxRounds,   \* bound on the rounds of the main loop
    FirstCounts  \* the values audio_count may have: nothing initialises it

ASSUME AudioAssumption ==
    /\ MaxRounds \in Nat \ {0}
    /\ FirstCounts \subseteq Int

Buffers == {"a", "b"}

\* The content of a buffer that is being written.
Torn == -1

VARIABLES
    pc,                 \* the main loop
    enc,                \* the thread of Send_Buffer
    owner,              \* the thread that created the service and deletes it
    main_loop_running,
    PCM_bytes,          \* the buffer that is recorded into
    PCM_bytes_back,     \* the buffer that is encoded
    content,            \* the recording in each buffer
    encoding,           \* the buffer opus_encode reads, and what it held at first
    Compressed,         \* the recording in the packet to send
    audio_count,        \* the number of the next packet
    round,              \* the round of the main loop
    failed,             \* the rounds in which pa_simple_read failed
    wire                \* the packets given to the socket server

vars == <<pc, enc, owner, main_loop_running, PCM_bytes, PCM_bytes_back, content,
          encoding, Compressed, audio_count, round, failed, wire>>

control  == <<main_loop_running, owner>>
encoder  == <<enc, encoding, Compressed, audio_count, wire>>
buffers  == <<PCM_bytes, PCM_bytes_back, content>>

-----------------------------------------------------------------------------

(***************************************************************************)
(* A service whose Initialize has returned true: both buffers hold silence, *)
(* and the main loop has just been started.                                 *)
(***************************************************************************)
Init ==
    /\ pc = "test"
    /\ enc = "none"
    /\ owner = "serving"
    /\ main_loop_running = TRUE
    /\ PCM_bytes = "a"
    /\ PCM_bytes_back = "b"
    /\ content = [b \in Buffers |-> 0]
    /\ encoding = [buffer |-> "b", recording |-> 0]
    /\ Compressed = 0
    /\ audio_count \in FirstCounts
    /\ round = 0
    /\ failed = {}
    /\ wire = <<>>

-----------------------------------------------------------------------------
(***************************************************************************)
(* The main loop.                                                           *)
(***************************************************************************)

\* The head of the loop, and the thread it starts.
StartRound ==
    /\ pc = "test"
    /\ main_loop_running
    /\ round < MaxRounds
    /\ round' = round + 1
    /\ enc' = "start"
    /\ pc' = "read"
    /\ UNCHANGED <<encoding, Compressed, audio_count, wire, buffers, control, failed>>

LeaveLoop ==
    /\ pc = "test"
    /\ ~main_loop_running
    /\ pc' = "ended"
    /\ UNCHANGED <<encoder, buffers, control, round, failed>>

\* Get_Audio_OPUS_PA: pa_simple_read fills the buffer over a while.
ReadBegin ==
    /\ pc = "read"
    /\ content' = [content EXCEPT ![PCM_bytes] = Torn]
    /\ pc' = "reading"
    /\ UNCHANGED <<encoder, PCM_bytes, PCM_bytes_back, control, round, failed>>

ReadEnd ==
    /\ pc = "reading"
    /\ content' = [content EXCEPT ![PCM_bytes] = round]
    /\ pc' = "join"
    /\ UNCHANGED <<encoder, PCM_bytes, PCM_bytes_back, control, round, failed>>

\* A read that fails is logged, and the round goes on with what the buffer held.
ReadFails ==
    /\ pc = "read"
    /\ failed' = failed \cup {round}
    /\ pc' = "join"
    /\ UNCHANGED <<encoder, buffers, control, round>>

\* Mutant: the thread is not waited for.
JoinAndSwap_NoJoin ==
    /\ pc = "join"
    /\ PCM_bytes' = PCM_bytes_back
    /\ PCM_bytes_back' = PCM_bytes
    /\ pc' = "test"
    /\ UNCHANGED <<encoder, content, control, round, failed>>

\* The join of the thread, and the swap of the buffers.
JoinAndSwap ==
    /\ pc = "join"
    /\ enc = "done"
    /\ PCM_bytes' = PCM_bytes_back
    /\ PCM_bytes_back' = PCM_bytes
    /\ enc' = "none"
    /\ pc' = "test"
    /\ UNCHANGED <<encoding, Compressed, audio_count, wire, content, control, round, failed>>

MainLoop == StartRound \/ LeaveLoop \/ ReadBegin \/ ReadEnd \/ ReadFails \/ JoinAndSwap

-----------------------------------------------------------------------------
(***************************************************************************)
(* The thread of Send_Buffer.                                               *)
(***************************************************************************)

\* Mutant: the thread encodes the buffer that is recorded into.
EncodeBegin_Front ==
    /\ enc = "start"
    /\ encoding' = [buffer |-> PCM_bytes, recording |-> content[PCM_bytes]]
    /\ enc' = "encoding"
    /\ UNCHANGED <<pc, Compressed, audio_count, wire, buffers, control, round, failed>>

\* Encode_Buffer_OPUS_PA begins to read the buffer that is the back one now.
EncodeBegin ==
    /\ enc = "start"
    /\ encoding' = [buffer |-> PCM_bytes_back, recording |-> content[PCM_bytes_back]]
    /\ enc' = "encoding"
    /\ UNCHANGED <<pc, Compressed, audio_count, wire, buffers, control, round, failed>>

\* It has read the buffer, and writes the packet and its number.
EncodeEnd ==
    /\ enc = "encoding"
    /\ Compressed' = content[encoding.buffer]
    /\ audio_count' = audio_count + 1
    /\ enc' = "send"
    /\ UNCHANGED <<pc, encoding, wire, buffers, control, round, failed>>

\* opus_encode reports an error: the packet is not sent, and not numbered.
EncodeFails ==
    /\ enc = "encoding"
    /\ enc' = "done"
    /\ UNCHANGED <<pc, encoding, Compressed, audio_count, wire, buffers, control, round, failed>>

\* Send_SOCKET_SERVER, which takes a copy.
Send ==
    /\ enc = "send"
    /\ wire' = Append(wire, [number |-> audio_count - 1, recording |-> Compressed, round |-> round])
    /\ enc' = "done"
    /\ UNCHANGED <<pc, encoding, Compressed, audio_count, buffers, control, round, failed>>

SendBuffer == EncodeBegin \/ EncodeEnd \/ EncodeFails \/ Send

-----------------------------------------------------------------------------
(***************************************************************************)
(* AUDIO_SERVER::Delete.                                                    *)
(***************************************************************************)

\* Mutant: the loop is not told to stop.
DeleteStop_Untold ==
    /\ owner = "serving"
    /\ owner' = "joining"
    /\ UNCHANGED <<pc, encoder, buffers, main_loop_running, round, failed>>

DeleteStop ==
    /\ owner = "serving"
    /\ main_loop_running' = FALSE
    /\ owner' = "joining"
    /\ UNCHANGED <<pc, encoder, buffers, round, failed>>

\* The join of the main loop, and delete of the buffers and the encoder.
DeleteFree ==
    /\ owner = "joining"
    /\ pc = "ended"
    /\ owner' = "freed"
    /\ UNCHANGED <<pc, encoder, buffers, main_loop_running, round, failed>>

Delete == DeleteStop \/ DeleteFree

\* The service is gone.
Done ==
    /\ owner = "freed"
    /\ UNCHANGED vars

Next == MainLoop \/ SendBuffer \/ Delete \/ Done

Spec == Init /\ [][Next]_vars

(***************************************************************************)
(* Both threads are scheduled, a read of the recording device returns and   *)
(* so do opus_encode and the socket server; a Delete that began goes on.    *)
(***************************************************************************)
Fairness == WF_vars(MainLoop) /\ WF_vars(SendBuffer) /\ WF_vars(DeleteFree)

LiveSpec == Spec /\ Fairness

-----------------------------------------------------------------------------

(***************************************************************************)
(* While opus_encode reads a buffer nothing writes into it, in whatever     *)
(* order the two threads of a round finish, and when the buffers are freed  *)
(* no thread is left that uses them: Delete joins only the main loop, which *)
(* must have joined its own.                                                *)
(***************************************************************************)
EncodesSteadyBuffer ==
    /\ enc = "encoding" =>
         /\ content[encoding.buffer] = encoding.recording
         /\ encoding.recording # Torn
    /\ owner = "freed" => pc = "ended" /\ enc = "none"

(***************************************************************************)
(* A packet that a round sends is the recording of the round before, unless *)
(* that recording failed: sound is one round late and never out of order,   *)
(* skipped or repeated by the swap of the buffers.                          *)
(***************************************************************************)
OneRoundLate ==
    \A k \in DOMAIN wire :
        wire[k].round - 1 \notin failed => wire[k].recording = wire[k].round - 1

(***************************************************************************)
(* Delete returns, however the last round goes.                             *)
(***************************************************************************)
DeleteReturns == owner = "joining" ~> owner = "freed"
=============================================================================
