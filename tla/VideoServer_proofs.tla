--------------------------- MODULE VideoServer_proofs ---------------------------
(***************************************************************************)
(* For any sizes, rates, levels and faults: what a frame is encoded with,  *)
(* what an answered request has changed, and what ends the process.  The   *)
(* argument: width and height are written only while `resize' is down, the *)
(* loop rebuilds only while it is up, and the thread that raised it waits  *)
(* for the loop to lower it before it writes again.                        *)
(***************************************************************************)
EXTENDS VideoServer, TLAPS

Serving == {"while", "if", "frame"}
Rebuild == {"delete", "limiter", "xvfb", "x264", "lower"}
Writing == {"width", "height", "resize"}   \* before the flag is raised
Waiting == {"fps", "level", "wait"}        \* after it

TypeInv ==
  /\ owner \in {"new", "serving", "join", "delete", "freed", "aborted"}
  /\ loop \in Serving \cup Rebuild \cup {"none", "ended"}
  /\ http \in Writing \cup Waiting \cup {"idle", "lost"}
  /\ resize \in BOOLEAN /\ resizeAtStart \in BOOLEAN
  /\ width \in Nat /\ height \in Nat
  /\ http \in Writing \cup Waiting => request.w \in Nat /\ request.h \in Nat

\* The owner frees what the loop uses only when there is no loop.
Control ==
  /\ owner = "new" => loop = "none" /\ http = "idle" /\ answered = Idle
                        /\ resize = resizeAtStart /\ encoder = Garbage
  /\ owner \in {"delete", "freed", "aborted"} => loop \in {"none", "ended"}
  /\ http = "lost" => loop \in {"none", "ended"}
  /\ answered # Idle => http = "idle"

\* The flag is a hand-over between the HTTP thread and the loop.
Flag ==
  ~resizeAtStart =>
    /\ http \in Writing \cup {"idle"} /\ loop \in Serving \cup Rebuild => ~resize
    /\ loop \in Rebuild => resize

\* The fields hold what the call in progress has written so far, and what the
\* last call that was answered wrote.
Written ==
  /\ http \in {"height", "resize"} \cup Waiting => width = request.w
  /\ http \in {"resize"} \cup Waiting => height = request.h
  /\ http \in {"level", "wait"} => fps = request.f
  /\ http = "wait" => level = request.l
  /\ answered # Idle => /\ width = answered.w /\ height = answered.h
                        /\ fps = answered.f /\ level = answered.l

\* A rebuild that nobody has asked for still finds the size x264 accepted, so
\* an empty capture never gets an encoder, even if a request tears the rebuild.
NonEmpty ==
  /\ loop \in Rebuild => resize
  /\ loop \in Serving \cup Rebuild /\ resize =>
       /\ http \in {"idle", "width"} => width # 0
       /\ http \in {"idle", "width", "height"} => height # 0
  /\ loop = "x264" => (xvfb[1] = 0 => width = 0) /\ (xvfb[2] = 0 => height = 0)
  /\ loop \in Serving \cup {"lower"} => xvfb[1] # 0 /\ xvfb[2] # 0

Built ==
  /\ loop \in Serving \cup {"x264", "lower"} => xvfb # None
  /\ loop \in Serving \cup {"lower"} => encoder # None /\ encoder # Garbage

\* Capture and encoder fit, and are of the size last written while no write is
\* under way.
Fit ==
  ~resizeAtStart =>
    /\ loop = "x264" => xvfb = <<width, height>>
    /\ loop = "lower" => xvfb = <<width, height>> /\ Size(encoder) = <<width, height>>
    /\ loop \in Serving => xvfb = Size(encoder)
    /\ loop \in Serving /\ ~resize /\ http \notin {"height", "resize"} => xvfb = <<width, height>>

Full == encoder = <<width, height, fps, level>> /\ limiter = fps

\* A Dimensions request leaves rate and level alone, from its call on.
CatchUp ==
  /\ http \in Writing \cup Waiting /\ request.kind = "dimensions" =>
       request.f = fps /\ request.l = level
  /\ ~resizeAtStart /\ http \in Waiting /\ request.kind = "dimensions" =>
       /\ loop \in {"xvfb", "x264", "lower"} => limiter = fps
       /\ loop = "lower" => Full
       /\ loop \in Serving /\ ~resize => Full
  /\ ~resizeAtStart /\ answered.kind = "dimensions" /\ loop \in Serving => Full

IInv == /\ TypeInv /\ Control /\ Flag /\ Written /\ NonEmpty /\ Built /\ Fit /\ CatchUp
        /\ NoSizeAborts

-----------------------------------------------------------------------------

LEMMA Distinct ==
  \A a, b, c, d : /\ <<a, b>> # None
                  /\ <<a, b, c, d>> # None /\ <<a, b, c, d>> # Garbage
                  /\ Size(<<a, b, c, d>>) = <<a, b>>
BY DEF None, Garbage, Size

\* RGB2YUV finds a number of threads for every even height.
LEMMA EvenHasThreads ==
  ASSUME NEW h \in Nat, h % 2 = 0
  PROVE  SliceThreads(h) # 0
<1> DEFINE S == {0} \cup {t \in 1..8 : h % t = 0 /\ (h \div t) % 2 = 0}
<1>1. h % 1 = 0 /\ h \div 1 = h OBVIOUS
<1>2. 1 \in S BY <1>1
<1>3. S \subseteq 0..8 OBVIOUS
<1> HIDE DEF S
<1>4. \E x \in S : \A y \in S : x >= y
  <2>1. \A x \in S : x \in {0, 1, 2, 3, 4, 5, 6, 7, 8} BY <1>3
  <2> QED BY <1>2, <2>1
<1>5. Max(S) \in S /\ \A y \in S : Max(S) >= y BY <1>4 DEF Max
<1> QED BY <1>2, <1>3, <1>5 DEF SliceThreads, S

USE DEF Serving, Rebuild, Writing, Waiting, ownerVars, capture, Dies

LEMMA InitIInv == Init => IInv
<1> SUFFICES ASSUME Init PROVE IInv OBVIOUS
<1>1. width \in Nat /\ height \in Nat BY VideoAssumption DEF Init
<1> QED BY <1>1 DEF Init, Idle, IInv, TypeInv, Control, Flag, Written, NonEmpty, Built, Fit, CatchUp, NoSizeAborts

-----------------------------------------------------------------------------
(* The owner *)

LEMMA InitializeIInv == ASSUME IInv, Initialize PROVE IInv'
<1> USE DEF IInv, Initialize, fields, callVars
<1>1. SliceThreads(height) # 0 BY EvenHasThreads DEF TypeInv, X264Opens
<1>2. /\ xvfb' = <<width, height>> /\ encoder' = <<width, height, fps, level>>
      /\ running' = TRUE /\ loop' = "while" /\ owner' = "serving"
  BY <1>1
<1>3. TypeInv' BY <1>2 DEF TypeInv
<1>4. Control' BY <1>2 DEF Control
<1>5. Flag' BY <1>2 DEF Flag, Control
<1>6. Built' BY <1>2, Distinct DEF Built
<1>7. Fit'
  <2>1. Size(encoder)' = <<width, height>> BY <1>2, Distinct
  <2> QED BY <1>2, <2>1 DEF Fit
<1>8. CatchUp' BY <1>2 DEF CatchUp, Control, Idle
<1>9. NoSizeAborts' BY <1>1 DEF NoSizeAborts
<1>10. Written' BY <1>2 DEF Written
<1>11. NonEmpty' BY <1>2 DEF NonEmpty, Control, X264Opens, TypeInv
<1> QED BY <1>3, <1>4, <1>5, <1>6, <1>7, <1>8, <1>9, <1>10, <1>11

LEMMA OwnerIInv ==
  ASSUME IInv, InitializeFails \/ InitializeDies \/ StopLoop \/ JoinLoop \/ DeleteParts
  PROVE  IInv'
<1> USE DEF IInv, fields, callVars, loopVars
<1>1. /\ loop' = loop /\ limiter' = limiter /\ resize' = resize /\ resizeAtStart' = resizeAtStart
      /\ width' = width /\ height' = height /\ fps' = fps /\ level' = level
      /\ http' = http /\ request' = request /\ answered' = answered
      /\ owner' \in {"join", "delete", "freed", "aborted"}
      /\ owner' \in {"delete", "freed", "aborted"} => loop \in {"none", "ended"}
  BY DEF InitializeFails, InitializeDies, StopLoop, JoinLoop, DeleteParts, Control
<1>2. loop \in Serving \cup Rebuild => xvfb' = xvfb /\ encoder' = encoder
  BY DEF InitializeFails, InitializeDies, StopLoop, JoinLoop, DeleteParts, Control
<1>3. cause' \in {cause, "image", "fields"}
  BY DEF InitializeFails, InitializeDies, StopLoop, JoinLoop, DeleteParts
<1>4. TypeInv' BY <1>1 DEF TypeInv
<1>5. Control' BY <1>1 DEF Control
<1>6. Flag' BY <1>1 DEF Flag
<1>7. Built' BY <1>1, <1>2 DEF Built
<1>8. Fit' BY <1>1, <1>2 DEF Fit, Size
<1>9. CatchUp' BY <1>1, <1>2 DEF CatchUp, Full
<1>10. NoSizeAborts' BY <1>3 DEF NoSizeAborts
<1>11. Written' BY <1>1 DEF Written
<1>12. NonEmpty' BY <1>1, <1>2 DEF NonEmpty
<1> QED BY <1>4, <1>5, <1>6, <1>7, <1>8, <1>9, <1>10, <1>11, <1>12

-----------------------------------------------------------------------------
(* The main loop *)

LEMMA LoopIInv ==
  ASSUME IInv, LoopWhile \/ LoopIf \/ Frame
  PROVE  IInv'
<1> USE DEF IInv, fields, callVars
<1>1. /\ xvfb' = xvfb /\ encoder' = encoder /\ limiter' = limiter
      /\ resize' = resize /\ resizeAtStart' = resizeAtStart
      /\ width' = width /\ height' = height /\ fps' = fps /\ level' = level
      /\ http' = http /\ request' = request /\ answered' = answered
      /\ loop \in Serving /\ loop' \in Serving \cup {"delete", "ended"}
      /\ loop' = "delete" => resize
      /\ \/ owner' = owner /\ cause' = cause
         \/ owner' = "aborted" /\ loop' = "ended" /\ cause' \in {"image", "rate"}
  <2>1. CASE LoopWhile BY <2>1 DEF LoopWhile
  <2>2. CASE LoopIf BY <2>2 DEF LoopIf
  <2>3. CASE Frame
    <3>1. 0 \notin {xvfb[1], xvfb[2]} BY <2>3 DEF Frame, NonEmpty
    <3>2. \/ cause' \in {"image", "rate"} /\ owner' = "aborted" /\ loop' = "ended"
          \/ UNCHANGED <<owner, cause>> /\ loop' = "while"
      <4>1. CASE ~mapped' BY <2>3, <3>1, <4>1 DEF Frame
      <4>2. CASE mapped' /\ limiter = 0 BY <2>3, <4>2 DEF Frame
      <4>3. CASE mapped' /\ limiter # 0 BY <2>3, <4>3 DEF Frame
      <4> QED BY <4>1, <4>2, <4>3
    <3> QED BY <2>3, <3>2 DEF Frame
  <2> QED BY <2>1, <2>2, <2>3
<1>2. TypeInv' BY <1>1 DEF TypeInv
<1>3. Control' BY <1>1 DEF Control
<1>4. Flag' BY <1>1 DEF Flag
<1>5. Built' BY <1>1 DEF Built
<1>6. Fit' BY <1>1 DEF Fit, Size
<1>7. CatchUp' BY <1>1 DEF CatchUp, Full
<1>8. NoSizeAborts' BY <1>1 DEF NoSizeAborts
<1>9. Written' BY <1>1 DEF Written
<1>10. NonEmpty' BY <1>1 DEF NonEmpty
<1> QED BY <1>2, <1>3, <1>4, <1>5, <1>6, <1>7, <1>8, <1>9, <1>10

\* Taking the old parts away, and the new limiter and capture.
LEMMA RebuildIInv ==
  ASSUME IInv, DeleteOld \/ NewLimiter \/ NewXvfb
  PROVE  IInv'
<1> USE DEF IInv, fields, callVars
<1>1. /\ resize' = resize /\ resizeAtStart' = resizeAtStart
      /\ width' = width /\ height' = height /\ fps' = fps /\ level' = level
      /\ http' = http /\ request' = request /\ answered' = answered
      /\ loop \in Rebuild /\ loop' \in {"limiter", "xvfb", "x264", "ended"}
      /\ \/ owner' = owner /\ cause' = cause
         \/ owner' = "aborted" /\ cause' = "image" /\ loop' = "ended"
      /\ loop' = "x264" => xvfb' = <<width, height>> /\ loop = "xvfb" /\ limiter' = limiter
      /\ loop' = "xvfb" => limiter' = fps
  BY DEF DeleteOld, NewLimiter, NewXvfb
<1>2. TypeInv' BY <1>1 DEF TypeInv
<1>3. Control' BY <1>1 DEF Control
<1>4. Flag' BY <1>1 DEF Flag
<1>5. Built' BY <1>1, Distinct DEF Built
<1>6. Fit' BY <1>1 DEF Fit
<1>7. CatchUp' BY <1>1 DEF CatchUp
<1>8. NoSizeAborts' BY <1>1 DEF NoSizeAborts
<1>9. Written' BY <1>1 DEF Written
<1>10. NonEmpty'
  <2>1. loop' = "x264" => xvfb'[1] = width /\ xvfb'[2] = height BY <1>1
  <2> QED BY <1>1, <2>1 DEF NonEmpty
<1> QED BY <1>2, <1>3, <1>4, <1>5, <1>6, <1>7, <1>8, <1>9, <1>10

LEMMA EncoderIInv == ASSUME IInv, NewEncoder PROVE IInv'
<1> USE DEF IInv, NewEncoder, fields, callVars
<1>1. /\ resize' = resize /\ resizeAtStart' = resizeAtStart
      /\ width' = width /\ height' = height /\ fps' = fps /\ level' = level
      /\ http' = http /\ request' = request /\ answered' = answered
      /\ xvfb' = xvfb /\ limiter' = limiter /\ loop = "x264"
  OBVIOUS
<1>2. X264Opens(width, height) => SliceThreads(height) # 0
  BY EvenHasThreads DEF TypeInv, X264Opens
<1>3. /\ \/ owner' = owner /\ cause' = cause
         \/ owner' = "aborted" /\ cause' = "level" /\ loop' = "ended"
      /\ \/ loop' = "ended"
         \/ /\ loop' = "lower" /\ encoder' = <<width, height, fps, level>>
            /\ X264Opens(width, height)
  BY <1>2
<1>4. TypeInv' BY <1>1, <1>3 DEF TypeInv
<1>5. Control' BY <1>1, <1>3 DEF Control
<1>6. Flag' BY <1>1, <1>3 DEF Flag
<1>7. Built' BY <1>1, <1>3, Distinct DEF Built
<1>8. Fit'
  <2>1. loop' = "lower" => Size(encoder)' = <<width, height>> BY <1>3, Distinct
  <2> QED BY <1>1, <1>3, <2>1 DEF Fit
<1>9. CatchUp' BY <1>1, <1>3 DEF CatchUp, Full
<1>10. NoSizeAborts' BY <1>3 DEF NoSizeAborts
<1>11. Written' BY <1>1 DEF Written
<1>12. NonEmpty'
  <2>1. loop' = "lower" => width # 0 /\ height # 0 BY <1>3 DEF X264Opens, TypeInv
  <2> QED BY <1>1, <1>3, <2>1 DEF NonEmpty
<1> QED BY <1>4, <1>5, <1>6, <1>7, <1>8, <1>9, <1>10, <1>11, <1>12

LEMMA LowerIInv == ASSUME IInv, LowerResize PROVE IInv'
<1> USE DEF IInv, LowerResize, fields, callVars
<1>1. TypeInv' BY DEF TypeInv
<1>2. Control' BY DEF Control
<1>3. Flag' BY DEF Flag
<1>4. Built' BY DEF Built
<1>5. Fit' BY DEF Fit, Size
<1>6. CatchUp' BY DEF CatchUp, Idle, Full, Flag, Control, TypeInv
<1>7. NoSizeAborts' BY DEF NoSizeAborts
<1>8. Written' BY DEF Written
<1>9. NonEmpty' BY DEF NonEmpty
<1> QED BY <1>1, <1>2, <1>3, <1>4, <1>5, <1>6, <1>7, <1>8, <1>9

-----------------------------------------------------------------------------
(* The HTTP thread *)

LEMMA RequestIInv ==
  ASSUME IInv, NEW kind \in Kinds, NEW s \in Sizes, NEW f \in Rates, NEW l \in Levels \cup {UnsetLevel},
         Request(kind, s[1], s[2], f, l)
  PROVE  IInv'
<1> USE DEF IInv, fields, loopVars
<1>1. /\ owner' = owner /\ cause' = cause /\ resize' = resize /\ resizeAtStart' = resizeAtStart
      /\ width' = width /\ height' = height /\ fps' = fps /\ level' = level
      /\ loop' = loop /\ xvfb' = xvfb /\ encoder' = encoder /\ limiter' = limiter
      /\ http = "idle" /\ http' = "width" /\ answered' = Idle
      /\ owner \in {"serving", "join", "delete"}
  BY DEF Request, Found, Present
<1>2. s[1] \in Nat /\ s[2] \in Nat BY VideoAssumption
<1>3. /\ request'.w \in {s[1], width} /\ request'.h \in {s[2], height}
      /\ request'.kind = "dimensions" => request'.f = fps /\ request'.l = level
  <2>1. CASE kind = "dimensions" BY <2>1 DEF Request
  <2>2. CASE kind = "fps" BY <2>2 DEF Request
  <2>3. CASE kind = "density" BY <2>3 DEF Request
  <2> QED BY <2>1, <2>2, <2>3 DEF Kinds
<1>4. TypeInv' BY <1>1, <1>2, <1>3 DEF TypeInv
<1>5. Control' BY <1>1 DEF Control
<1>6. Flag' BY <1>1 DEF Flag
<1>7. Built' BY <1>1 DEF Built
<1>8. Fit' BY <1>1 DEF Fit, Size
<1>9. CatchUp' BY <1>1, <1>3 DEF CatchUp, Idle
<1>10. NoSizeAborts' BY <1>1 DEF NoSizeAborts
<1>11. Written' BY <1>1 DEF Written
<1>12. NonEmpty' BY <1>1 DEF NonEmpty
<1> QED BY <1>4, <1>5, <1>6, <1>7, <1>8, <1>9, <1>10, <1>11, <1>12

\* The writes of the fields, and the flag between them.
LEMMA WriteIInv ==
  ASSUME IInv, SetWidth \/ SetHeight \/ RaiseResize \/ SetFps \/ SetLevel
  PROVE  IInv'
<1> USE DEF IInv, fields, loopVars
<1>1. /\ owner' = owner /\ cause' = cause /\ resizeAtStart' = resizeAtStart /\ request' = request
      /\ loop' = loop /\ xvfb' = xvfb /\ encoder' = encoder /\ limiter' = limiter
      /\ answered' = answered /\ owner \in {"serving", "join", "delete"}
  BY DEF SetWidth, SetHeight, RaiseResize, SetFps, SetLevel, Present
<1>2. \/ /\ http = "width" /\ http' = "height" /\ resize' = resize
         /\ width' = request.w /\ height' = height /\ fps' = fps /\ level' = level
      \/ /\ http = "height" /\ http' = "resize" /\ resize' = resize
         /\ width' = width /\ height' = request.h /\ fps' = fps /\ level' = level
      \/ /\ http = "resize" /\ http' = "fps" /\ resize' = TRUE
         /\ width' = width /\ height' = height /\ fps' = fps /\ level' = level
      \/ /\ http = "fps" /\ http' = "level" /\ resize' = resize
         /\ width' = width /\ height' = height /\ fps' = request.f /\ level' = level
      \/ /\ http = "level" /\ http' = "wait" /\ resize' = resize
         /\ width' = width /\ height' = height /\ fps' = fps /\ level' = request.l
  BY DEF SetWidth, SetHeight, RaiseResize, SetFps, SetLevel
<1>3. TypeInv' BY <1>1, <1>2 DEF TypeInv
<1>4. Control' BY <1>1, <1>2 DEF Control
<1>5. Flag' BY <1>1, <1>2 DEF Flag
<1>6. Built' BY <1>1 DEF Built
<1>7. Fit' BY <1>1, <1>2 DEF Fit, Flag, Size
<1>8. CatchUp' BY <1>1, <1>2 DEF CatchUp, Idle, Full, Flag, Control
<1>9. NoSizeAborts' BY <1>1 DEF NoSizeAborts
<1>10. Written' BY <1>1, <1>2 DEF Written, Control
<1>11. NonEmpty' BY <1>1, <1>2 DEF NonEmpty
<1> QED BY <1>3, <1>4, <1>5, <1>6, <1>7, <1>8, <1>9, <1>10, <1>11

LEMMA AnswerIInv ==
  ASSUME IInv, ResizeDone \/ WaitRound \/ UseAfterFree
  PROVE  IInv'
<1> USE DEF IInv, fields, loopVars
<1>1. /\ owner' = owner /\ cause' = cause /\ resize' = resize /\ resizeAtStart' = resizeAtStart
      /\ width' = width /\ height' = height /\ fps' = fps /\ level' = level
      /\ loop' = loop /\ xvfb' = xvfb /\ encoder' = encoder /\ limiter' = limiter
  BY DEF ResizeDone, WaitRound, UseAfterFree
<1>2. \/ http = "wait" /\ ~resize /\ http' = "idle" /\ answered' = request
      \/ http' = http /\ request' = request /\ answered' = answered
      \/ /\ http \notin {"idle", "lost"} /\ owner = "freed" /\ http' \in {"idle", "lost"}
         /\ answered' = answered
  BY DEF ResizeDone, WaitRound, UseAfterFree
<1>3. TypeInv' BY <1>1, <1>2 DEF TypeInv
<1>4. Control'
  <2>1. owner = "new" => http = "idle" BY DEF Control
  <2>2. ResizeDone \/ WaitRound => owner # "new" BY DEF ResizeDone, WaitRound, Present
  <2> QED BY <1>1, <1>2, <2>1, <2>2 DEF Control
<1>5. Flag' BY <1>1, <1>2 DEF Flag, Control
<1>6. Built' BY <1>1 DEF Built
<1>7. Fit' BY <1>1, <1>2 DEF Fit, Size, Control
<1>8. CatchUp' BY <1>1, <1>2 DEF CatchUp, Full, Control
<1>9. NoSizeAborts' BY <1>1 DEF NoSizeAborts
<1>10. Written' BY <1>1, <1>2 DEF Written, Control
<1>11. NonEmpty' BY <1>1, <1>2 DEF NonEmpty, Control
<1> QED BY <1>3, <1>4, <1>5, <1>6, <1>7, <1>8, <1>9, <1>10, <1>11

-----------------------------------------------------------------------------

LEMMA StepIInv == IInv /\ [Next]_vars => IInv'
<1> SUFFICES ASSUME IInv, [Next]_vars PROVE IInv' OBVIOUS
<1>1. CASE Owner BY <1>1, InitializeIInv, OwnerIInv DEF Owner
<1>2. CASE MainLoop BY <1>2, LoopIInv, RebuildIInv, EncoderIInv, LowerIInv DEF MainLoop
<1>3. CASE Http BY <1>3, RequestIInv, WriteIInv, AnswerIInv DEF Http, Respond
<1>4. CASE UNCHANGED vars
  BY <1>4 DEF vars, loopVars, fields, callVars, IInv, TypeInv, Control, Flag, Written,
              NonEmpty, Built, Fit, CatchUp, Full, Size, NoSizeAborts
<1> QED BY <1>1, <1>2, <1>3, <1>4 DEF Next

\* Main_VIDEO_SERVER never encodes a frame with a capture and an encoder that
\* are missing or of different sizes, whenever requests and the end come.
THEOREM FramesFit == Spec => []FrameFitsEncoder
<1>1. IInv => FrameFitsEncoder BY DEF IInv, Built, Fit, FrameFitsEncoder
<1> QED BY InitIInv, StepIInv, <1>1, PTL DEF Spec

\* When Resize_VIDEO_SERVER returns true, capture and encoder have the size it
\* was called with, and after a Dimensions request encoder and limiter have the
\* rate and the level it was called with too.
THEOREM RequestsApply == Spec => []RequestApplied
<1>1. IInv => RequestApplied
  <2> SUFFICES ASSUME IInv, answered # Idle, Rebuilt PROVE RequestApplied
    BY DEF RequestApplied
  <2>1. http = "idle" /\ ~resize BY DEF IInv, Control, Flag, Rebuilt
  <2>2. xvfb = <<width, height>> /\ xvfb = Size(encoder) BY <2>1 DEF IInv, Fit, Rebuilt
  <2>3. answered.kind = "dimensions" => Full BY DEF IInv, CatchUp, Rebuilt
  <2> QED BY <2>2, <2>3 DEF IInv, Written, Full, RequestApplied
<1> QED BY InitIInv, StepIInv, <1>1, PTL DEF Spec

\* No requested size ends the process, whatever else fails and whichever way a
\* request meets the loop: RGB2YUV is never given an odd height, nor the scaler
\* an empty image.
THEOREM SizesAreSafe == Spec => []NoSizeAborts
<1>1. IInv => NoSizeAborts BY DEF IInv
<1> QED BY InitIInv, StepIInv, <1>1, PTL DEF Spec
=============================================================================
