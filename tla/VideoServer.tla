----------------------------- MODULE VideoServer -----------------------------
(***************************************************************************)
(* VIDEO_SERVER: how a resize requested by the HTTP thread reaches the     *)
(* thread that captures and encodes the screen, and how the owner (the     *)
(* session thread) takes both down.  Three threads share the object        *)
(* without a lock:                                                         *)
(*   owner - VIDEO_SERVER::Initialize, then Delete;                        *)
(*   loop  - Main_VIDEO_SERVER: encodes frames, or rebuilds the capture,   *)
(*           the encoder and the FPS limiter when it sees `resize';        *)
(*   http  - Resize_VIDEO_SERVER, called by Dimensions, FPS and Density:   *)
(*           writes width, height, resize, fps and encode_level in that    *)
(*           order, then waits for the loop to lower resize.               *)
(* The process ends when one of them divides by zero, reads an image that  *)
(* is not there or uses a value nobody set: `cause' says which.            *)
(***************************************************************************)
EXTENDS Naturals, FiniteSetsExt

CONSTANTS
  Sizes, Rates, Levels,  \* <<width, height>>, fps values, encode levels
  UnsetLevel,            \* what Density passes for a density it does not know
  VIDEO_FPS, ENCODE_LEVEL_MEDIUM, \* what a new server starts with
  Faults,                \* what may fail: a subset of {"xvfb", "shm", "x264"}
  MAX_LOOPS_RESIZE,      \* rounds Resize_VIDEO_SERVER is written to wait
  MaxRequests            \* bound on the number of resize requests

ASSUME VideoAssumption ==
  /\ Sizes \subseteq Nat \X Nat
  /\ Rates \subseteq Nat /\ VIDEO_FPS \in Rates
  /\ ENCODE_LEVEL_MEDIUM \in Levels /\ UnsetLevel # ENCODE_LEVEL_MEDIUM
  /\ Faults \subseteq {"xvfb", "shm", "x264"}
  /\ MAX_LOOPS_RESIZE \in Nat
  /\ MaxRequests \in Nat

VARIABLES
  owner, loop, http,           \* where each thread is
  running, resize,             \* main_loop_running and resize, both volatile
  width, height, fps, level,   \* the fields a resize request writes
  cause,                       \* what has ended the process, or "none"
  xvfb, encoder, limiter,      \* what capture, encoder and limiter run with
  mapped,                      \* the image of the capture has its shared memory
  mtx,                         \* the encoder's mutex was left locked
  request,                     \* the arguments of the Resize call in progress
  rounds,                      \* how often it has slept in its wait loop
  requests,                    \* how many requests were made
  answered,                    \* the last request, once it returned true
  resizeAtStart                \* what `resize' happened to hold after `new'

ownerVars == <<owner, cause>>
capture   == <<xvfb, mapped>>
loopVars  == <<loop, capture, encoder, limiter, mtx>>
fields    == <<width, height, fps, level>>
callVars  == <<http, request, rounds, requests, answered>>
vars == <<ownerVars, running, resize, resizeAtStart, fields, loopVars, callVars>>

None    == <<>>         \* no image, no encoder
Garbage == <<"garbage">> \* fields nobody initialised
Idle    == [kind |-> "none"]

Kinds == {"dimensions", "fps", "density"}

Init ==
  /\ owner = "new" /\ cause = "none" /\ loop = "none" /\ http = "idle"
  /\ running = FALSE
  /\ resizeAtStart \in BOOLEAN   \* the constructor and Initialize leave it unset
  /\ resize = resizeAtStart
  /\ \E s \in Sizes : width = s[1] /\ height = s[2]   \* what Launch put in the context
  /\ fps = VIDEO_FPS /\ level = ENCODE_LEVEL_MEDIUM
  /\ xvfb = None /\ mapped = FALSE /\ encoder = Garbage /\ limiter = fps /\ mtx = FALSE
  /\ request = Idle /\ rounds = 0 /\ requests = 0 /\ answered = Idle

-----------------------------------------------------------------------------
(* The parts *)

\* The process ends.
Dies(c) == owner' = "aborted" /\ cause' = c

\* Whether the image of a new capture can have its shared memory: the results
\* of XShmCreateImage, shmget and shmat are not tested, and shmget refuses 0
\* bytes.  Without it the data of the image is (char*) -1.
Mappings(size) ==
  {m \in BOOLEAN : IF m THEN size[1] > 0 /\ size[2] > 0
                        ELSE size[1] = 0 \/ size[2] = 0 \/ "shm" \in Faults}

\* x264 takes only even sizes for 4:2:0 and none that is empty.  It may fail
\* all the same, and with parameters that nobody set.
X264Opens(w, h) == w > 0 /\ h > 0 /\ w % 2 = 0 /\ h % 2 = 0
X264MayFail(w, h) == "x264" \in Faults \/ ~X264Opens(w, h) \/ level = UnsetLevel

\* The most threads, up to 8, that give RGB2YUV slices of one even height.  Its
\* search counts down, and divides by zero when there is no such number.
SliceThreads(h) == Max({0} \cup {t \in 1..8 : h % t = 0 /\ (h \div t) % 2 = 0})

-----------------------------------------------------------------------------
(* The owner *)

\* VIDEO_SERVER::Initialize, up to the start of the main loop.
Initialize ==
  /\ owner = "new"
  /\ X264Opens(width, height)
  /\ xvfb' = <<width, height>> /\ mapped' \in Mappings(<<width, height>>)
  /\ IF SliceThreads(height) = 0 THEN Dies("slices") /\ UNCHANGED <<encoder, running, loop>>
     ELSE /\ encoder' = <<width, height, fps, level>>
          /\ running' = TRUE
          /\ loop' = "while"
          /\ owner' = "serving" /\ UNCHANGED cause
  /\ UNCHANGED <<resize, resizeAtStart, fields, limiter, mtx, callVars>>

\* No main loop was started; the registry calls Delete all the same.  A failed
\* capture leaves the encoder's fields unset, a failed encoder its mutex locked.
InitializeFails ==
  /\ owner = "new"
  /\ \/ "xvfb" \in Faults /\ UNCHANGED <<capture, encoder, mtx>>
     \/ /\ X264MayFail(width, height)
        /\ xvfb' = <<width, height>> /\ mapped' \in Mappings(<<width, height>>)
        /\ encoder' = None /\ mtx' = TRUE
  /\ owner' = "join"
  /\ UNCHANGED <<cause, running, resize, resizeAtStart, fields, loop, limiter, callVars>>

\* Init_XVFB_Handler reads the size of an image that could not be created.
InitializeDies ==
  /\ owner = "new"
  /\ "shm" \in Faults
  /\ Dies("image")
  /\ UNCHANGED <<running, resize, resizeAtStart, fields, loopVars, callVars>>

\* Mutant: main_loop_running is not lowered before the join.
StopLoop_KeepsRunning ==
  /\ owner = "serving"
  /\ owner' = "join"
  /\ UNCHANGED <<cause, running, resize, resizeAtStart, fields, loopVars, callVars>>

\* VIDEO_SERVER::Delete: stop and join the main loop...
StopLoop ==
  /\ owner = "serving"
  /\ running' = FALSE
  /\ owner' = "join"
  /\ UNCHANGED <<cause, resize, resizeAtStart, fields, loopVars, callVars>>

JoinLoop ==
  /\ owner = "join"
  /\ loop \in {"none", "ended"}
  /\ owner' = "delete"
  /\ UNCHANGED <<cause, running, resize, resizeAtStart, fields, loopVars, callVars>>

\* ... then delete what it used; Delete_X264_ENCODER takes the mutex first.
\* Deleting fields that were never set is undefined: it may abort the process.
\* The registry frees the object next.
DeleteParts ==
  /\ owner = "delete"
  /\ ~mtx
  /\ \/ owner' = "freed" /\ xvfb' = None /\ encoder' = None /\ UNCHANGED cause
     \/ encoder = Garbage /\ Dies("fields") /\ UNCHANGED <<xvfb, encoder>>
  /\ UNCHANGED <<running, resize, resizeAtStart, fields, loop, mapped, limiter, mtx, callVars>>

Owner == Initialize \/ InitializeFails \/ InitializeDies \/ StopLoop \/ JoinLoop \/ DeleteParts

-----------------------------------------------------------------------------
(* The main loop *)

LoopWhile ==
  /\ loop = "while"
  /\ loop' = IF running THEN "if" ELSE "ended"
  /\ UNCHANGED <<ownerVars, running, resize, resizeAtStart, fields, capture, encoder, limiter, mtx, callVars>>

LoopIf ==
  /\ loop = "if"
  /\ loop' = IF resize THEN "delete" ELSE "frame"
  /\ UNCHANGED <<ownerVars, running, resize, resizeAtStart, fields, capture, encoder, limiter, mtx, callVars>>

\* Capture, encode, send, and sleep out the frame time, which is divided by the
\* rate.  After an X error, of whichever part of the process, the image is
\* recreated with its own dimensions before it is used.
Frame ==
  /\ loop = "frame"
  /\ \/ UNCHANGED mapped
     \/ mapped' \in Mappings(xvfb)
  /\ CASE ~mapped' -> Dies(IF 0 \in {xvfb[1], xvfb[2]} THEN "empty" ELSE "image") /\ loop' = "ended"
       [] mapped' /\ limiter = 0 -> Dies("rate") /\ loop' = "ended"
       [] OTHER -> loop' = "while" /\ UNCHANGED ownerVars
  /\ UNCHANGED <<running, resize, resizeAtStart, fields, xvfb, encoder, limiter, mtx, callVars>>

DeleteOld ==
  /\ loop = "delete"
  /\ ~mtx
  /\ xvfb' = None
  /\ encoder' = None
  /\ loop' = "limiter"
  /\ UNCHANGED <<ownerVars, running, resize, resizeAtStart, fields, mapped, limiter, mtx, callVars>>

\* Mutant: the limiter keeps its old rate.
NewLimiter_Stale ==
  /\ loop = "limiter"
  /\ loop' = "xvfb"
  /\ UNCHANGED <<ownerVars, running, resize, resizeAtStart, fields, limiter, capture, encoder, mtx, callVars>>

NewLimiter ==
  /\ loop = "limiter"
  /\ limiter' = fps
  /\ loop' = "xvfb"
  /\ UNCHANGED <<ownerVars, running, resize, resizeAtStart, fields, capture, encoder, mtx, callVars>>

\* A failure that is noticed ends the thread, with resize still raised; an
\* image that could not be created ends the process.
NewXvfb ==
  /\ loop = "xvfb"
  /\ \/ /\ xvfb' = <<width, height>> /\ mapped' \in Mappings(<<width, height>>)
        /\ loop' = "x264" /\ UNCHANGED ownerVars
     \/ "xvfb" \in Faults /\ loop' = "ended" /\ UNCHANGED <<capture, ownerVars>>
     \/ "shm" \in Faults /\ loop' = "ended" /\ Dies("image") /\ UNCHANGED capture
  /\ UNCHANGED <<running, resize, resizeAtStart, fields, encoder, limiter, mtx, callVars>>

\* Mutant: the converter comes before the encoder.
NewEncoder_ConverterFirst ==
  /\ loop = "x264"
  /\ IF SliceThreads(height) = 0
       THEN Dies("slices") /\ loop' = "ended" /\ UNCHANGED <<encoder, mtx>>
       ELSE /\ X264Opens(width, height)
            /\ encoder' = <<width, height, fps, level>> /\ loop' = "lower"
            /\ UNCHANGED <<mtx, ownerVars>>
  /\ UNCHANGED <<running, resize, resizeAtStart, fields, capture, limiter, callVars>>

\* Initialize_X264_ENCODER looks the preset up, opens x264, and then RGB2YUV if
\* that succeeded.  A preset that nobody set is an index out of its array.
NewEncoder ==
  /\ loop = "x264"
  /\ \/ /\ X264Opens(width, height)
        /\ IF SliceThreads(height) = 0 THEN Dies("slices") /\ loop' = "ended" /\ UNCHANGED encoder
           ELSE encoder' = <<width, height, fps, level>> /\ loop' = "lower" /\ UNCHANGED ownerVars
        /\ UNCHANGED mtx
     \/ /\ X264MayFail(width, height)
        /\ mtx' = TRUE
        /\ loop' = "ended"
        /\ UNCHANGED <<encoder, ownerVars>>
     \/ level = UnsetLevel /\ Dies("level") /\ loop' = "ended" /\ UNCHANGED <<encoder, mtx>>
  /\ UNCHANGED <<running, resize, resizeAtStart, fields, capture, limiter, callVars>>

\* Mutant: the flag is not lowered.
LowerResize_Forgets ==
  /\ loop = "lower"
  /\ loop' = "while"
  /\ UNCHANGED <<ownerVars, running, resize, resizeAtStart, fields, capture, encoder, limiter, mtx, callVars>>

LowerResize ==
  /\ loop = "lower"
  /\ resize' = FALSE
  /\ loop' = "while"
  /\ UNCHANGED <<ownerVars, running, resizeAtStart, fields, capture, encoder, limiter, mtx, callVars>>

MainLoop == LoopWhile \/ LoopIf \/ Frame \/ DeleteOld \/ NewLimiter \/ NewXvfb
              \/ NewEncoder \/ LowerResize

-----------------------------------------------------------------------------
(* The HTTP thread *)

Present == owner \in {"serving", "join", "delete"}

\* A server whose Initialize failed was never counted: no lookup finds it.
Found == Present /\ loop # "none"

\* Dimensions, FPS or Density calls Resize_VIDEO_SERVER; what the request does
\* not change is passed as the field holds it.  A density that is no value of
\* the enumeration leaves the level it passes unset.
Request(kind, w, h, f, l) ==
  /\ http = "idle"
  /\ Found
  /\ requests < MaxRequests
  /\ request' = CASE kind = "dimensions" -> [kind |-> kind, w |-> w, h |-> h, f |-> fps, l |-> level]
                  [] kind = "fps"        -> [kind |-> kind, w |-> width, h |-> height, f |-> f, l |-> level]
                  [] kind = "density"    -> [kind |-> kind, w |-> width, h |-> height, f |-> fps, l |-> l]
  /\ requests' = requests + 1
  /\ rounds' = 0
  /\ answered' = Idle
  /\ http' = "width"
  /\ UNCHANGED <<ownerVars, running, resize, resizeAtStart, fields, loopVars>>

\* Mutant: the flag goes up with the first field.
SetWidth_RaisesFirst ==
  /\ http = "width" /\ Present
  /\ width' = request.w
  /\ resize' = TRUE
  /\ http' = "height"
  /\ UNCHANGED <<ownerVars, running, resizeAtStart, height, fps, level, loopVars,
                 request, rounds, requests, answered>>

SetWidth ==
  /\ http = "width" /\ Present
  /\ width' = request.w
  /\ http' = "height"
  /\ UNCHANGED <<ownerVars, running, resize, resizeAtStart, height, fps, level, loopVars,
                 request, rounds, requests, answered>>

SetHeight ==
  /\ http = "height" /\ Present
  /\ height' = request.h
  /\ http' = "resize"
  /\ UNCHANGED <<ownerVars, running, resize, resizeAtStart, width, fps, level, loopVars,
                 request, rounds, requests, answered>>

RaiseResize ==
  /\ http = "resize" /\ Present
  /\ resize' = TRUE
  /\ http' = "fps"
  /\ UNCHANGED <<ownerVars, running, resizeAtStart, fields, loopVars,
                 request, rounds, requests, answered>>

SetFps ==
  /\ http = "fps" /\ Present
  /\ fps' = request.f
  /\ http' = "level"
  /\ UNCHANGED <<ownerVars, running, resize, resizeAtStart, width, height, level, loopVars,
                 request, rounds, requests, answered>>

SetLevel ==
  /\ http = "level" /\ Present
  /\ level' = request.l
  /\ http' = "wait"
  /\ UNCHANGED <<ownerVars, running, resize, resizeAtStart, width, height, fps, loopVars,
                 request, rounds, requests, answered>>

ResizeDone ==
  /\ http = "wait" /\ Present
  /\ ~resize
  /\ answered' = request
  /\ request' = Idle
  /\ http' = "idle"
  /\ UNCHANGED <<ownerVars, running, resize, resizeAtStart, fields, loopVars, rounds, requests>>

\* Another Sleep_Milli(100): the counter of the loop is never incremented.
\* (The count is capped here, one above the bound it is compared with.)
WaitRound ==
  /\ http = "wait" /\ Present
  /\ resize
  /\ rounds' = IF rounds <= MAX_LOOPS_RESIZE THEN rounds + 1 ELSE rounds
  /\ UNCHANGED <<ownerVars, running, resize, resizeAtStart, fields, loopVars, http, request, requests, answered>>

\* The object was freed under the call: whatever the memory holds now.
UseAfterFree ==
  /\ http \notin {"idle", "lost"}
  /\ owner = "freed"
  /\ http' \in {"idle", "lost"}
  /\ request' = Idle
  /\ UNCHANGED <<ownerVars, running, resize, resizeAtStart, fields, loopVars, rounds, requests, answered>>

Respond == SetWidth \/ SetHeight \/ RaiseResize \/ SetFps \/ SetLevel \/ ResizeDone
             \/ WaitRound \/ UseAfterFree

Http == Respond \/ \E kind \in Kinds, size \in Sizes, f \in Rates,
                      l \in Levels \cup {UnsetLevel} :
                      Request(kind, size[1], size[2], f, l)

Next == Owner \/ MainLoop \/ Http

\* Threads are scheduled; when a session ends and what is requested is open.
Fairness == WF_vars(MainLoop) /\ WF_vars(Respond) /\ WF_vars(JoinLoop) /\ WF_vars(DeleteParts)

Spec == Init /\ [][Next]_vars
FairSpec == Spec /\ Fairness

-----------------------------------------------------------------------------
(* Properties *)

Size(e) == <<e[1], e[2]>>

\* A frame is only captured and encoded with both ends present and of one
\* size: Encode_Frame reads as many rows of the image as the encoder has, so a
\* larger encoder would read past the capture.  It rests on width and height
\* being written before the flag and never while the loop rebuilds, and on the
\* join before the owner deletes.  (If `resize' happens to start TRUE the loop
\* rebuilds unasked and a request can tear it.)
FrameFitsEncoder ==
  loop = "frame" =>
    /\ xvfb # None
    /\ encoder \notin {None, Garbage}
    /\ ~resizeAtStart => xvfb = Size(encoder)

Rebuilt == ~resizeAtStart /\ loop \in {"while", "if", "frame"}

\* Resize returned true: capture and encoder have the size it was called with.
\* The same is false of the fps and the level of an FPS or Density request,
\* which are written after the flag: the loop may have rebuilt with the old
\* ones.  But a Dimensions request passes these two as they are, so when it
\* returns true whatever an earlier FPS or Density request has lost is caught
\* up: encoder and limiter are all that it was called with.
RequestApplied ==
  answered # Idle /\ Rebuilt =>
    /\ xvfb = <<answered.w, answered.h>> /\ Size(encoder) = xvfb
    /\ answered.kind = "dimensions" =>
         encoder = <<answered.w, answered.h, answered.f, answered.l>> /\ limiter = answered.f

\* No size, whichever is asked for, takes the process down.  Two parts would
\* fall over one: RGB2YUV looks for a number of threads until it divides by
\* zero when the height is odd, and the scaler would read an image of no bytes,
\* whose memory cannot be had.  What keeps both from it is that x264, which
\* refuses such a size, is opened before the one and ahead of the first frame.
\* (A rate of zero, a level nobody set, memory that is not to be had and the
\* deletion of an encoder Initialize never got to do take it down.)
NoSizeAborts == cause \notin {"slices", "empty"}

\* A resize in progress is answered, unless the loop has ended (after a fault)
\* or the session is being torn down: then it waits for good.
ResizeAnswered ==
  http = "wait" ~> http # "wait" \/ owner # "serving" \/ loop = "ended"

\* Delete comes back, unless a failed encoder left its mutex locked: then the
\* session thread stays in it, and `connected' is never lowered.
DeleteReturns ==
  owner = "join" ~> owner \in {"freed", "aborted"} \/ mtx

\* VIDEO_SERVER.h bounds the wait of a resize to MAX_LOOPS_RESIZE rounds, so
\* that it ends when no answer can come: the main loop is over after a rebuild
\* that failed, and the session goes on.
WaitIsBounded == loop = "ended" /\ owner = "serving" => rounds <= MAX_LOOPS_RESIZE
=============================================================================
