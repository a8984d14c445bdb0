\* The owner's Delete may block on the mutex a failed encoder left locked, and
\* a deleted server stops.
CHECK_DEADLOCK FALSE
CONSTANTS
  Sizes <- SomeSizes
  Rates <- SomeRates
  Levels <- TwoLevels
  UnsetLevel = "unset"
  VIDEO_FPS = 60
  ENCODE_LEVEL_MEDIUM = "medium"
  Faults <- AllFaults
  MAX_LOOPS_RESIZE = 1
  MaxRequests = 3
SPECIFICATION FairSpec
INVARIANTS
  FrameFitsEncoder
  RequestApplied
  NoSizeAborts
PROPERTIES
  ResizeAnswered
  DeleteReturns
