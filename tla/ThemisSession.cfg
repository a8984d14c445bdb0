\* A dangling lookup may take the HTTP thread down and an undeletable service
\* may block the session thread: the system can really stop.
CHECK_DEADLOCK FALSE
CONSTANTS
  N = 4
  Senders <- MCSenders
  Video = 3
  Failing <- AnyFails
  Undeletable <- LateServices
  Threshold = 2
  MaxLaunches = 4
SPECIFICATION FairSpec
INVARIANTS
  TypeOK
  SingleSession
  SenderHasTransport
  CleanBetweenSessions
  LookupFindsWholeServices
  ContextIsSteady
PROPERTIES
  ImplementsLease
  SilentSessionEnds
  LaunchGetsThrough
