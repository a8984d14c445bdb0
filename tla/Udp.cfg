\* A use of an uninitialised pointer is terminal; it may also be that every
\* packet has leaked and all bounds are reached.
CHECK_DEADLOCK FALSE
CONSTANTS
  Sides = {"server", "client"}
  Ids <- MCIds
  MAX_UDP_CONNECTIONS = 2
  POOL_QUEUE_SIZE = 2
  RECV_ATTEMPTS = 1
  MaxStarts = 2
  MaxArrivals = 2
SPECIFICATION FairSpec
INVARIANTS
  QueuedInOrder
  DeleteDrains
PROPERTIES
  ImplementsPool
  CallsReturn
