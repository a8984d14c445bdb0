\* A use of an uninitialised pointer is terminal; it may also be that every
\* packet has leaked and all bounds are reached.
CHECK_DEADLOCK FALSE
CONSTANTS
  Sides = {"server"}
  Ids <- OneId
  MAX_UDP_CONNECTIONS = 1
  POOL_QUEUE_SIZE = 2
  RECV_ATTEMPTS = 1
  MaxStarts = 1
  MaxArrivals = 2
SPECIFICATION Spec
INVARIANT
  PoolNeverEmpty
