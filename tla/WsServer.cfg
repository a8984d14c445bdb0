\* A crash and a deleted server are terminal states.
CHECK_DEADLOCK FALSE
CONSTANTS
  Services = 3
  Senders <- MCSenders
  Clients = {c1, c2}
  WEB_SOCKET_POOL_SIZE = 2
  WEB_SOCKET_TIME_OUT = 1
  WS_CONNECT_TIMEOUT = 1
  MAX_HOSTS = 2
  MaxFrames = 2
SPECIFICATION FairSpec
INVARIANTS
  SeenElementStays
  AcceptedAreQueuedInOrder
PROPERTIES
  ImplementsPool
  AcceptedIsWritten
