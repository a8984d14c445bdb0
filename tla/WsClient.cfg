\* A socket that closes before it opens leaves every client in Initialize, and an
\* index beyond the array is terminal.
SPECIFICATION Spec
CONSTANTS
    Clients = {1, 2, 3}
    MAX_HOSTS = 2
    MAX_ACCUMULATED_FRAMES = 2
    WEB_SOCKET_POOL_SIZE = 4
    WEB_SOCKET_TIME_OUT = 2
    MaxSent <- MCMaxSent
INVARIANTS
    ShortageNeedsThread
    SeenIsPopped
    ReceivedInOrder
CHECK_DEADLOCK FALSE
