\* The bounds stop every caller in the end.
CHECK_DEADLOCK FALSE
CONSTANTS
  c1 = c1
  c2 = c2
  Clients = {c1, c2}
  Servers = {s1}
  Threads = {c1, c2}
  Posters = {c1, c2}
  Names = {"hub", "edge"}
  IP_NOT_FOUND = "0.0.0.0"
  Literals = {"10.0.0.1"}
  ServerNames = {"hub", "10.0.0.1"}
  NamesOf <- MCNamesOf
  Descriptors = {3, 4, 5}
  PAYLOAD_SIZE = 2
  BUFFER_SIZE = 1
  MaxConnects = 2
  MaxLookups = 1
  MaxCalls = 2
SPECIFICATION Spec
INVARIANTS
  AnswersOverlappingLookup
  PostsOwnLine
  ConnectedIsUsable
  HoldsOwnSocket
