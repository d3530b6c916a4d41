SPECIFICATION FairSpec
CONSTANTS
  Sessions = {s1, s2, s3}
  Clients = {c1, c2, c3}
  MaxSockets = 1
  Backlog = 2
  MaxUnsent = 2
INVARIANTS
  AcceptsOne
  OneSessionEach
  HandlersOnce
PROPERTIES
  SessionsLive
  ClientAccepted
  SocketFreed
CHECK_DEADLOCK FALSE
