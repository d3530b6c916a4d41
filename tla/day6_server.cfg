SPECIFICATION FairSpec
CONSTANTS
  Sessions = {s1, s2, s3}
  Clients = {c1, c2, c3}
  MaxSockets = 2
  Backlog = 1
INVARIANTS
  PointersOwned
PROPERTIES
  SessionsTakeTurns
  SocketFreed
  EndsWhenUseless
CHECK_DEADLOCK FALSE
