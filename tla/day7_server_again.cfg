SPECIFICATION Spec
CONSTANTS
  Sessions = {s1, s2, s3}
  Clients = {c1, c2}
  MaxSockets = 1
  Backlog = 1
  MaxUnsent = 2
INVARIANTS
  ListensAgain
CHECK_DEADLOCK FALSE
