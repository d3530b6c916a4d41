SPECIFICATION Day4FairSpec
CONSTANTS
  c1 = c1
  c2 = c2
  c3 = c3
  c4 = c4
  Clients <- MCClients
  BufferSize = 2
  MaxSockets = 2
  MaxThreads = 3
  MaxSent <- MCMaxSent
INVARIANTS EndsOnlyFull
PROPERTIES
  EachImplementsEcho
  ClientsAnswered
CHECK_DEADLOCK FALSE
