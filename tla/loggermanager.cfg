SPECIFICATION FairSpec
CONSTANTS
  t1 = t1
  t2 = t2
  t3 = t3
  root = root
  a = a
  b = b
  Threads <- MCThreeThreads
  Names <- MCNames
  RootName = root
  MaxCalls = 1
INVARIANTS NoMapRace ReopenReaches
PROPERTIES ImplementsRegistry CallsReturn
CHECK_DEADLOCK FALSE
