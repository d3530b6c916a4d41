SPECIFICATION ThreadFairSpec
CONSTANTS
  Objects = {t1, t2}
INVARIANTS HandOver HandleOnce
PROPERTIES ConstructorReturns
CHECK_DEADLOCK FALSE
