SPECIFICATION FairSpec
CONSTANTS
  MAX_LENGTH = 2
  MaxBytes = 4
  HeapInts <- MCHeapInts
INVARIANTS OneWriter QueueHoldsStream HandlersHoldSession EchoExact
PROPERTIES ImplementsSessionLife MessageReleased
CHECK_DEADLOCK FALSE
