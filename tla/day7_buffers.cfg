SPECIFICATION Spec
CONSTANTS
  MAX_LENGTH = 2
  MaxBytes = 4
  HeapInts <- MCHeapInts
INVARIANT WriteBuffersValid
CHECK_DEADLOCK FALSE
