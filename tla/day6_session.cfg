SPECIFICATION FairSpec
CONSTANTS
  max_length = 3
  MaxBytes = 7
PROPERTIES
  ImplementsEcho
  ImplementsTurns
  AllAnswered
CHECK_DEADLOCK FALSE
