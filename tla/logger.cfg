CONSTANTS
  t1 = t1
  t2 = t2
  root = root
  system = system
  stdout = stdout
  file = file
  f1 = f1
  f2 = f2
  Threads <- MCThreads
  Loggers <- MCLoggers
  Root = root
  Appenders <- MCAppenders
  Stdout = stdout
  Files = {file}
  Formatters <- MCFormatters
  Default = f1
  Levels <- MCLevels
  level_ <- MCLevel
  MaxCalls <- MCMaxCalls
SPECIFICATION FairSpec
INVARIANTS
  NullOnlyGiven
  EventReaches
  SomeoneGoes
PROPERTIES
  IterationStable
  FormattersRight
  CallsReturn
CHECK_DEADLOCK FALSE
