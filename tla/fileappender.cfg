SPECIFICATION Spec
CONSTANTS
  Percent = percent
  Known = {m}
  Unknown = {z}
  Others = {x}
  Error = error
  Threads = {t1, t2}
  Patterns <- MCPatterns
  Interval = 2
  MaxTime = 4
  MaxCalls = 2
SYMMETRY Symmetry
INVARIANTS FreshFile Heals LinesWhole
CHECK_DEADLOCK FALSE
