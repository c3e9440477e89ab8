CONSTANTS
  Requests = {1, 2}
  Impatient = {}
  Bad = {}
  Late = {2}
  Movers = {m1, m2}
  MaxRetry = 3
  BatchSize = 2
  CacheSize = 2
  MaxFaults = 0
SPECIFICATION Spec
INVARIANT LoopContinues
CHECK_DEADLOCK FALSE
