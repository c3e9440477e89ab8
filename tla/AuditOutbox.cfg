CONSTANTS
  Requests = {1, 2, 3}
  Impatient = {3}
  Bad = {1}
  Late = {3}
  Movers = {m1}
  MaxRetry = 2
  BatchSize = 2
  CacheSize = 1
  MaxFaults = 2
SPECIFICATION FairSpec
INVARIANTS
  MovedOnce
  GivenUpAfterRetries
  
PROPERTIES
  Drained
CHECK_DEADLOCK FALSE
