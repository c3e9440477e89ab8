CONSTANTS
  Crons = {c1}
  Finite = {}
  Threads = {t1}
  Processes = {p1, p2}
  Never = Never
  Runs = {1, 2, 3}
  MaxClock = 1
  MaxFaults = 2
SPECIFICATION FairSpec
INVARIANTS
  RunsSettle
PROPERTIES
  NoneSkipped
  
CHECK_DEADLOCK FALSE
