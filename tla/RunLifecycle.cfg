CONSTANTS
  Runs = {r1, r2}
  Requests = {q1, q2}
  NoRun = NoRun
  Faults = {}
  MaxAsked = 2
SPECIFICATION Spec
SYMMETRY Symmetry
INVARIANTS
  TasksReachable
  
  BusyWhileRunning
CHECK_DEADLOCK FALSE
