CONSTANTS
  Runs = {r1}
  Requests = {q1, q2}
  NoRun = NoRun
  Faults = {"write", "flush", "crash"}
  MaxAsked = 3
SPECIFICATION FairSpec
INVARIANTS
  NoStaleEntry
PROPERTIES
  RequestsReturn
CHECK_DEADLOCK FALSE
