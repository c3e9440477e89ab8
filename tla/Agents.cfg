CONSTANTS
  ToolNames = {"search", "calculator"}
  MaxCalls = 2
  MaxMessages = 4
  WORKER_MAX_TURNS = 2
  SessionTurns = 2
  MaxTodos = 2
  MaxPlans = 2
  MaxTurns = 3
  Keywords = 3
  Splits = {3, 4}
  Requests = 2
  SubCalls = {c1, c2}
  MaxRounds = 3
SPECIFICATION Spec
INVARIANTS
  PlannerSeesPairs
  WorkedThrough
  
PROPERTIES
  
  TurnsEnd
CHECK_DEADLOCK FALSE
