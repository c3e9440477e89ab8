CONSTANTS
  Putters = {task, q1, q2}
  RunTask = task
  Consumers = {c1}
  MaxSize = 2
  MaxEvents = 6
  MaxData = 3
SPECIFICATION RunFairSpec
INVARIANTS
  DroppingNeverWaits
  NoLostWakeup
PROPERTIES
  RequestsReturnIfRead
  ImplementsChannel
CHECK_DEADLOCK FALSE
