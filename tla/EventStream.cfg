CONSTANTS
  Clients = {c1, c2}
  BatchSize = 2
  MaxSeq = 2
  MaxSignals = 1
  MaxConnects = 2
  MaxEvents = 2
  Foci = {"stream", "conversion"}
SPECIFICATION MCSpec
INVARIANTS
  LiveInOrder
  StoredOrExcused
  NothingSkipped
  
PROPERTIES
  StreamsReleased
CHECK_DEADLOCK FALSE
