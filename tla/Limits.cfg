CONSTANTS
  Foci = {"flags", "rules", "fixed", "sliding", "memory", "breaker", "browser"}
  Callers = {"u1", "u2"}
  Bucket <- MCBucket
  Percentages = {50, 100}
  Changers = {c1, c2}
  FlagChanges = 3
  Missing = Missing
  Rules = {"all", "one"}
  Endpoints = {"a", "b"}
  Covers <- MCCovers
  Priorities = {1, 2}
  RuleChanges = 2
  NoRule = NoRule
  Clients = {c1, c2}
  Limit = 2
  Span = 2
  Ticks = 3
  Requesters = {c1, c2}
  Threshold = 2
  Probes = 1
  Attempts = 2
  Outages = 3
  ChatThreads = {t1, t2}
  Tools = {c1, c2}
  Uses = 3
  MaxContainers = 1
  Nobody = Nobody
SPECIFICATION Spec
INVARIANTS
  WithinWindow
PROPERTIES
  CachesSettle
  Readmitted
  Recovers
  SessionsEnd
CHECK_DEADLOCK FALSE
