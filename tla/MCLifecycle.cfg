SPECIFICATION FairSpec
CONSTANTS
  Caller = {c1, c2}
  Plugin = {p1, p2}
  MaxCalls = 3
  MaxTasks = 3
CHECK_DEADLOCK FALSE
INVARIANTS
  RollbackComplete
  DrainedBeforeTeardown
PROPERTIES
  ShutdownReachesAll
  CallsReturn
