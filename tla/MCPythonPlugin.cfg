SPECIFICATION MCSpec
CONSTANTS
  Caller = {c1, c2}
  MaxWorkers = 2
  MaxCalls = 2
  MaxRespawnAttempts = 1
  Handshake = TRUE
  Plugin = {p1, p2}
  Declared <- MCDeclared
  MaxEdits = 1
  MaxFaults = 1
CHECK_DEADLOCK FALSE
INVARIANTS
  ResponsesMatched
  WorkerReplaced
  VenvKept
  ReadyIsInstalled
PROPERTIES
  InvocationsReturn
