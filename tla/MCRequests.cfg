\* Two calls, two nodes, a shared store with a TTL, one fault.
CONSTANTS
  c1 = c1
  c2 = c2
  n1 = n1
  n2 = n2
  Caller = {c1, c2}
  Node = {n1, n2}
  Store = "valkey"
  Ttl = TRUE
  Approver <- MCApprover
  MaxIds = 2
  MaxFaults = 1
  Scenarios <- MCScenarios
SPECIFICATION Spec
CHECK_DEADLOCK FALSE
INVARIANTS
  ApprovalsCount
  CarriedFaithfully
PROPERTIES
  CallsEnd
