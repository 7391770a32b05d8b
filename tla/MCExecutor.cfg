SPECIFICATION FairSpec
CONSTANTS
  Request = {r1}
  Plugin <- MCPlugin
  Confs <- MCConfs
  EntrySets <- MCEntrySets
  Results <- MCResults
  ShortCircuit = TRUE
  MaxHooks = 1
CHECK_DEADLOCK FALSE
INVARIANTS
  VerdictJustified
  FailuresAccounted
  PayloadHandedOn
PROPERTIES
  InvocationEnds
