SPECIFICATION FairSpec
CONSTANTS
  N = 3
  Value = {"Allow", "Deny"}
  DenyValue = {"Deny"}
CHECK_DEADLOCK FALSE
INVARIANTS
  ReturnedAsPromised
PROPERTIES
  ImplementsBranchGroup
  GroupEnds
