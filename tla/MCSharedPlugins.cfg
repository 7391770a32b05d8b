SPECIFICATION MCSpec
CONSTANTS
  Request = {r1, r2}
  Plugin <- MCPlugin
  Confs <- MCConfs
  EntrySets <- MCEntrySets
  Results <- MCResults
  ShortCircuit = FALSE
  MaxHooks = 2
  Resolvers <- MCResolvers
  Requests <- MCRequests
  Jwks <- MCJwks
  MaxRotations = 1
  MaxInits = 2
CHECK_DEADLOCK FALSE
INVARIANTS
  CarriedOver
  TokensVerified
PROPERTIES
  RefreshSettles
