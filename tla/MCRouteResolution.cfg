SPECIFICATION Spec
CONSTANTS
  Configs <- MCConfigs
  Requests <- MCRequests
INVARIANTS
  MostSpecificWins
  LayersStack
