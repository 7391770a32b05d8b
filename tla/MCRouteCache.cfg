SPECIFICATION Spec
CONSTANTS
  Mutator = {m1}
  Plugin = {1, 2}
  Configs <- MCConfigs
  Declared <- MCDeclared
  AnnotationKey <- MCAnnotationKey
  MaxMutations = 2
  Invoker = {i1, i2}
  Request <- MCRequest
SYMMETRY Symmetry
INVARIANTS
  ChainOfRecord
  CacheSound
