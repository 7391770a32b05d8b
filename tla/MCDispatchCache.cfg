SPECIFICATION MCSpec
CONSTANTS
  Mutator = {m1, m2}
  Plugin = {"p", "q"}
  Configs <- MCConfigs
  Declared <- MCDeclared
  AnnotationKey = {}
  MaxMutations = 2
  Builder = {b1, b2}
  Route = {"r"}
  Handler = {"old", "new"}
  KeyOf <- MCKeyOf
  Names <- MCNames
  Fallible <- MCFallible
  Client = {c1, c2}
  Resolver <- MCResolver
  Documents <- MCDocuments
  Ask <- MCAsk
  None = None
VIEW Relevant
SYMMETRY Symmetry
INVARIANTS
  PlansFresh
  DecisionsSound
