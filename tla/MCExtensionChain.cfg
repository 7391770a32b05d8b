SPECIFICATION MCSpec
CONSTANTS
  Label = {"l1"}
  Header = {"h1", "auth"}
  Sensitive = {"auth"}
  Auth = {"a1", "a2"}
  Details = {"d1"}
  Token = {"t1"}
  MaxHops = 2
  CapSets <- MCCapSets
  Routes <- MCRoutes
  Callers <- MCCallers
  Replies <- MCReplies
VIEW WithoutBy
INVARIANTS
  ViewsHarmless
  EditsAlikeFromWorkers
  TokensOfPrincipal
  GrantsHonest
PROPERTIES
  TierRespected
