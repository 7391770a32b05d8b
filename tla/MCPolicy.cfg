\* Policies of two steps and parallel blocks of two branches, each decided in
\* every world; one reload; predicates of up to nine tokens.
SPECIFICATION Spec

CONSTANTS
  Histories <- MCHistories
  Worlds <- MCWorlds
  Messages <- MCMessages
  Bag <- MCBag
  Texts <- MCTexts
  Bags <- MCBags
  Matches <- MCMatches
  Idents <- MCIdents
  Literals <- MCLiterals
  Interpolated <- MCInterpolated
  NumberOf <- MCNumberOf

CHECK_DEADLOCK FALSE
INVARIANTS
  ParserAgrees
  ParallelLikeSequential
  VerdictsStand
  LayersComplete
