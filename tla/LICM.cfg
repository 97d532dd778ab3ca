CONSTANTS
  B <- MCB
  Edges <- MCEdges
  N <- MCN
  UsedKinds = {"value", "phi", "other"}
  Functions <- MCFunctions
SPECIFICATION Spec
INVARIANTS
  DefsDominateUses
  NothingLeftToHoist
  SameEffects
