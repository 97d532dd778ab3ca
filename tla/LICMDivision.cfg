CONSTANTS
  B <- MCB
  Edges <- MCEdges
  N <- MCN
  UsedKinds = {"value", "division", "other"}
  Functions <- MCFunctions
SPECIFICATION Spec
INVARIANTS
  NoNewDivision
