CONSTANTS
  B <- MCB
  Edges <- MCEdges
  N <- MCN
  Parameters <- MCParameters
  Functions <- MCFunctions
SPECIFICATION Spec
INVARIANTS
  SizesExact
  OffsetsExactUnlessMerged
  OverflowOnlyOnCycles
