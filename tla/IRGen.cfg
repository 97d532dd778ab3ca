CONSTANTS
  MaxFunctions = 2
  MaxStatements = 3
  MaxLazy = 2
SPECIFICATION Spec
INVARIANTS
  NoAssertionFails
  VerifierAccepts
  CodeBeforeInsertBlocks
  JumpsRightBeforeInnerLoop
