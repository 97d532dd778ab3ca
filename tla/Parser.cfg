CONSTANTS
  Kinds <- MCKinds
  Beginning <- MCBeginning
  Cost <- MCCost
  Budget <- MCBudget
SPECIFICATION Spec
INVARIANTS
  ParsesAsWritten
  PrintsBack
CHECK_DEADLOCK FALSE
