CONSTANTS
  Order <- MCOrder
  Signatures <- MCSignatures
  Bodies <- MCBodies
  Accessing <- MCAccessing
SPECIFICATION Spec
INVARIANTS
  SizesAgree
  OnlyReplacedUnchecked
  SimpleSurvives
