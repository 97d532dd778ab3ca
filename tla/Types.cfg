CONSTANTS
  Declarations <- MCDeclarations
  MaxStack = 3
SPECIFICATION Spec
INVARIANTS
  TypeOK
  TypesAgree
  AcceptedCompiles
CHECK_DEADLOCK FALSE
