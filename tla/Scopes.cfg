CONSTANTS
  Names = {x, y}
  FirstNames = {x}
  MaxGlobals = 2
  MaxStatements = 3
  MaxUses = 1
SPECIFICATION Spec
INVARIANTS
  BindsInnermost
  ErrorsExact
  FailsOnlyAhead
