CONSTANTS
  N <- MCN
  Programs <- MCPrograms
SPECIFICATION Spec
INVARIANTS
  ListsMatchMarks
  NothingNeededErased
  UndefinedOnlyIfShared
  MarksAreExact
  RetTellsChange
PROPERTIES
  Terminates
  ImplementsDeadCode
