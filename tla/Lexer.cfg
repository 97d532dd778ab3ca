CONSTANTS
  MaxLength = 5
SPECIFICATION Spec
INVARIANTS
  StatesExact
  NothingLost
  ValuesExact
  PositionsTrue
CHECK_DEADLOCK FALSE
