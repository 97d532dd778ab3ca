CONSTANTS
  Width = 3
  N = 2
  Opcodes = {"add", "sub", "mul", "shl", "ashr", "lshr", "udiv", "sdiv", "urem", "srem", "and", "or", "xor"}
  Constants = {0, 1, 7}
  Unknowns = 1
SPECIFICATION Spec
INVARIANTS
  PreservesOtherValues
  NothingLeftToFold
  FailsOnlyOnZeroDivisor
PROPERTIES
  Terminates
