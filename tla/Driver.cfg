CONSTANTS
  a = a
  b = b
  Files = {a, b}
  MaxVersion = 2
  Fates <- MCFates
  Arguments <- MCArguments
  Tests <- MCTests
SPECIFICATION Spec
INVARIANTS
  OutputTrue
  RunsWhatWasRead
  VerdictsTrue
