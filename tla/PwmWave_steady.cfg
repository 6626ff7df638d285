SPECIFICATION Spec
CONSTANTS
  PERIOD = 100
  IntHalf = 2048
  Ranges <- MCRange
  Asked <- FromZero
INVARIANTS
  SteadyCycle
  CycleBound
  HighShare
