SPECIFICATION Spec
CONSTANTS
  PERIOD = 100
  IntHalf = 2048
  Ranges <- MinMaxRange
  Asked <- FromMin
INVARIANT CycleBound
