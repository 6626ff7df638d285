SPECIFICATION PassSpec
CONSTANTS
  Caller = {c1, c2}
  Value = {0, 1}
  Arg <- MCArg
  Pair <- MCPair
  Pins = 4
  LoadFault = {"pwm_data", "region", "cdevp", "cdev_map"}
  NULL = NULL
CHECK_DEADLOCK FALSE
INVARIANTS
  AloneEchoes
  ForeignOnlyByOverlap
