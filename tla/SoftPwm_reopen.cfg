SPECIFICATION Spec
CONSTANTS
  PERIOD = 100
  IntHalf = 2048
  Client = {c1}
  Creator = {c1}
  Pin = {0, 1, 2}
  InitArg <- OneInitArg
  SetArg <- OneSetArg
  GpioArg = {}
  MAX_PWM_NUM = 2
  InitLimit = 2
  LoadFault = {}
  NULL = NULL
  ERR = ERR
CHECK_DEADLOCK FALSE
INVARIANT OpenFailsAfterUnload
