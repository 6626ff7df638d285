SPECIFICATION Spec
CONSTANTS
  PERIOD = 100
  IntHalf = 2048
  Client = {c1, c2}
  Creator = {c1}
  Pin = {0, 1, 2}
  InitArg <- MCInitArg
  SetArg <- MCSetArg
  GpioArg <- MCGpioArg
  MAX_PWM_NUM = 2
  InitLimit = 2
  LoadFault = {"region", "cdevp"}
  NULL = NULL
  ERR = ERR
CHECK_DEADLOCK FALSE
INVARIANTS
  NoDriverFault
  QuietAfterUnload
  HighOnlyInPulse
  CreatedIsWritable
  SleepsBounded
PROPERTIES
  PublishedIsStable
  ImplementsService
