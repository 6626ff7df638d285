SPECIFICATION FairSpec
CONSTANTS
  PERIOD = 100
  IntHalf = 2048
  Client = {c1, c2}
  Creator = {c1}
  Pin = {0, 1, 2}
  InitArg <- MCInitArg
  SetArg <- EndSetArg
  GpioArg <- MCGpioArg
  MAX_PWM_NUM = 2
  InitLimit = 2
  LoadFault = {}
INVARIANTS
  NoDriverFault
  HighOnlyInPulse
  SleepsBounded
PROPERTIES
  ImplementsService
  UnloadTerminates
  IoctlReturns
  CreatedPulses
CHECK_DEADLOCK FALSE
