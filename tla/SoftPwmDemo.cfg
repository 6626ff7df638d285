SPECIFICATION FairDemoSpec
CONSTANTS
  PERIOD = 10000
  IntHalf = 536870912
  Client = {c1, c2}
  Demo = {c1}
  Creator = {c1}
  Pin = {0, 16, 21}
  InitArg <- Creates
  SetArg <- Writes
  GpioArg = {}
  MAX_PWM_NUM = 5
  InitLimit = 2
  LoadFault = {"cdevp"}
  Runs = 1
  NULL = NULL
  ERR = ERR
CHECK_DEADLOCK FALSE
INVARIANT SilentMeansServed
PROPERTIES
  PulsesOutliveDemo
  DemoEnds
  UnloadTerminates
  IoctlReturns
  CreatedPulses
