SPECIFICATION Spec
CONSTANTS
  PERIOD = 100
  IntHalf = 2048
  Client = {c1, c2}
  Creator = {c1, c2}
  Pin = {0, 1}
  InitArg <- AnyInitArg
  SetArg <- AnySetArg
  GpioArg <- AnyGpioArg
  MAX_PWM_NUM = 2
  InitLimit = 2
  LoadFault = {"gpio", "duty_array", "device"}
SYMMETRY ClientSymmetry
INVARIANTS
  TypeOK
  CountedIsInited
  QuietAfterUnload
CHECK_DEADLOCK FALSE
