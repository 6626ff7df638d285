SPECIFICATION LatencySpec
CONSTANTS
  TimesArg <- MCTimesArg
  DefaultTimes = 4
  Sample <- AllSamples
  US = 10
  array_size = 3
  LONG_MAX = 1000
CHECK_DEADLOCK FALSE
INVARIANTS
  EverySleepCounted
  ExtremesAreRight
  ReportIsComplete
  ReportFitsUnlessOverrun
