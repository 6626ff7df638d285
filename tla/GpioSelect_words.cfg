SPECIFICATION TestSpec
CONSTANTS
  Client = {loader, c1}
  Loader = loader
  Uses <- SharedWord
  Pin = {16, 17, 18, 21}
  PerWord = 10
  InitFsel = {0, 1, 4}
CHECK_DEADLOCK FALSE
INVARIANTS
  HighPinIsOutput
  LastSetHolds
PROPERTY OthersKeepFunction

