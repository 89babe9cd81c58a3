CONSTANTS
  N = 2
  MaxSignal = 2
  MaxCrash = 2
  MaxFail = 1
  MaxLog = 2
SPECIFICATION PMFairSpec
INVARIANTS StopOK CloseOK
PROPERTIES Restarted ShutdownCompletes
CHECK_DEADLOCK FALSE
