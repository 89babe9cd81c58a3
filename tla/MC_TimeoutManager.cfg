CONSTANTS
  e1 = e1
  e2 = e2
  e3 = e3
  e4 = e4
  Event = {e1, e2, e3, e4}
  Null = Null
  Timeout = 1
  MaxClock = 4
  Tame = TRUE
SPECIFICATION Spec
SYMMETRY Symmetry
INVARIANTS ScanListOK
PROPERTIES ScanComplete
CHECK_DEADLOCK FALSE
