CONSTANTS
  e1 = e1
  e2 = e2
  e3 = e3
  e4 = e4
  Event = {e1, e2, e3}
  Null = Null
  Timeout = 1
  MaxClock = 2
  Tame = FALSE
SPECIFICATION Spec
INVARIANT AttachedChecked
CHECK_DEADLOCK FALSE
