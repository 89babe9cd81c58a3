CONSTANTS
  t1 = t1
  t2 = t2
  t3 = t3
  Timer = {t1, t2, t3}
  period <- MC_period
  MaxWait = 2
  MaxClock = 5
  SelfRemove = FALSE
SPECIFICATION TMSpec
INVARIANTS SlotsInv
  
CHECK_DEADLOCK FALSE
