CONSTANTS
  N = 2
  a01 = a01
  a00 = a00
  u10 = u10
  s1 = s1
  s2 = s2
  Chan = {a01}
  src <- MC_src
  dst <- MC_dst
  other <- MC_other
  Sig = {s1}
  Wake = Wake
  PostCap = 1
  MaxCmd = 2
SPECIFICATION FairSpec
INVARIANTS WakePending CloseBracket
PROPERTIES NoAcceptAfterClose Delivered 
CHECK_DEADLOCK FALSE
