CONSTANTS
  h1 = h1
  h2 = h2
  p1 = p1
  p2 = p2
  p3 = p3
  Handle = {h1}
  Proc = {p1}
  None = None
  SockCap = 1
SPECIFICATION FairSpec
PROPERTY CloseCalled
CHECK_DEADLOCK FALSE
