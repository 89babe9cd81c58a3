CONSTANTS
  h1 = h1
  h2 = h2
  p1 = p1
  p2 = p2
  p3 = p3
  Handle = {h1, h2}
  Proc = {p1, p2, p3}
  None = None
  SockCap = 1
SPECIFICATION FairSpec
INVARIANTS HandlesOK WhatFails
PROPERTIES StartedRuns ClosesAfterC
CHECK_DEADLOCK FALSE
