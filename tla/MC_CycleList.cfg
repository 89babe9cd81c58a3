CONSTANTS
  a = a
  b = b
  c = c
  d = d
  e = e
  NULL = NULL
  Node <- MCNode
  Head0 = a
  Cycle0 = b
SPECIFICATION Spec
INVARIANTS NoUseAfterFree ExclusiveCmd ListInv
PROPERTIES ImplementsChannel
CHECK_DEADLOCK FALSE
