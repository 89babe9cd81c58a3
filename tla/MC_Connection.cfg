CONSTANTS
  p1 = p1  p2 = p2
  h1 = h1  h2 = h2  h3 = h3
  f1 = f1  f2 = f2
  NULL = NULL
  Procs = {p1, p2}
  Handlers = {h1, h2, h3}
  Fds = {f1, f2}
  Kinds = {"tcp", "unix", "udp", "pipe"}
  SendBuffer = 2
  MaxMsg = 2
  MaxGiven = 2
  Peers = {p2}
SPECIFICATION Spec
INVARIANTS  FdOwned OutputOK 
SYMMETRY Symm
CHECK_DEADLOCK FALSE
