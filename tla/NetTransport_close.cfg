SPECIFICATION FairSpec
CONSTANTS
  Peers = {p1}
  Callers = {c1}
  Links = {1}
  Accepts = {1}
  MaxChanges = 0
  None = None
PROPERTY CloseReturns
CHECK_DEADLOCK FALSE
