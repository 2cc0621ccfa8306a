SPECIFICATION FairSpec
CONSTANTS
  Peers = {p1}
  Callers = {c1, c2}
  Links = {1, 2}
  Accepts = {1}
  MaxChanges = 1
  None = None
INVARIANTS OwnResponse NoLinkLeaks
PROPERTIES HealthyConnStays ConnectionsEnd
CHECK_DEADLOCK FALSE
