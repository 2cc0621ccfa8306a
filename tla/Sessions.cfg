SPECIFICATION Spec
CONSTANTS
  Accounts = {a1, a2}
  Ips = {ip1}
  Clients = {c1, c2}
  Ids = {t1, t2, t3}
  MaxSessionsPerAccount = 2
  SessionTTL = 2
  MaxFailures = 1
  FailureWindow = 1
  ChallengeTTL = 1
  MaxTime = 2
  MaxSaveErrors = 1
  None = None
INVARIANT StoreBounded
PROPERTY SessionsKept
SYMMETRY Symmetry
CHECK_DEADLOCK FALSE
