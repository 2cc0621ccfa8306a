SPECIFICATION MCSpec
CONSTANTS
  AccountIds = {a1, a2}
  IdentityIds = {i1, i2}
  Names = {k1, k2}
  Mails = {k1}
  Codes = {r1}
  OtherRoles = {"reader"}
  KnownCapabilities = {}
  UnknownCapability = "unknown"
  Installations <- NewAndOld
  a1 = a1
  i1 = i1
  k1 = k1
  r1 = r1
  MaxChanges = 3
  MaxSaveErrors = 1
  Peers = {p1}
  Secrets = {"s1"}
  Connections = {n1, n2}
  SkewWindow = 1
  Skew = 1
  MaxClock = 3
  MaxHandshakes = 2
  Commands = {c1, c2}
  MaxLogins = 2
  MaxKills = 1
  Editors = {e1, e2}
  Modes = {m1, m2}
  DefaultMode = m1
  MaxSaves = 3
  MaxCrashes = 1
  None = None
  Torn = Torn
PROPERTY SetupOnce
CHECK_DEADLOCK FALSE
