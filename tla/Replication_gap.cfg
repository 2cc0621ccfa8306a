SPECIFICATION Spec
CONSTANTS
  n1 = n1 n2 = n2 n3 = n3
  a = a b = b x = x y = y z = z p = p q = q
  OpIDs = {a, b}
  Objects = {x}
  Payloads = {y, q, z}
  Decodable = {y, q, z}
  Products = {p}
  Version = 2
  Nil = Nil
  Nodes <- MCNodes
  Clients = {c1}
  Ops <- SchemaOps
  InitVoters <- MCNodes
  InitSchema <- LastOld
  TrailingLogs = 0
  Snapshotters = {}
  Features = {}
  MaxProposals = 2
  MaxTerm = 2
  MaxCrashes = 1
PROPERTY SchemaBeforeCommit
CHECK_DEADLOCK FALSE
