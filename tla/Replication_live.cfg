SPECIFICATION FairSpec
CONSTANTS
  n1 = n1 n2 = n2 n3 = n3
  a = a b = b x = x y = y z = z p = p q = q
  OpIDs = {a, b}
  Objects = {x}
  Payloads = {y, q}
  Decodable = {y}
  Products = {p}
  Version = 2
  Nil = Nil
  Nodes <- MCTwoNodes
  Clients = {c1}
  Ops <- MixedOps
  InitVoters = {n1}
  InitSchema <- TwoNew
  TrailingLogs = 0
  Snapshotters <- MCTwoNodes
  Features = {"crash", "member", "forward", "upgrade", "downgrade"}
  MaxProposals = 1
  MaxTerm = 2
  MaxCrashes = 1
PROPERTIES CallReturns Convergence
CHECK_DEADLOCK FALSE
