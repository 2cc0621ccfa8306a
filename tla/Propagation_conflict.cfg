SPECIFICATION FairSpec
CONSTANTS
  n1 = n1 n2 = n2 n3 = n3
  Members = {n1, n2, n3}
  Enabled = {n1, n2, n3}
  Selector <- OnlyFirst
  Length = 2
  Policy <- DestinationWins
  Owned <- BothOwned
  Reversible <- BothReversible
  InitStates <- Differing
  Limit = 4
  MaxFaults = 0
  MaxEdits = 0
PROPERTY ConflictPolicyHonoured
CHECK_DEADLOCK FALSE
