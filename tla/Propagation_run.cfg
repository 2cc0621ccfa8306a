SPECIFICATION FairSpec
CONSTANTS
  n1 = n1 n2 = n2 n3 = n3
  Members = {n1, n2, n3}
  Enabled = {n1, n2, n3}
  Selector <- AllButOne
  Length = 3
  Policy <- SourceWins
  Owned <- AllOwned
  Reversible <- SecondFixed
  InitStates <- OneOlder
  Limit = 1
  MaxFaults = 2
  MaxEdits = 1
INVARIANTS SuccessIsComplete HistoryIsTrue
PROPERTIES FailClosed RunEnds
CHECK_DEADLOCK FALSE
