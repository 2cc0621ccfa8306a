SPECIFICATION MCSpec
CONSTANTS
  MaxAttempts = 3
  NodeIDs <- FourNodes
  FanLimit = 2
  MaxSequence = 5
INVARIANTS CallIsTrue OutcomeFollowsOrder ReportComplete
PROPERTY CallsEnd
CHECK_DEADLOCK FALSE
