SPECIFICATION AuthorityFairSpec
CONSTANTS
  Requests = {r1}
  HasHealth = TRUE
  MaxIndex = 1
PROPERTY CaughtUpBeforeReady
