SPECIFICATION Spec
CONSTANTS
  Fragments <- Streams
  Replacements <- Recovered
  Terminals <- Outcomes
  UserTexts <- Yes
  Coarse = TRUE
  NoRun = NoRun
  MaxEvents = 3
  MaxCopies = 1
INVARIANT LatestAlways
CHECK_DEADLOCK FALSE
