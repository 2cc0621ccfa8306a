SPECIFICATION Spec
CONSTANTS
  Fragments <- Streams
  Replacements <- Recovered
  Terminals <- OneOutcome
  UserTexts <- Yes
  Coarse = FALSE
  NoRun = NoRun
  MaxEvents = 3
  MaxCopies = 1
INVARIANT NeverDoubled
CHECK_DEADLOCK FALSE
