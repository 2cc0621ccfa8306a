SPECIFICATION Spec
CONSTANTS
  Fragments <- Streams
  Replacements <- Recovered
  Terminals <- Outcomes
  UserTexts <- Yes
  Coarse = TRUE
  NoRun = NoRun
  MaxEvents = 3
  MaxCopies = 2
INVARIANT StoredIsTrue
PROPERTY MergeKeeps
CHECK_DEADLOCK FALSE
