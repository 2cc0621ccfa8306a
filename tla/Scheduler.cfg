SPECIFICATION SchedulerSpec
CONSTANTS
  Profiles = {p, q}
  Day = 3
  Schedules = {0, 2}
  Windows <- SomeWindows
  MaxTime = 5
  MaxChanges = 1
  Never = Never
  Unreadable = Unreadable
INVARIANTS WindowIsInterval RunsSpaced PassComplete
SYMMETRY Symmetry
CHECK_DEADLOCK FALSE
