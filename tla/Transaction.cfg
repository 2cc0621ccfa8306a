SPECIFICATION Spec
CONSTANT Nodes = 4
INVARIANTS ReportIsComplete ShownIsTrue
CHECK_DEADLOCK FALSE
