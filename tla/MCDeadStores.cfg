SPECIFICATION Spec
CONSTANTS Shapes <- MCShapes
CHECK_DEADLOCK FALSE
INVARIANTS ReportedNeverRead
