SPECIFICATION Spec
CONSTANTS
  MaxMovements = 3
  MaxTime = 2
INVARIANT ReportFollowsReconcile
CHECK_DEADLOCK FALSE
