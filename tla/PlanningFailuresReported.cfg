SPECIFICATION Spec
CONSTANT
  MaxBody = 2
INVARIANT
  PlanningFailuresReported
CHECK_DEADLOCK FALSE
