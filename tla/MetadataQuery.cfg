SPECIFICATION Spec
CONSTANT
  MaxBody = 2
INVARIANTS
  ResourcesReturned
  FatalStaysFatal
  FailureVisible
  PlanExact
CHECK_DEADLOCK FALSE
