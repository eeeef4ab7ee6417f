SPECIFICATION Spec
CONSTANTS
  RowIds = {a, b, c}
  Hits = {a, b}
  Parts = {1, 2, 3}
  Limits = {0, 1, 2}
  TargetTasks = 2
  MaxTasks = 3
  MaxWrites = 1
INVARIANTS
  ExactlyOnce
  LimitMet
  CountExact
  ReadsOnlyPlanned
  FallbackIsDeliberate
CHECK_DEADLOCK FALSE
