SPECIFICATION Spec
CONSTANTS
  Rows = 5
  MaxBatch = 3
INVARIANT
  InnermostFirst
PROPERTY
  ImplementsSyncReader
CHECK_DEADLOCK FALSE
