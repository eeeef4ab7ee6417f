SPECIFICATION Spec
CONSTANTS
  Rows = 2
  MaxBatch = 2
  MaxCancels = 2
PROPERTY
  CancellationKept
CHECK_DEADLOCK FALSE
