SPECIFICATION Spec
CONSTANTS
  Rows = 4
  MaxBatch = 3
  MaxCancels = 3
INVARIANTS
  NoLeak
  CloseIsLast
  CallsInOrder
  RowsInOrder
  DemandDriven
  FailureReported
PROPERTIES
  CloseCompletes
  GivenUpEnds
  ImplementsReadSession
CHECK_DEADLOCK FALSE
