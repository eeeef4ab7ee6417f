SPECIFICATION Spec
CONSTANTS
  Rows = 4
  MaxBatch = 3
  MaxCancels = 3
INVARIANT
  ClientClosed
PROPERTIES
  ReadingEnds
  ImplementsReadSession
CHECK_DEADLOCK FALSE
