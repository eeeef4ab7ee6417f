SPECIFICATION SlicingSpec
CONSTANTS
  MaxRows = 6
  BatchRows = 5
  BatchBytes = 8
  Layouts <- MCLayouts
INVARIANTS
  WithinLimits
  AsLargeAsAllowed
  CoversBatch
PROPERTY
  Terminates
CHECK_DEADLOCK FALSE
