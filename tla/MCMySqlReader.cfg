SPECIFICATION Spec
CONSTANTS
  Rows = 7
  BatchRows = 4
  BatchBytes = 6
  Results <- MCResults
  Extras = {0, 3}
INVARIANTS
  NeverDrains
  FirstFailureRaised
  FetchSizeAdapts
PROPERTY
  ImplementsSyncReader
CHECK_DEADLOCK FALSE
