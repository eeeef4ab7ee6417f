SPECIFICATION Spec
CONSTANTS
  MaxObjects = 3
  MaxItems = 5
  ItemWeights = {0, 2, 3}
  MaxTasks = 3
  MaxChanges = 2
  MaxCalls = 2
  Depth = 4
  LimitValues = {0, 1, 2, 3, 4}
  CallerHeaps <- MCCallerHeaps
  Weights <- MCWeights
INVARIANTS
  SnapshotsIndependent
  AcceptedExactly
  GroupsPartition
  WellBalanced
CHECK_DEADLOCK FALSE
