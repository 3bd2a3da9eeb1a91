SPECIFICATION Spec
CONSTANTS
  MaxRecords = 2
  MaxStarts = 2
  MaxFailures = 0
  MaxKills = 0
  SyncPolicy = "Data"
  RotateAfter = 2
  QueueDepth = 1
  OutboxCapacity = 1
INVARIANT RotationLeavesLoadable
CHECK_DEADLOCK FALSE
