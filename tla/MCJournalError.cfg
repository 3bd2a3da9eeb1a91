SPECIFICATION Spec
CONSTANTS
  MaxRecords = 2
  MaxStarts = 2
  MaxFailures = 1
  MaxKills = 0
  SyncPolicy = "Data"
  RotateAfter = 2
  QueueDepth = 1
  OutboxCapacity = 1
INVARIANT NothingToldIsLost
CHECK_DEADLOCK FALSE
