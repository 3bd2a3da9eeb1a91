SPECIFICATION Spec
CONSTANTS
  MaxRecords = 3
  MaxStarts = 1
  MaxFailures = 0
  MaxKills = 0
  SyncPolicy = "Data"
  RotateAfter = 9
  QueueDepth = 1
  OutboxCapacity = 1
PROPERTY StopEnds
CHECK_DEADLOCK FALSE
