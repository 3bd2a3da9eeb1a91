SPECIFICATION Spec
CONSTANTS
  MaxRecords = 2
  MaxStarts = 1
  MaxFailures = 0
  MaxKills = 1
  SyncPolicy = "Data"
  RotateAfter = 9
  QueueDepth = 1
  OutboxCapacity = 1
PROPERTY NoStartAfterKill
CHECK_DEADLOCK FALSE
