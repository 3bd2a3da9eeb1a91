SPECIFICATION Spec
CONSTANTS
  MaxRecords = 3
  MaxStarts = 2
  MaxFailures = 0
  MaxKills = 1
  SyncPolicy = "Data"
  RotateAfter = 2
  QueueDepth = 1
  OutboxCapacity = 1
PROPERTY RepliesAreSent
CHECK_DEADLOCK FALSE
