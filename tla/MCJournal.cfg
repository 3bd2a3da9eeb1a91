SPECIFICATION Spec
CONSTANTS
  MaxRecords = 3
  MaxStarts = 2
  MaxFailures = 1
  MaxKills = 1
  SyncPolicy = "Data"
  RotateAfter = 2
  QueueDepth = 1
  OutboxCapacity = 1
INVARIANTS
  TypeOK
  NothingToldIsLostUnlessIOError
PROPERTIES
  WrittenBeforeTold
  RestartIsAPrefix
CHECK_DEADLOCK FALSE
