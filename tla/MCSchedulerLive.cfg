SPECIFICATION FairSpec
CONSTANTS
  MaxSlots = 2
  MaxGen = 1
  MaxEvict = 0
  MaxDeps = 2
  MaxReuse = 1
  a1 = a1
  Account <- MCAccount
  JobSpec <- MCJobSpec
  DepLists <- MCDepLists
PROPERTY EveryJobEnds
CHECK_DEADLOCK FALSE
