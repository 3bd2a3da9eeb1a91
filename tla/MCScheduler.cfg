SPECIFICATION Spec
CONSTANTS
  MaxSlots = 3
  MaxGen = 1
  MaxEvict = 0
  MaxDeps = 2
  MaxReuse = 2
  a1 = a1
  Account <- MCAccount
  JobSpec <- MCJobSpec
  DepLists <- MCDepLists
INVARIANTS
  TypeOK
  RunsAfterDependencies
  BlockedWillBeWoken
  DoomSpreads
  ReadySetExact
  ChargeExact
PROPERTIES
  DoomHasACause
  OneReleasePerCall
  HandlesAreNotReused
CHECK_DEADLOCK FALSE
