SPECIFICATION Spec
CONSTANTS
  MaxSlots = 3
  MaxGen = 0
  MaxEvict = 1
  a1 = a1
  Account <- MCAccount
  MCSpecs <- MCSmallOrUrgent
  JobSpec <- MCJobSpec
  MaxDeps = 0
  DepLists <- MCDepLists
  MaxNodes = 2
  Capacities = {2}
  MaxCandidates = 2
  MaxDecisions = 2
  MaxScanned = 2
  MinClass = 3
  MaxPreempt = 1
  MaxClaims = 0
  MaxRestarts = 0
INVARIANTS
  NeverPanics
PROPERTIES
  OneEvictionAtATime
  EvictionMakesRoom
CHECK_DEADLOCK FALSE
