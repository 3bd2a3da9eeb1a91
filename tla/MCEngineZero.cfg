SPECIFICATION Spec
CONSTANTS
  MaxSlots = 2
  MaxGen = 0
  MaxEvict = 1
  a1 = a1
  Account <- MCAccount
  MCSpecs <- MCEmptyRequest
  JobSpec <- MCJobSpec
  MaxDeps = 1
  DepLists <- MCDepLists
  MaxNodes = 2
  Capacities = {1}
  MaxCandidates = 2
  MaxDecisions = 2
  MaxScanned = 2
  MinClass = 3
  MaxPreempt = 1
  MaxClaims = 2
  MaxRestarts = 0
INVARIANT NeverPanics
CHECK_DEADLOCK FALSE
