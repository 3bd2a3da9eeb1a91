SPECIFICATION Spec
CONSTANTS
  MaxSlots = 2
  MaxGen = 0
  MaxEvict = 1
  a1 = a1
  Account <- MCAccount
  MCSpecs <- MCSmallOrUrgent
  JobSpec <- MCJobSpec
  MaxDeps = 1
  DepLists <- MCDepLists
  MaxNodes = 2
  Capacities = {2}
  MaxCandidates = 2
  MaxDecisions = 2
  MaxScanned = 2
  MinClass = 3
  MaxPreempt = 1
  MaxClaims = 2
  MaxRestarts = 1
INVARIANTS
  TypeOK
  AllocationExact
  NoOvercommit
  BindingsAreReal
PROPERTIES
  RunnersAreOwned
  ImplementsCore
CHECK_DEADLOCK FALSE
