SPECIFICATION Spec
CONSTANTS
  MaxSlots = 2
  MaxGen = 1
  MaxEvict = 1
  a1 = a1
  Account <- MCAccount
  MCSpecs <- MCSmallOrUrgent
  JobSpec <- MCJobSpec
  MaxDeps = 1
  DepLists <- MCDepLists
  MaxNodes = 1
  Capacities = {2}
  MaxCandidates = 2
  MaxDecisions = 2
  MaxScanned = 2
  MinClass = 3
  MaxPreempt = 1
  MaxClaims = 1
  MaxRestarts = 1
INVARIANTS
  BindingsAreReal
  TerminalQueued
PROPERTIES
  ImplementsCore
CHECK_DEADLOCK FALSE
