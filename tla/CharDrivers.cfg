CONSTANTS
  Driver <- Drivers
  Together <- MCTogether
  Dynamic <- MCDynamic
  MaxLoads = 2
  Faults <- MCFaults
SPECIFICATION Spec
CHECK_DEADLOCK FALSE
INVARIANTS
  OpenInCode
  NoWildOpen
  NodeReaches
  UnloadedClean
