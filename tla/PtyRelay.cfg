CONSTANTS
  InCap = 2
  OutCap = 2
  MaxTyped = 2
  MaxSaid = 3
  SizeMax = 4
  PtyFaults <- PtyFaultKinds
SPECIFICATION PtyFairSpec
CHECK_DEADLOCK FALSE
INVARIANTS
  OnlyUserEnds
PROPERTIES
  RelayServes
