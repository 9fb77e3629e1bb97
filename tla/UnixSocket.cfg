CONSTANTS
  s1 = s1
  s2 = s2
  d1 = d1
  d2 = d2
  a1 = a1
  a2 = a2
  x1 = x1
  x2 = x2
  StrServer <- MCStrServer
  DataServer <- MCDataServer
  StrClient <- MCStrClient
  DataClient <- MCDataClient
  Nobody = Nobody
  Together <- MCTogether
  Lines = 2
  Backlog = 0
  Room = 1
  Faults <- FaultKinds
SPECIFICATION FairSpec
CHECK_DEADLOCK FALSE
INVARIANTS
  OwnConnection
  DataWhole
  PathServed
PROPERTIES
  StreamServed
