CONSTANTS
  Demos <- AllDemos
  N = 3
  PipeFaults <- PipeFaultKinds
  w = w
  v = v
  p = p
  q = q
  Waiter <- MCWaiter
  Poster <- MCPoster
  MaxSem = 2
  SemFaults <- SemFaultKinds
SPECIFICATION FairSpec
CHECK_DEADLOCK FALSE
INVARIANTS
  EofTells
  GlobCounts
PROPERTIES
  ReadersEnd
  SemEnds
