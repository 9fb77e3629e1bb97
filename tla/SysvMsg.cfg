CONSTANTS
  c1 = c1
  c2 = c2
  Client = {c1, c2}
  Block <- MCBlock
  Hole = Hole
  File <- MCFile
  QueueMax = 1
  Faults <- FaultKinds
SPECIFICATION FairSpec
CHECK_DEADLOCK FALSE
INVARIANTS
  AloneWhole
  NoZombieForgotten
  QueueServes
PROPERTIES
  Served
