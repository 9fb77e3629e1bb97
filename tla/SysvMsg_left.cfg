CONSTANTS
  c1 = c1
  c2 = c2
  Client = {c1, c2}
  Block <- MCBlock
  Hole = Hole
  File <- MCFile
  QueueMax = 1
  Faults <- SignalOnly
SPECIFICATION Spec
CHECK_DEADLOCK FALSE
INVARIANTS
  QueueRemoved
