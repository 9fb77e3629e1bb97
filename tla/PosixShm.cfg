CONSTANTS
  Client = {c1, c2}
  Server = {s1, s2}
  MaxObjects = 1
  MaxStarts = 2
  MaxLines = 3
SPECIFICATION FairSpec
CHECK_DEADLOCK FALSE
INVARIANTS
  PermitsBounded
PROPERTIES
  Transfer
  LineRead
