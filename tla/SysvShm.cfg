CONSTANTS
  Block <- MCBlock
  Input <- MCInput
  Stale = Stale
  Faults <- FaultKinds
SPECIFICATION FairSpec
CHECK_DEADLOCK FALSE
INVARIANTS
  NeverBackwards
  NothingLeft
  LeftBehindClosed
PROPERTIES
  FreshNeverEarly
  ReaderReleased
  Delivered
  Transfer
