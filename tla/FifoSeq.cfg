CONSTANTS
  Client = {c1, c2, c3}
  NoClient = NoClient
  MaxKills = 1
  Faults <- FaultKinds
SPECIFICATION FairSpec
CHECK_DEADLOCK FALSE
INVARIANTS
  Unique
  RequestOrder
  GapsAreDead
  NoGarbage
PROPERTIES
  Answered
