CONSTANTS
  Sender = {p1}
  Receiver = {r1}
  SigNotify = {s1}
  ThrNotify = {t1}
  Nobody = Nobody
  MAX_MSG = 2
  MSG_SIZE = 3
  MaxQueues = 2
SPECIFICATION FairSpec
CHECK_DEADLOCK FALSE
INVARIANTS
  NoLostWakeup
PROPERTIES
  Woken
