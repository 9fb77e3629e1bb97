CONSTANTS
  c1 = c1
  c2 = c2
  Client = {c1, c2}
  Args <- MCArgs
  TooLong <- MCTooLong
  ServerAddrs <- MCServerAddrs
  HostAddrs <- MCHostAddrs
  NetFaults <- NetFaultKinds
SPECIFICATION EchoFairSpec
CHECK_DEADLOCK FALSE
INVARIANTS
  AnswersPast
  AnswersMatch
PROPERTIES
  Answered
