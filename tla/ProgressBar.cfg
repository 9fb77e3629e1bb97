CONSTANTS
  t1 = t1
  t2 = t2
  Thread <- MCThread
  Calls <- MCCalls
  MAX_BAR_LENGTH = 3
  Args <- MCArgs
  Steps = 2
SPECIFICATION Spec
CHECK_DEADLOCK FALSE
INVARIANTS
  WritesInside
  BarRight
