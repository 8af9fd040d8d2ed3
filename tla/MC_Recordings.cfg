SPECIFICATION Spec
CONSTANTS
  Task <- MCTask
  Path = {p1, p2}
  MaxTime = 3
  MaxTrouble = 1
  None = None
CONSTRAINT WellTreated
CHECK_DEADLOCK FALSE
INVARIANTS OneCapture NothingLost 
PROPERTY EndsAtLast
