SPECIFICATION Spec
CONSTANTS
  Tasks = {t1, t2}
  None = None
  MaxRounds = 2
  CanStop = TRUE
INVARIANTS
  StopReturns
CHECK_DEADLOCK FALSE
