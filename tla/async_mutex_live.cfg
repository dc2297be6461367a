SPECIFICATION FairSpec
CONSTANTS
  Tasks = {t1, t2}
  None = None
  MaxRounds = 3
  CanStop = FALSE
PROPERTIES
  NotifyWakes
  LockGranted
CHECK_DEADLOCK FALSE
