SPECIFICATION Spec
CONSTANTS
  Tasks = {t1, t2}
  None = None
  MaxTime = 2
  Durations = {1}
  MaxWaits = 1
PROPERTIES
  NotifyReachesWaiter
CHECK_DEADLOCK FALSE
