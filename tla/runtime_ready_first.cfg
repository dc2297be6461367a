SPECIFICATION Spec
CONSTANTS
  Tasks = {t1, t2}
  None = None
  MaxTime = 3
  Durations = {0, 1, 2}
  Parkers = {t1, t2}
  MaxWakes = 2
  Calls = {}
PROPERTIES
  ReadyTasksRunFirst
CHECK_DEADLOCK FALSE
