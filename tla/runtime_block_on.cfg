SPECIFICATION Spec
CONSTANTS
  Tasks = {t1, t2, t3}
  None = None
  MaxTime = 3
  Durations = {0, 1, 2}
  Parkers = {t1, t2, t3}
  MaxWakes = 2
  Calls = {"execute_tasks", "with_context"}
SYMMETRY TaskSymmetry
INVARIANTS
  StaleEventsAreDue
  SleepersScheduled
  NoOverdueSleeper
PROPERTIES
  ImplementsClock
CHECK_DEADLOCK FALSE
