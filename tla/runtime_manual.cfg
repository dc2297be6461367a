SPECIFICATION Spec
CONSTANTS
  Tasks = {t1, t2, t3}
  None = None
  MaxTime = 3
  Durations = {0, 1, 2}
  Parkers = {t1, t2, t3}
  MaxWakes = 2
  Calls = {"execute_tasks", "advance", "task_advance", "stop", "with_context"}
SYMMETRY TaskSymmetry
INVARIANTS
  TypeOK
  EventsNotPast
  NoLostWakeup
  NoUseAfterDrop
PROPERTIES
  TimeMonotone
  FinishedForGood
CHECK_DEADLOCK FALSE
