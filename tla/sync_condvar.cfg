SPECIFICATION FairSpec
CONSTANTS
  Tasks = {t1, t2}
  None = None
  MaxTime = 2
  Durations = {1}
  MaxWaits = 2
INVARIANTS
  TypeOK
  TimeoutScheduled
  WaitsRegistered
PROPERTIES
  NoBorrowPanic
  NotifyOneWakes
  NotifyAllWakes
  ImplementsFifo
  WaitsReturn
CHECK_DEADLOCK FALSE
