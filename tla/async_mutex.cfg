SPECIFICATION Spec
CONSTANTS
  Tasks = {t1, t2, t3}
  None = None
  MaxRounds = 2
  CanStop = TRUE
SYMMETRY TaskSymmetry
INVARIANTS
  TypeOK
  MutualExclusion
  WaitersAreBlocked
  HeadWaiterScheduled
  NotifiedIsScheduled
  NoLostWakeup
CHECK_DEADLOCK FALSE
