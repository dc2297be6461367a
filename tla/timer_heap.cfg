SPECIFICATION MCSpec
CONSTANTS
  Tasks = {t1, t2}
  None = None
  MaxTime = 3
  MaxHeap = 6
INVARIANTS
  HeapOrdered
PROPERTIES
  ImplementsTimer
CHECK_DEADLOCK FALSE
