SPECIFICATION FairSpec
CONSTANTS
  Tasks = {t1, t2, t3}
  None = None
  MaxTime = 3
  Durations = {1, 2}
  Parkers = {}
  MaxWakes = 0
  Calls = {}
PROPERTIES
  BlockOnReturns
CHECK_DEADLOCK FALSE
