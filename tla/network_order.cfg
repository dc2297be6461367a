SPECIFICATION Spec
CONSTANTS
  Tasks <- NetTasks
  None = None
  Nodes = {n1, n2}
  Latencies = {1}
  Sizes = {0}
  Bandwidths <- OneSlow
  Word = 2000000000
  MaxTime = 2
  MaxLinks = 1
  MaxMessages = 4
INVARIANTS
  LinkKeepsOrder
CHECK_DEADLOCK FALSE
