SPECIFICATION FairSpec
CONSTANTS
  Tasks <- NetTasks
  None = None
  Nodes = {n1, n2, n3}
  Latencies = {1}
  Sizes = {2}
  Bandwidths <- OneSlow
  Word = 2000000000
  MaxTime = 5
  MaxLinks = 2
  MaxMessages = 2
INVARIANTS
  TypeOK
  ActiveWhileUnderWay
  LinksAgree
  NoMessageStranded
PROPERTIES
  ExactTransfer
  ImplementsTransit
  AllHandled
CHECK_DEADLOCK FALSE
