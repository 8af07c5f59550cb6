SPECIFICATION FairSpec
CONSTANTS
  Script <- MCScript
  NThreads = 3
  MaxProducers = 2
  QueueSize = 1
  Channels = 2
  Budget <- MCBudget
  Blocking <- MCBlocking
  GpuActive = TRUE
  Capacity = 1
INVARIANTS AcceptedInOrder FenceOrders
PROPERTIES SubmitEnds
CHECK_DEADLOCK FALSE
