SPECIFICATION FairSpec
CONSTANTS
  Callers = {c1, c2}
  Workers = {w1, w2}
  NoWorker = NoWorker
  MaxPending = 3
  Room = 1
  First = {c1, c2}
  MaxTasks = 4
INVARIANTS QueueIsFifo CollectedOnce StopLeavesFew
PROPERTIES LossNeedsOverrun WorkEnds
CHECK_DEADLOCK FALSE
