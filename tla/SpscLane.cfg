\* A ring of 4 slots whose counters wrap after 12, batches of at most 2 and a
\* budget of 3: a drain may take several batches and stop inside the lane.
SPECIFICATION LaneFairSpec
CONSTANTS
  Msg = {m1, m2}
  None = None
  Size = 4
  Laps = 3
  Batch = 2
  Budget = 3
INVARIANTS NoSlotRace
PROPERTIES LaneIsFifo AcceptedIsRouted
