\* Two producers race for a ring of two slots whose positions wrap after 8.
\* It starts three positions before the wrap, so that the four messages cross it.
SPECIFICATION FairSpec
CONSTANTS
  Producers = {p1, p2}
  Msg = {m1, m2}
  None = None
  Size = 2
  Laps = 4
  Start = 5
  MaxPush = 4
INVARIANTS SlotOwnedByOne FullIsHonest
PROPERTIES SubmitIsFifo RetriesEnd
