SPECIFICATION FairSpec
CONSTANTS
  Size = 2
  MaxDevices = 1
  Sources = {1}
  Events <- MCEvents
  NoEvent = NoEvent
  Burst = 2
  MaxEvents = 2
  Width = 1
INVARIANTS EveryEventIsAccounted NoThreadIsLeft
PROPERTIES EventsAreFifo ThreadsMoveOn
CHECK_DEADLOCK FALSE
