SPECIFICATION FairSpec
CONSTANTS
  ToolbusSize = 2
  NoOp = NoOp
  Ops = {"FENCE", "QUERY", "DIRECT", "MALFORMED"}
  FreshCids = TRUE
  LaneSize = 1
  InboxSize = 2
  MaxRequests = 2
  MaxOther = 1
  MaxClears = 1
INVARIANTS AnswerIsOwn RepliesInOrder ScanIsComplete
PROPERTIES ServerMovesOn
