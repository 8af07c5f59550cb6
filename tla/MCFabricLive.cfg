SPECIFICATION FairSpec
CONSTANTS
  Producers = {p1, p2}
  Stepper = None
  Nodes <- ShaderThenSystem
  System = System
  Shader = Shader
  Nowhere = Nowhere
  None = None
  Templates <- JustDraw
  MaxSends = 2
  MaxProducers = 1
  LaneSize = 1
  SubmitSize = 1
  Batch = 2
  Budgets <- Ample
  Blocking <- RtAndRender
  Decodings <- NoGarbage
  Masks <- NoMasks
  Clears = FALSE
  InboxSize = 3
  Reserve = 1
  PayloadSlots = 8
  LogSlots = 8
  Validate = FALSE
  CountMax = 4
PROPERTIES CallsReturn AcceptedIsSettled
