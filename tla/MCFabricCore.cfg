SPECIFICATION Spec
CONSTANTS
  Producers = {p1, p2}
  Stepper = None
  Nodes <- ShaderThenSystem
  System = System
  Shader = Shader
  Nowhere = Nowhere
  None = None
  Templates <- CoreTemplates
  MaxSends = 2
  MaxProducers = 1
  LaneSize = 2
  SubmitSize = 1
  Batch = 2
  Budgets <- Ample
  Blocking <- JustRender
  Decodings <- NoGarbage
  Masks <- RtMask
  Clears = TRUE
  InboxSize = 3
  Reserve = 1
  PayloadSlots = 8
  LogSlots = 8
  Validate = FALSE
  CountMax = 4
INVARIANTS Conservation LaneOrder
