SPECIFICATION Spec
CONSTANTS
  Producers = {p1}
  Stepper = None
  Nodes <- ShaderThenSystem
  System = System
  Shader = Shader
  Nowhere = Nowhere
  None = None
  Templates <- ControlTemplates
  MaxSends = 3
  MaxProducers = 2
  LaneSize = 2
  SubmitSize = 1
  Batch = 2
  Budgets <- Ample
  Blocking <- RtAndRender
  Decodings <- NoGarbage
  Masks <- NoMasks
  Clears = FALSE
  InboxSize = 2
  Reserve = 1
  PayloadSlots = 8
  LogSlots = 8
  Validate = TRUE
  CountMax = 4
INVARIANTS AnsweredOnce LossIsReported RecordingIsComplete
