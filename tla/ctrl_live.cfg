CONSTANTS
  a = a
  b = b
  Slots <- Chain
  Root <- RootAt
  Kernels = {a, b}
  SlotOf <- AllAtEnd
  PipelineStyle = "DOUBLE_REG"
  ResetCycles = 17
  MaxRuns = 1
  Reuse = FALSE
SPECIFICATION FairSpec
PROPERTY DoneArrives
