CONSTANTS
  a = a
  b = b
  Slots <- Chain
  Root <- RootAt
  Kernels = {a, b}
  SlotOf <- EndAndPath
  PipelineStyle = "REG"
  ResetCycles = 15
  MaxRuns = 1
  Reuse = FALSE
SPECIFICATION FairSpec
PROPERTY DoneArrives
