CONSTANTS
  a = a
  b = b
  Slots <- TwoSides
  Root <- RootAt
  Kernels = {a, b}
  SlotOf <- EndAndSide
  PipelineStyle = "REG"
  ResetCycles = 15
  MaxRuns = 2
  Reuse = FALSE
SPECIFICATION Spec
INVARIANTS TypeOK NoEarlyDone Earned
