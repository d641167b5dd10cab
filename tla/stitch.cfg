CONSTANTS
  a1 = a1
  a2 = a2
  a3 = a3
  b1 = b1
  b2 = b2
  r1 = r1
  r2 = r2
  r3 = r3
  Slots <- FourSlots
  Anchors = {a1, a2, a3}
  Probes <- CornerProbes
  Bels = {b1, b2}
  BodyBel = b1
  FFsPerSlice = 3
  LagunaRegs <- OneCrossing
SYMMETRY Alike
SPECIFICATION Spec
CHECK_DEADLOCK FALSE
INVARIANTS TypeOK Stitched CellsKept Contained
