CONSTANTS
  a1 = a1
  a2 = a2
  a3 = a3
  a4 = a4
  a5 = a5
  Anchors <- FiveAnchors
  Columns = {3}
  Boundary = 1
  Rows = {0, 59}
  RegsPerSite = 1
  Capacity = 4
SYMMETRY Anonymous
SPECIFICATION Spec
CHECK_DEADLOCK FALSE
INVARIANTS TypeOK OneAnchorPerSLL CrossesInItsDirection Allocation
