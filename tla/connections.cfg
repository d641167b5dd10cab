CONSTANTS
  Slots <- Square
  AllSlotPairs <- SquarePairs
  Wires <- FiveWires
  Driver <- MCDriver
  Reader <- MCReader
  Passing <- MCPassing
  Namings <- MCNamings
SPECIFICATION Spec
CHECK_DEADLOCK FALSE
INVARIANTS TypeOK NothingFails PlacedAlike
