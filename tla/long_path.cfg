CONSTANTS
  Cols = 4
  Rows = 8
  NumEdges = 1
  Src <- LongSrc
  Dst <- LongDst
  Width <- LongWidth
  DetourPathLimit = 4
  VerticalCapacity = 2
  SlrCapacity = 2
  HorizontalCapacity = 2
SPECIFICATION RoutingSpec
CHECK_DEADLOCK FALSE
INVARIANT InSideHasSmallerIndex
