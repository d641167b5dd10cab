CONSTANTS
  Cols = 2
  Rows = 4
  NumEdges = 3
  Src <- MCSrc
  Dst <- MCDst
  Width <- MCWidth
  DetourPathLimit = 2
  VerticalCapacity = 2
  SlrCapacity = 3
  HorizontalCapacity = 4
  Tags = 2
  Builds <- MCBuilds
  HlsDepth = 1
SPECIFICATION FairSpec
PROPERTIES Routed Flows IsAStream EverythingArrives
INVARIANTS TypeOK NoSlotTwice DetoursAreBounded SegmentsMeet NoItemLost NoDebt ItemsInOrder
