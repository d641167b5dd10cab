CONSTANTS
  NumSlots = 2
  NumPairs = 1
  NumServers = 1
  Ends <- TwoEnds
  CenterPairs = {1}
  NumSlrs = 1
  SlrOfSlot <- OneSlr
  MainServer = 1
  OptIter = 0
  Jobs = 1
  MaxRetries = 2
  SlowWrites = {"opt_dcp"}
  MaxCrashes = 0
  MaxDrops = 0
SPECIFICATION Spec
CHECK_DEADLOCK FALSE
INVARIANT RoutingOpensFinishedCheckpoint
