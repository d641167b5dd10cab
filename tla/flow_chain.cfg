CONSTANTS
  NumSlots = 3
  NumPairs = 2
  NumServers = 2
  Ends <- ChainEnds
  CenterPairs = {1, 2}
  NumSlrs = 3
  SlrOfSlot <- ChainSlrs
  MainServer = 2
  OptIter = 0
  Jobs = 1
  MaxRetries = 2
  SlowWrites = {}
  MaxCrashes = 0
  MaxDrops = 1
SPECIFICATION FairSpec
CHECK_DEADLOCK FALSE
INVARIANTS NoMisread NothingIsLost
PROPERTIES OnlyLocalSlotsFailStitching Finishes
