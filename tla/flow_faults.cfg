CONSTANTS
  NumSlots = 2
  NumPairs = 1
  NumServers = 2
  Ends <- TwoEnds
  CenterPairs = {1}
  NumSlrs = 1
  SlrOfSlot <- OneSlr
  MainServer = 1
  OptIter = 0
  Jobs = 1
  MaxRetries = 1
  SlowWrites <- DataFiles
  MaxCrashes = 1
  MaxDrops = 1
SPECIFICATION Spec
CHECK_DEADLOCK FALSE
INVARIANTS TypeOK FlagMeansComplete GuardsSufficeBeforeRouting FailureStopsTheFlow RemoteSlotsStitched CleanupAfterDelivery Causality MainKnows
PROPERTY RefinesDataflow
