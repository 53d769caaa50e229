SPECIFICATION FairSpec
CONSTANTS
  QueueFrames = 1
  BatchSize = 2
  MaxSessions = 2
  MaxFrames = 2
  MaxDrops = 1
  Faults <- AllFaults
PROPERTIES
  StopStopsReader
  StopClosesSession
  BatchReachesDatabase
