SPECIFICATION Spec
CONSTANTS
  QueueFrames = 2
  BatchSize = 2
  MaxSessions = 2
  MaxFrames = 3
  MaxDrops = 1
  Faults <- AllFaults
INVARIANTS
  TypeOK
  FramesAccounted
  PutNeverBlocks
  ObservationsConserved
  RecordedInOrder
  ClosedMeansDrained
  FailureIsReported
PROPERTIES
  LedgerSpec
