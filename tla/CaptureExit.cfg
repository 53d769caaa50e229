SPECIFICATION Spec
CONSTANTS
  QueueFrames = 1
  BatchSize = 2
  MaxSessions = 2
  MaxFrames = 3
  MaxDrops = 0
  Faults = {"exit"}
INVARIANT OpenSessionIsCapturing
CHECK_DEADLOCK FALSE
