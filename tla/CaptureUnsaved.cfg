SPECIFICATION Spec
CONSTANTS
  QueueFrames = 1
  BatchSize = 2
  MaxSessions = 1
  MaxFrames = 3
  MaxDrops = 0
  Faults = {}
INVARIANT UnparsedIsRecoverable
CHECK_DEADLOCK FALSE
