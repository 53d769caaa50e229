SPECIFICATION Spec
CONSTANTS
  live = live
  import = import
  Parsers = {live, import}
  Reads <- MCReads
  Targets = {"all", "single"}
  PendingMax = 1
  MaxRouteDepth = 8
  Frames <- MCFrames
INVARIANTS
  PendingBounded
  RaisesOnlyWhenShared
  CutSaysNoMore

PROPERTIES
  PairedWithItsRequest
