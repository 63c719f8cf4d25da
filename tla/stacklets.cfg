SPECIFICATION Spec
CONSTANTS
  K = 3
  maxChunks = 15
  InitialChunks = 4
  MinGrowth = 2
  Grow = 50
  Shrink = 30
  ShrinkThreshold = 50
  GrowThresholds = {70, 10000}
  DataRequests = {5}
  MaxFrames = 3
  MaxDepth = 3
INVARIANTS TypeOK FramesInside ExnStackInnermost UsedThreadsLive
CHECK_DEADLOCK FALSE
