SPECIFICATION FairSpec
CONSTANTS
  MAXPRI = 3
  maxChunksAvailable = 3
  heuristicChunks = 3
  Requests = {2, 4}
  Growths = {0, 1}
  CompiledReservers = {0, 2}
  RuntimeReservers = {0, 2}
  SpuriousWakeups = TRUE
INVARIANTS TypeOK MarkExcludesCollect SignalNotLost OnlyMainCounted AllocationBacked
PROPERTIES CycleSpec SignalledGCRuns WokenUnlessLate RTSyncLockReleased OverdrawnOnlyByRecheck
CHECK_DEADLOCK FALSE
