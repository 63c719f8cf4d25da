SPECIFICATION Spec
CONSTANTS
  MAXPRI = 3
  maxChunksAvailable = 2
  heuristicChunks = 1
  Requests = {1, 2}
  Growths = {0}
  CompiledReservers = {0, 2}
  RuntimeReservers = {}
  SpuriousWakeups = FALSE
INVARIANT ReservationsCovered
CHECK_DEADLOCK FALSE
