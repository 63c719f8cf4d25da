SPECIFICATION Spec
CONSTANTS
  N = 4
  Requests = {1, 2}
  Cycles = 3
  ConcurrentCycles = {1}
INVARIANTS TypeOK ListsWellFormed ChunksConserved
PROPERTY HeapSpec
CHECK_DEADLOCK FALSE
