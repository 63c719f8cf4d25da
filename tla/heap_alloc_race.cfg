SPECIFICATION Spec
CONSTANTS
  N = 3
  Requests = {1, 2}
  Cycles = 2
  ConcurrentCycles = {1, 2}
INVARIANT HeldNotFree
CHECK_DEADLOCK FALSE
