SPECIFICATION Spec
CONSTANTS
  N = 3
  Slots = {1}
  numObjptrs = 1
  Forces = {FALSE}
  oneByOne = FALSE
INVARIANT ReachableKept
CHECK_DEADLOCK FALSE
