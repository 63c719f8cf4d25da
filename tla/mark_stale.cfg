SPECIFICATION Spec
CONSTANTS
  N = 2
  Slots = {1}
  numObjptrs = 1
  Forces = {FALSE}
  oneByOne = FALSE
INVARIANT NoStaleMarks
CHECK_DEADLOCK FALSE
