SPECIFICATION FairSpec
CONSTANTS
  N = 2
  Slots = {1}
  numObjptrs = 1
  Forces = {FALSE, TRUE}
  oneByOne = FALSE
INVARIANTS TypeOK KeptWhileBlocked TriColour FloatingGarbageBounded
PROPERTY CollectionFinishes
ACTION_CONSTRAINT UpToFirstLoss
CHECK_DEADLOCK FALSE
