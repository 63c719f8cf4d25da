SPECIFICATION FairSpec
CONSTANTS
  MAXPRI = 4
  MaxWork = 1
INVARIANTS TypeOK RunsPrepared WorkConserved
PROPERTIES BootsUnlessLate ExitAfterCollection
CHECK_DEADLOCK FALSE
