SPECIFICATION Spec
CONSTANTS
  Mutators = {0, 2}
  Switchers = {0}
  Receivers = {0, 1}
  Sigs = {"int", "usr1"}
  MaxArrivals = 3
  MaxNest = 2
INVARIANTS TypeOK AtomicBalanced HandlerExclusive NoSignalLost LimitForPending
CHECK_DEADLOCK FALSE
