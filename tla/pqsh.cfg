CONSTANTS
  Process = {p1, p2, p3}
  NULL = NULL
  Options <- AllThatPass
SPECIFICATION Spec
CHECK_DEADLOCK FALSE
INVARIANTS TypeOK QueuesOK CoresBound StoppedWait PauseSucceeds StartOrder FifoReapedCounted
PROPERTIES OneChild FifoFillsCoresAtFirst EveryProcessGetsATurn
