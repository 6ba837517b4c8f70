CONSTANTS
  Process = {p1, p2}
  NULL = NULL
  Options <- FifoOne
SPECIFICATION Spec
CHECK_DEADLOCK FALSE
PROPERTY TerminatedFinished
