CONSTANTS
  Producer = {p1}
  Consumer = {c1, c2}
  Closer = main
  Request = {m1, m2}
  NULL = NULL
SPECIFICATION Spec
CHECK_DEADLOCK FALSE
PROPERTIES PopReturnsWhenFilled PopReturnsAfterShutdown PushReturns
