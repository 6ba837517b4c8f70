CONSTANTS
  Process = {p1, p2, p3, p4}
  NULL = NULL
  Options <- FifoTwo
SPECIFICATION SafeSpec
SYMMETRY Symmetric
CHECK_DEADLOCK FALSE
PROPERTY FifoFillsCores
