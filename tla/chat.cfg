CONSTANTS
  MaxHistory = 5
  Rows = 4
  Wrap = 64
  MaxMessages = 24
  NULL = NULL
SPECIFICATION Spec
INVARIANTS TypeOK WindowOK
