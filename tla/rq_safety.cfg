CONSTANTS
  Producer = {p1, p2}
  Consumer = {c1, c2}
  Closer = main
  Request = {m1, m2, m3}
  NULL = NULL
SPECIFICATION SafeSpec
SYMMETRY Symmetric
CHECK_DEADLOCK FALSE
INVARIANTS TypeOK MutexOK ListOK OwnershipOK NoLostWakeup
PROPERTY ImplementsAtomicQueue
