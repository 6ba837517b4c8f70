CONSTANTS
  a = a
  m1 = m1
  m2 = m2
  Client = {a}
  Message = {m1, m2}
  Author <- AuthorIsA
  Quitter = {a}
  MaxQueries = 2
  MaxOrphans = 1
  NULL = NULL
SPECIFICATION Spec
CHECK_DEADLOCK FALSE
INVARIANTS TypeOK AtMostOnce AuthorOrder DeletedUnused
PROPERTIES TakenOnlyByTimeouts ShutdownEnds
