CONSTANTS
  NULL = NULL
  ExitCodes = 3
  Setups <- AllThatPass
SPECIFICATION Spec
CHECK_DEADLOCK FALSE
INVARIANT TypeOK
PROPERTIES ImplementsHashFiles ProgramEnds
