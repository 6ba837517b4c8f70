CONSTANTS
  NULL = NULL
  ExitCodes = 256
  Setups <- BothFail
SPECIFICATION Spec
CHECK_DEADLOCK FALSE
PROPERTY ProgramEnds
