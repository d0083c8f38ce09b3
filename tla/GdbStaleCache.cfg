SPECIFICATION Spec
CONSTANTS
  None = None
  Commands = {"stop", "setregs", "pc"}
  StopCodes = {}
  Patient = TRUE
  MaxCalls = 2
  MaxNacks = 0
INVARIANT CachedPcIsTrue
CHECK_DEADLOCK FALSE
