SPECIFICATION Spec
CONSTANTS
  None = None
  Commands = {"stop", "mem"}
  StopCodes = {}
  Patient = FALSE
  MaxCalls = 2
  MaxNacks = 0
PROPERTY OwnResponse
CHECK_DEADLOCK FALSE
