SPECIFICATION Spec
CONSTANTS
  None = None
  Commands = {"run", "step", "stop", "mem", "regs", "pc", "disconnect"}
  StopCodes = {"breakpoint", "fault"}
  Patient = TRUE
  MaxCalls = 6
  MaxNacks = 1
INVARIANTS StoppedIsTrue CachedPcIsTrue
PROPERTY Disconnects
CHECK_DEADLOCK FALSE
