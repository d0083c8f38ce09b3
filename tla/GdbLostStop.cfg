SPECIFICATION Spec
CONSTANTS
  None = None
  Commands = {"run", "step", "stop"}
  StopCodes = {"breakpoint"}
  Patient = TRUE
  MaxCalls = 2
  MaxNacks = 0
INVARIANT RunningIsTrue
CHECK_DEADLOCK FALSE
