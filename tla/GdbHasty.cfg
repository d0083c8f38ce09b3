SPECIFICATION Spec
CONSTANTS
  None = None
  Commands = {"run", "step", "restart", "stop", "mem", "regs", "setregs", "pc", "disconnect"}
  StopCodes = {"breakpoint", "fault"}
  Patient = FALSE
  MaxCalls = 3
  MaxNacks = 1
INVARIANTS TypeOK OneAckOutstanding EveryResponseAwaited ReceiverLives
PROPERTY CallsReturn
CHECK_DEADLOCK FALSE
