\* Command protocol and recovery, liveness: does every operation a caller
\* starts return?  Two callers, one slot id, three operations, one
\* controller failure.
CONSTANTS
  p1 = p1
  p2 = p2
  NONE = NONE
  Recover = Recover
  Callers <- MCCallers
  NSlots = 1
  MaxCmds = 3
  MaxFaults = 1
SPECIFICATION Spec
PROPERTY CommandsReturn
\* The driver idles once the operation budget is spent or recovery failed.
CHECK_DEADLOCK FALSE
