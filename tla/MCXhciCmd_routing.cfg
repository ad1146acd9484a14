\* Command completion routing after a Command Abort: two callers, one
\* slot id, three operations, no controller failure.
CONSTANTS
  p1 = p1
  p2 = p2
  NONE = NONE
  Recover = Recover
  Callers <- MCCallers
  NSlots = 1
  MaxCmds = 3
  MaxFaults = 0
SYMMETRY MCSymmetry
SPECIFICATION Spec
INVARIANT CmdResultOwn
\* The driver idles once the operation budget is spent or recovery failed.
CHECK_DEADLOCK FALSE
