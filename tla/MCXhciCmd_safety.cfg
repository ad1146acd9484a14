\* Command protocol and recovery, safety: two callers, one slot id, four
\* operations, one controller failure.
CONSTANTS
  p1 = p1
  p2 = p2
  NONE = NONE
  Recover = Recover
  Callers <- MCCallers
  NSlots = 1
  MaxCmds = 4
  MaxFaults = 1
SYMMETRY MCSymmetry
SPECIFICATION Spec
INVARIANT AtMostOneCommand
INVARIANT SlotTableEnabled
INVARIANT RecoveryDrains
\* The driver idles once the operation budget is spent or recovery failed.
CHECK_DEADLOCK FALSE
