\* The event ring and the cached microframe counter under controller
\* faults, Event Ring Full and one recovery.
CONSTANTS
  Shift <- MCShift
  LowBits <- MCLowBits
  Width <- MCWidth
  MaxT <- MCMaxT
  MaxOther = 2
  MaxFaults = 1
  MaxResets = 1

SPECIFICATION Spec

INVARIANT TypeOK
INVARIANT CachedFrameTracks

PROPERTY EventRefinesFifo
PROPERTY EventsConsumed

\* The controller stops counting at the microframe bound and the driver
\* is then idle, which is not a deadlock.
CHECK_DEADLOCK FALSE
