\* The rings fed by the bulk, ctl and iso paths of the driver; Init picks
\* which endpoint type owns the ring.
CONSTANTS
  Shift <- MCShift
  MaxWp <- MCMaxWp
  EpTypes = {"bulk", "ctl", "iso"}

SPECIFICATION Spec

INVARIANT TypeOK
INVARIANT CompletionRouted

PROPERTY RingRefinesFifo
PROPERTY CallerReturns

\* The driver is reactive: once no caller issues a transfer (here, once the
\* cursor bound is reached) the ring is idle, which is not a deadlock.
CHECK_DEADLOCK FALSE
