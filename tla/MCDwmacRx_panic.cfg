CONSTANTS
  Nrd <- MCNrd
  Nrb <- MCNrb
  MaxPkts <- MCMaxPkts
  MaxFatal <- MCMaxFatal
SPECIFICATION Spec
INVARIANT NoRxPanic
\* The wire is bounded by MaxPkts, and the kernel halts on a panic.
CHECK_DEADLOCK FALSE
