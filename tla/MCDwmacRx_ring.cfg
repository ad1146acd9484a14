CONSTANTS
  Nrd <- MCNrd
  Nrb <- MCNrb
  MaxPkts <- MCMaxPkts
  MaxFatal <- MCMaxFatal
SPECIFICATION Spec
INVARIANT TypeOK
INVARIANT BuffersConserved
INVARIANT DescriptorOwnership
PROPERTY RxDelivered
\* The wire is bounded by MaxPkts, and the kernel halts on a panic.
CHECK_DEADLOCK FALSE
