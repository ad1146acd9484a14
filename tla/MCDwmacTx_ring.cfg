CONSTANTS
  Ntd <- MCNtd
  MaxSend <- MCMaxSendWrap
  MaxStops = 0
  NearFull <- MCNearFull
  Variants = {"generic", "eswin"}
  MaxFatal = 1
SPECIFICATION Spec
INVARIANT TypeOK
INVARIANT NoDoubleFree
INVARIANT FreedOnlyWhenDone
INVARIANT NoTxPanic
INVARIANT TxInOrder
\* The stack sends at most MaxSend Blocks; the driver then rests.
CHECK_DEADLOCK FALSE
