CONSTANTS
  Ntd <- MCNtd
  MaxSend <- MCMaxSendWrap
  MaxStops = 1
  NearFull <- MCNearFull
  Variants = {"generic"}
  MaxFatal = 0
SPECIFICATION Spec
INVARIANT NoDoubleFree
\* The stack sends at most MaxSend Blocks; the driver then rests.
CHECK_DEADLOCK FALSE
