CONSTANTS
  Ntd <- MCNtd
  MaxSend <- MCMaxSendFull
  MaxStops = 0
  NearFull <- MCNearFull
  Variants = {"generic"}
  MaxFatal = 0
SPECIFICATION Spec
PROPERTY TxDrained
CHECK_DEADLOCK FALSE
