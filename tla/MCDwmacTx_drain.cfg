CONSTANTS
  Ntd <- MCNtd
  MaxSend <- MCMaxSendFull
  MaxStops = 1
  NearFull <- MCNearFull
  Variants = {"generic"}
  MaxFatal = 0
SPECIFICATION Spec
PROPERTY RingSent
CHECK_DEADLOCK FALSE
