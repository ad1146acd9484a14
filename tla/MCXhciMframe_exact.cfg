\* µframe() against the spec's "update the cached microframe counter".
CONSTANTS
  Shift <- MCShift
  LowBits <- MCLowBits
  Width <- MCWidth
  MaxT <- MCMaxT
  MaxOther = 0
  MaxFaults = 0
  MaxResets = 0

SPECIFICATION MSpec

PROPERTY MicroframeExact

CHECK_DEADLOCK FALSE
