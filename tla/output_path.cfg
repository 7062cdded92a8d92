SPECIFICATION Spec
CONSTANTS
  NumOutputs = 2
  PayloadPackets = 2
  Vbv = 1
  FifoLimit = 4
  AllocCanFail = TRUE
  Stuck = {}
  MaxBlock = 2
  MaxPackets = 6
  MaxDrops = 2
INVARIANTS
  NoLostWakeup
  PayloadsSame
PROPERTIES
  ImplementsDelivery
CHECK_DEADLOCK FALSE
