SPECIFICATION FairSpec
CONSTANTS
  NumOutputs = 2
  PayloadPackets = 2
  Vbv = 1
  FifoLimit = 3
  AllocCanFail = FALSE
  Stuck = {1}
  MaxBlock = 2
  MaxPackets = 4
  MaxDrops = 1
PROPERTIES
  PacketsServed
  CloseReturns
CHECK_DEADLOCK FALSE
