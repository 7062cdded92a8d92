SPECIFICATION FairSpec
CONSTANTS
  Generic = TRUE
  BufferFrames = 2
  MaxBacklog = 3
  MaxDelay = 1
  MaxPts = 4
  MaxStarts = 1
  OpenCanFail = FALSE
  EncodeCanFail = FALSE
PROPERTIES
  CloseReturns
  HeadLeaves
CHECK_DEADLOCK FALSE
