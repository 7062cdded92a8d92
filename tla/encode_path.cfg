SPECIFICATION Spec
CONSTANTS
  Generic = TRUE
  BufferFrames = 2
  MaxBacklog = 3
  MaxDelay = 1
  MaxPts = 4
  MaxStarts = 2
  OpenCanFail = TRUE
  EncodeCanFail = TRUE
INVARIANTS
  TypeOK
  NoLostWakeup
  EncoderNotStranded
  PathInOrder
  PacedByClock
CHECK_DEADLOCK FALSE
