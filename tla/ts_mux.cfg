SPECIFICATION FairSpec
CONSTANTS
  VideoStream = "video"
  Video <- Reordered
  Audio <- OtherStreams
  MaxBuffered = 2
  AllocCanFail = TRUE
INVARIANTS
  MuxKeepsOrder
  DueWithItsVideo
PROPERTIES
  AllMuxed
  MuxStops
CHECK_DEADLOCK FALSE
