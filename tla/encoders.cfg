SPECIFICATION Spec
CONSTANTS
  Encoders <- ThreeEncoders
  Kind <- KindOf
  Pair <- PairOf
  BitstreamPairs = {2, 4}
  Block = 2
  CodecFrame <- CodecFrames
  FramesPerPes <- PesFrames
  Threshold <- Thresholds
  Gaps = {0, 2, 4}
  MaxBlocks = 3
  CanFail = TRUE
  Kinds = {"x264", "x265", "avcodec"}
  Durations = {2, 5}
  Lead = 6
  Offset = 40
  Losses = {0, 3}
  Starts = {0, 3}
  Settings = {0, 1}
  MaxPictures = 4
  MaxSessions = 2
  MaxSettings = 2
  Interval = 2
  CardDelay = 2
  MaxParts = 2
  MaxCaptured = 3
  Setups <- AllSetups
INVARIANTS
  AudioAsCaptured
  CodedTimesRight
  PictureKeepsItsData
  SettingTaken
  DecoderAgrees
  HeadersSayPicture
PROPERTIES
  AudioEnds
CHECK_DEADLOCK FALSE
