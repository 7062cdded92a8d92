SPECIFICATION Spec
CONSTANTS
  StartOrder <- Pipeline
  CloseOrder <- ClosedInOrder
  EncoderThreads = {"video", "audio"}
  Awaited <- AudioIsAac
  ProbeStreams = 2
  ProbeSeconds = 2
  StartCanFail = TRUE
  OpenCanFail = TRUE
  MaxHandles = 2
  MaxProbes = 3
  Base <- VideoAndAudio
  Scte = 1
  VideoOptions <- TypedVideo
  AudioOptions <- TypedOptions
  AskedPids = {60}
  Outputs = {1}
  MinPid = 48
  MaxStreams = 4
  MaxEdits = 2
INVARIANTS
  HandleIsLive
  ConfigurationIsSound

  
CHECK_DEADLOCK FALSE
