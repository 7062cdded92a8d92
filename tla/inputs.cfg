SPECIFICATION Spec
CONSTANTS
  MaxInjected = 2
  SdiMaxDelay = 2
  LosExit = 4
  MissingLimit = 1
  Window = 3
  Sd = TRUE
  Skips = {0, 1}
  Troubles = {"anc", "frame", "vbi", "picture", "queue", "ttx"}
  MaxTroubles = 1
  CallbacksTo = 5
  WaitOrder <- TwoThreads
  ProbeThreads = TRUE
  CanBreak = {"video"}
  CanReturn = {"audio"}
  Kinds = {"ndi", "dektec", "linsys", "v4l2"}
  Starts = {0, 3, 40}
  Period = 2
  Scale = 3
  IntRange = 16
  MomentsTo = 6
  MaxStarts = 2
  Buffers = 4
  InterruptsTo = 12
  Wrap = 8
  Step = 3
  FirstTime = 5
  Patterns <- Reorderings
  MaxSei = 2
  PicturesTo = 6
  MaxMade = 4
  Modes = {"ntsc", "p2398", "a", "b"}
  Others = {"x"}
  Ntsc = "ntsc"
  P2398 = "p2398"
  Enough = 1
  MaxChanges = 3
  MaxProbes = 2
INVARIANTS
  DecklinkSound
  FormatAsProbed
  FreedWhenAlone
  ClocksInStep
  RingDelivers
  SeiOnce
PROPERTIES
  TimesAdvance
  ProbeFinds
  InputCloses
CHECK_DEADLOCK FALSE
