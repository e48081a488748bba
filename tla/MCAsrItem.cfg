SPECIFICATION FairSpec
CONSTANTS
  MaxInputTokens = 12
  TokensPerTick = 2
  SegmentFloor = 2
  MaxSegment = 4
  VadMinSegment = 2
  VadOverlap = 2
  MinSilence = 2
  MinSpeech = 2
  ProbeChars = 3
  MinOverlapChars = 2
  OneSecond = 1
  SplitPiece = 2
  MinPiece = 2
  PlanBound = 7
  TextBound = 4
  Duration <- TwoPages
  SpeechMaps <- BothMaps
  UseVad = TRUE
  SplitEnabled = TRUE
  EmptySkip = 1
  RateAttempts = 2
  MaxAttempts = 2
  Models = {"mimo", "mock"}
  MaxRuns = 2
  MaxCrashes = 1
INVARIANTS
  TypeOK
  TranscriptComplete
  PaidOnce
  OneModel
  PlansCover
  RegionsSound
  SplicesSound
  StitchSound
  SplitsTile
PROPERTIES
  ItemEnds
CHECK_DEADLOCK FALSE
