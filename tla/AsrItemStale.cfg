SPECIFICATION Spec
CONSTANTS
  MaxInputTokens = 12
  TokensPerTick = 2
  SegmentFloor = 2
  MaxSegment = 4
  VadMinSegment = 2
  VadOverlap = 2
  MinSilence = 2
  MinSpeech = 2
  ProbeChars = 3
  MinOverlapChars = 2
  OneSecond = 1
  SplitPiece = 2
  MinPiece = 2
  PlanBound = 7
  TextBound = 4
  Duration <- OnePage
  SpeechMaps <- Talk
  UseVad = TRUE
  SplitEnabled = TRUE
  EmptySkip = 1
  RateAttempts = 2
  MaxAttempts = 2
  Models = {"mimo"}
  MaxRuns = 2
  MaxCrashes = 1
INVARIANT AudioMatchesRange
CHECK_DEADLOCK FALSE
