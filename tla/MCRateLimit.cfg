CONSTANTS
  r1 = r1
  r2 = r2
  videos = videos
  articles = articles
  video_detail = video_detail
  Requests = {r1, r2}
  Endpoints = {videos, articles, video_detail}
  ItemFanout = {video_detail}
  Orig <- OrigRates
  PauseSeconds = 1
  RecoveryCooldown = 2
  RetryDelay = 0
  MaxTime = 4
SPECIFICATION Spec
INVARIANTS
  TypeOK
  QpsInBounds
  RecoveryPaced
  LimitersFollow
  OwnPauseKept
SYMMETRY Alike
CHECK_DEADLOCK FALSE
