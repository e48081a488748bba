CONSTANTS
  r1 = r1
  r2 = r2
  videos = videos
  articles = articles
  video_detail = video_detail
  Requests = {r1, r2}
  Endpoints = {videos}
  ItemFanout = {}
  Orig <- OrigRates
  PauseSeconds = 2
  RecoveryCooldown = 4
  RetryDelay = 0
  MaxTime = 4
SPECIFICATION Spec
PROPERTIES
  PauseRespected
CHECK_DEADLOCK FALSE
