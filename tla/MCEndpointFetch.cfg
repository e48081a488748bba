CONSTANTS
  Strategies = {"page", "cursor", "album"}
  Modes = {"incremental", "full"}
  PageSizes = {1, 2}
  InitItems = 2
  MaxItems = 3
  MaxDeletes = 1
  Glitches = TRUE
  MaxRetries = 1
  MaxPages = 3
SPECIFICATION FairSpec
INVARIANTS
  TypeOK
  SuccessIsComplete
  CursorBehindPages
  SuccessClearsCursor
PROPERTIES
  OnlyFullForgets
  RunEnds
  WritesAsAJob
CHECK_DEADLOCK FALSE
