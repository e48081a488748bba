CONSTANTS
  Procs = {p1}
  UidLevel = {"videos"}
  ItemLevel = {"video_detail", "video_subtitle"}
  Source <- Sources
  NeedsCredential = {"video_subtitle"}
  Arguments <- AllArguments
  Modes = {"incremental", "full"}
  StaleAge = 1
SPECIFICATION FairSpec
INVARIANTS
  TypeOK
  FanoutOnCompleteSource
  RunSettlesScope
  SuccessIsBacked
PROPERTIES
  DeadRunTakenOver
