CONSTANTS
  Procs = {p1, p2}
  UidLevel = {"videos"}
  ItemLevel = {"video_detail"}
  Source <- Sources
  NeedsCredential = {}
  Arguments <- DetailArguments
  Modes = {"incremental"}
  StaleAge = 2
SPECIFICATION Spec
PROPERTIES
  TakeOverOnlyDead
