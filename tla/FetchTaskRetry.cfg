CONSTANTS
  Procs = {p1}
  UidLevel = {"videos"}
  ItemLevel = {"video_detail"}
  Source <- Sources
  NeedsCredential = {}
  Arguments <- DetailArguments
  Modes = {"incremental"}
  StaleAge = 1
SPECIFICATION Spec
PROPERTIES
  FailedIsRetried
