CONSTANTS
  Strategies = {"page"}
  Modes = {"incremental", "full"}
  PageSizes = {1}
  InitItems = 2
  MaxItems = 2
  MaxDeletes = 0
  Glitches = FALSE
  MaxRetries = 0
  MaxPages = 4
SPECIFICATION Spec
PROPERTIES
  FullRefetches
CHECK_DEADLOCK FALSE
