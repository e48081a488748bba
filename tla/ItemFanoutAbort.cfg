CONSTANTS
  Items = {a, b}
  Doubled = {}
  Filtered = {}
  Modes = {"incremental"}
  Concurrency = 2
SPECIFICATION Spec
PROPERTIES
  AbortIsFinal
