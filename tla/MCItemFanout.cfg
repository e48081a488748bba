CONSTANTS
  Items = {a, b, c}
  Doubled = {b}
  Filtered = {c}
  Modes = {"incremental", "refresh", "full"}
  Concurrency = 2
SPECIFICATION Spec
INVARIANTS
  TypeOK
  Accounting
  SuccessCovers
  RefreshRenews
PROPERTIES
  ProgressMonotone
  WritesAsAJob
