SPECIFICATION Spec
CONSTANTS
  default = default
  MaxEntries = 60
  MaxOracles = 1
  MaxChanges = 0
  PageSizes <- LargerSizes
  DefaultSize = default
  MaxEntriesPerPage = 100
  Limit = 20
  Faults = FALSE
INVARIANTS PagesCover
CHECK_DEADLOCK FALSE
