SPECIFICATION Spec
CONSTANTS
  default = default
  MaxEntries = 6
  MaxOracles = 2
  MaxChanges = 3
  PageSizes <- Sizes
  DefaultSize = default
  MaxEntriesPerPage = 4
  Limit = 2
  Faults = TRUE
INVARIANTS TypeOK MissedBounded PagesNonEmpty
CHECK_DEADLOCK FALSE
