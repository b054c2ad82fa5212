SPECIFICATION Spec
CONSTANTS
  Fsps = {f1, f2}
  Parties = {alice}
  SubTypes = {}
  Currencies = {usd}
  Null = Null
  Slots = {s1, s2}
  MaxChanges = 3
  MaxCrashes = 1
  Faults = TRUE
INVARIANTS TypeOK Durable
PROPERTIES NoTakeover ImplementsDirectory
CHECK_DEADLOCK FALSE
