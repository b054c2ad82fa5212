SPECIFICATION Spec
CONSTANTS
  Fsps = {f1, f2}
  Parties = {alice}
  SubTypes = {personal, business}
  Currencies = {usd}
  Null = Null
  Slots = {s1}
  MaxChanges = 4
  MaxCrashes = 0
  Faults = FALSE
INVARIANTS DuplicateMeansSame
CHECK_DEADLOCK FALSE
