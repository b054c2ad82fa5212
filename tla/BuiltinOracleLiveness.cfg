SPECIFICATION FairSpec
CONSTANTS
  Fsps = {f1, f2}
  Parties = {alice}
  SubTypes = {personal}
  Currencies = {usd}
  Null = Null
  Handlers = {h1}
  Readers = {r1}
  RequestKeys <- FullOrBareKeys
  MaxWrites = 3
  Faults = TRUE
INVARIANTS CoherentWhenOrderly
PROPERTIES EventuallyCoherent ImplementsStore
