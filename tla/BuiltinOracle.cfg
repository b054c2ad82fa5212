SPECIFICATION Spec
CONSTANTS
  Fsps = {f1, f2}
  Parties = {alice}
  SubTypes = {}
  Currencies = {usd}
  Null = Null
  Handlers = {h1, h2}
  Readers = {r1}
  RequestKeys <- AllKeys
  MaxWrites = 3
  Faults = TRUE
INVARIANTS TypeOK AnswersWereTrue DuplicatesBounded
SYMMETRY Symmetry
