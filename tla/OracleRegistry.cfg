SPECIFICATION Spec
CONSTANTS
  Replicas = {r1, r2}
  Slots = {s1}
  NewOracles <- GeneratedIdOracles
  ClientIds = {}
  Uuids = {u1, u2, u3}
  Null = Null
  MaxCalls = 4
  MaxCrashes = 1
  Faults = TRUE
  usd = usd
  eur = eur
  url = url
  msisdn = msisdn
  x = x
  y = y
INVARIANTS TypeOK OwedServed DuplicateNamesBounded
SYMMETRY Symmetry
