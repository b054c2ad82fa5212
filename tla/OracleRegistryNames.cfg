SPECIFICATION Spec
CONSTANTS
  Replicas = {r1}
  Slots = {s1, s2}
  NewOracles <- GeneratedIdOracles
  ClientIds = {}
  Uuids = {u1, u2}
  Null = Null
  MaxCalls = 2
  MaxCrashes = 0
  Faults = FALSE
  usd = usd
  eur = eur
  url = url
  msisdn = msisdn
  x = x
  y = y
INVARIANTS UniqueNames
