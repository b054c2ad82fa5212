SPECIFICATION FairSpec
CONSTANTS
  Replicas = {r1}
  Slots = {s1}
  NewOracles <- ClientIdOracles
  ClientIds = {x, y}
  Uuids = {u1, u2}
  Null = Null
  MaxCalls = 5
  MaxCrashes = 2
  Faults = FALSE
  usd = usd
  eur = eur
  url = url
  msisdn = msisdn
  x = x
  y = y
INVARIANTS InSync
PROPERTIES Recovers
