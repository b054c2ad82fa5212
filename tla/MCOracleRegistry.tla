-------------------------- MODULE MCOracleRegistry --------------------------
(* Instances of OracleRegistry for TLC. *)
EXTENDS OracleRegistry, TLC

CONSTANTS usd, eur, url, msisdn, x, y

Dto(id, name, currency, type, endpoint) ==
  [id |-> id, name |-> name, partyType |-> msisdn, currency |-> currency,
   type |-> type, endpoint |-> endpoint]

\* Requests that let the service choose the id: a built-in oracle (two
\* such requests want the same name) and a remote one without an endpoint.
GeneratedIdOracles ==
  {Dto(Null, "main", usd, "builtin", Null), Dto(Null, "remote", eur, "remote-http", Null)}

\* Requests that bring ids: two oracles under one id, two under one name.
ClientIdOracles ==
  {Dto(x, "main", usd, "builtin", url), Dto(x, "remote", eur, "remote-http", url),
   Dto(y, "main", eur, "remote-http", Null), Dto(Null, "main", Null, "remote-http", url)}

Symmetry == Permutations(Replicas) \cup Permutations(Uuids)
=============================================================================
