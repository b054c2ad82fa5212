--------------------------- MODULE OracleRegistry ---------------------------
(***************************************************************************)
(* The registry of oracles: the collection kept by MongoOracleFinder,      *)
(* shared by all replicas of the service, and the list of oracle adapters  *)
(* each replica's aggregate keeps in memory.  The list is filled from the  *)
(* collection when the replica starts and then follows only the calls to   *)
(* addOracle and removeOracle that this very replica serves.               *)
(*                                                                         *)
(* Calls are HTTP requests (addOracle, removeOracle) and look-ups          *)
(* (_getOracleAdapter); a replica serves several at a time, and they       *)
(* interleave at their awaits.  A replica may crash at any point.          *)
(***************************************************************************)
EXTENDS Naturals, FiniteSets

CONSTANTS
  Replicas,
  Slots,       \* calls a replica serves at a time
  NewOracles,  \* the AddOracleDTOs of addOracle requests
  ClientIds,   \* ids that requests may bring
  Uuids,       \* what randomUUID returns, each one once
  Null,        \* an absent id, currency or endpoint
  MaxCalls,    \* bound: addOracle and removeOracle calls
  MaxCrashes,  \* bound: crashes (a start that fails for its oracles is none)
  Faults       \* whether MongoDB commands and connections may fail

Calls == Replicas \X Slots
Ids == ClientIds \cup Uuids
Names == {o.name : o \in NewOracles}
PartyTypes == {o.partyType : o \in NewOracles}
Currencies == {o.currency : o \in NewOracles}
Endpoints == {o.endpoint : o \in NewOracles} \cup {Null}

\* A document of the "oracles" collection; n tells documents apart
\* (MongoDB's own _id).  An adapter is named by the document it is built from.
Oracles == [n : 1..MaxCalls, id : Ids, name : Names, partyType : PartyTypes,
            currency : Currencies, type : {"builtin", "remote-http"}, endpoint : Endpoints]

ASSUME OracleAssumption ==
  \A o \in NewOracles : o.id \in ClientIds \cup {Null} /\ o.type \in {"builtin", "remote-http"}
ASSUME IdAssumption == ClientIds \cap Uuids = {} /\ Null \notin Ids
ASSUME FiniteAssumption == IsFiniteSet(Replicas) /\ IsFiniteSet(Slots)
ASSUME BoundAssumption == MaxCalls \in Nat /\ MaxCrashes \in Nat /\ Faults \in BOOLEAN

VARIABLES
  oracles,   \* the collection
  adapters,  \* _oracleProvidersAdapters of each replica
  status,    \* of a replica: "down", "starting" or "up"
  loading,   \* the oracles a starting replica has still to initialise
  pc,        \* the await a call is at, or how the last call of the slot ended
  arg,       \* the oracle a call adds, removes or looked up
  issued,    \* the UUIDs used so far
  owed,      \* history: ids of the oracles a replica has to serve, because it reported
             \* them as added or found them when it started
  calls,     \* how many calls changed or tried to change the registry
  crashes

vars == <<oracles, adapters, status, loading, pc, arg, issued, owed, calls, crashes>>

Ended == {"ready", "duplicate", "added", "removed", "notFound", "failed", "resolved", "noAdapter"}
Awaiting == {"byName", "recheck", "insert", "init", "delete", "filter", "pick"}

HasId(S, i) == \E d \in S : d.id = i

\* Whether init can ever succeed: HttpOracleProvider.init throws when there is
\* no endpoint.  That of a built-in oracle throws while MongoDB or Redis cannot
\* be reached; this passes, and is among the failures of Fail and StartFails.
Initialisable(d) == d.type = "builtin" \/ d.endpoint # Null

----------------------------------------------------------------------------
Init ==
  /\ oracles = {}
  /\ adapters = [r \in Replicas |-> {}]
  /\ status = [r \in Replicas |-> "down"]
  /\ loading = [r \in Replicas |-> {}]
  /\ pc = [c \in Calls |-> "ready"]
  /\ arg = [c \in Calls |-> Null]
  /\ issued = {}
  /\ owed = [r \in Replicas |-> {}]
  /\ calls = 0
  /\ crashes = 0

Goto(c, l) == pc' = [pc EXCEPT ![c] = l]

\* A call begins in a free slot of a running replica.
Begins(c) == status[c[1]] = "up" /\ pc[c] \in Ended

BeginsChange(c) == Begins(c) /\ calls < MaxCalls /\ calls' = calls + 1

(* addOracle *)

\* The oracle a request asks for: a built-in one has no endpoint.
NewOracle(o, i) ==
  [n |-> calls + 1, id |-> i, name |-> o.name, partyType |-> o.partyType,
   currency |-> o.currency, type |-> o.type,
   endpoint |-> IF o.type = "builtin" THEN Null ELSE o.endpoint]

\* Up to getOracleById when the request brings an id, which must be unused;
\* otherwise up to the choice of a new one.
AddOracle(c, o) ==
  /\ BeginsChange(c)
  /\ \/ /\ o.id # Null
        /\ Goto(c, IF HasId(oracles, o.id) THEN "duplicate" ELSE "byName")
        /\ arg' = [arg EXCEPT ![c] = NewOracle(o, o.id)]
        /\ UNCHANGED issued
     \/ /\ o.id = Null
        /\ \E u \in Uuids \ issued :
             /\ arg' = [arg EXCEPT ![c] = NewOracle(o, u)]
             /\ issued' = issued \cup {u}
        /\ Goto(c, "byName")
  /\ UNCHANGED <<oracles, adapters, status, loading, owed, crashes>>

\* Mutant of CheckName: the name is not looked up.
CheckNameSkipped(c) ==
  /\ pc[c] = "byName"
  /\ Goto(c, "recheck")
  /\ UNCHANGED <<oracles, adapters, status, loading, arg, issued, owed, calls, crashes>>

\* getOracleByName, then the factory creates the adapter.
CheckName(c) ==
  /\ pc[c] = "byName"
  /\ Goto(c, IF \E d \in oracles : d.name = arg[c].name THEN "duplicate" ELSE "recheck")
  /\ UNCHANGED <<oracles, adapters, status, loading, arg, issued, owed, calls, crashes>>

\* The finder's own addOracle first looks for an identical document.
Identical(d, e) ==
  /\ d.id = e.id /\ d.name = e.name /\ d.partyType = e.partyType
  /\ d.type = e.type /\ d.endpoint = e.endpoint

Recheck(c) ==
  /\ pc[c] = "recheck"
  /\ Goto(c, IF \E d \in oracles : Identical(d, arg[c]) THEN "failed" ELSE "insert")
  /\ UNCHANGED <<oracles, adapters, status, loading, arg, issued, owed, calls, crashes>>

\* insertOne; an error may be seen although the document was stored.
InsertOracle(c) ==
  /\ pc[c] = "insert"
  /\ oracles' = oracles \cup {arg[c]}
  /\ \/ Goto(c, "init")
     \/ Faults /\ Goto(c, "failed")
  /\ UNCHANGED <<adapters, status, loading, arg, issued, owed, calls, crashes>>

\* The adapter is initialised after its oracle was stored, and only then
\* joins the list; when that fails the document stays.
InitAdapter(c) ==
  /\ pc[c] = "init"
  /\ \/ /\ Initialisable(arg[c])
        /\ adapters' = [adapters EXCEPT ![c[1]] = @ \cup {arg[c]}]
        /\ owed' = [owed EXCEPT ![c[1]] = @ \cup {arg[c].id}]
        /\ Goto(c, "added")
     \/ /\ ~Initialisable(arg[c])
        /\ Goto(c, "failed")
        /\ UNCHANGED <<adapters, owed>>
  /\ UNCHANGED <<oracles, status, loading, arg, issued, calls, crashes>>

----------------------------------------------------------------------------
(* removeOracle *)

RemoveOracle(c, i) ==
  /\ BeginsChange(c)
  /\ \/ \E d \in oracles :
          d.id = i /\ arg' = [arg EXCEPT ![c] = d] /\ Goto(c, "delete")
     \/ ~HasId(oracles, i) /\ Goto(c, "notFound") /\ UNCHANGED arg
  /\ UNCHANGED <<oracles, adapters, status, loading, issued, owed, crashes>>

\* Mutant of DeleteOracle: goes on to the list although deleteOne failed.
DeleteOracleErrorSwallowed(c) ==
  /\ pc[c] = "delete"
  /\ \/ \E d \in oracles : d.id = arg[c].id /\ oracles' = oracles \ {d}
     \/ UNCHANGED oracles
  /\ Goto(c, "filter")
  /\ UNCHANGED <<adapters, status, loading, arg, issued, owed, calls, crashes>>

\* deleteOne takes one document with the id, and must find one.
DeleteOracle(c) ==
  /\ pc[c] = "delete"
  /\ \/ \E d \in oracles :
          /\ d.id = arg[c].id
          /\ oracles' = oracles \ {d}
          /\ \/ Goto(c, "filter")
             \/ Faults /\ Goto(c, "failed")
     \/ /\ ~HasId(oracles, arg[c].id)
        /\ Goto(c, "failed")
        /\ UNCHANGED oracles
  /\ UNCHANGED <<adapters, status, loading, arg, issued, owed, calls, crashes>>

\* Mutant of FilterAdapters: the list is left as it was.
FilterAdaptersSkipped(c) ==
  /\ pc[c] = "filter"
  /\ Goto(c, "removed")
  /\ UNCHANGED <<oracles, adapters, status, loading, arg, issued, owed, calls, crashes>>

\* Only now the adapters with the id leave this replica's list.
FilterAdapters(c) ==
  /\ pc[c] = "filter"
  /\ adapters' = [adapters EXCEPT ![c[1]] = {a \in @ : a.id # arg[c].id}]
  /\ Goto(c, "removed")
  /\ UNCHANGED <<oracles, status, loading, arg, issued, owed, calls, crashes>>

----------------------------------------------------------------------------
(* _getOracleAdapter *)

\* getOracle: one of the party type and the currency asked for, else one of
\* the party type whatever its currency.  (An oracle without currency and a
\* request without one match here; in the code, only if both are null or both
\* undefined.)
ForPartyType(t) == {d \in oracles : d.partyType = t}
ForCurrency(t, cur) == {d \in ForPartyType(t) : d.currency = cur}
GetOracle(t, cur) == IF ForCurrency(t, cur) # {} THEN ForCurrency(t, cur) ELSE ForPartyType(t)

ResolveAdapter(c, t, cur) ==
  /\ Begins(c)
  /\ \/ \E d \in GetOracle(t, cur) : arg' = [arg EXCEPT ![c] = d] /\ Goto(c, "pick")
     \/ GetOracle(t, cur) = {} /\ Goto(c, "notFound") /\ UNCHANGED arg
  /\ UNCHANGED <<oracles, adapters, status, loading, issued, owed, calls, crashes>>

\* The adapter is looked up in this replica's list after the await.
PickAdapter(c) ==
  /\ pc[c] = "pick"
  /\ Goto(c, IF HasId(adapters[c[1]], arg[c].id) THEN "resolved" ELSE "noAdapter")
  /\ UNCHANGED <<oracles, adapters, status, loading, arg, issued, owed, calls, crashes>>

\* A command fails without effect, or init does not reach a server: the call
\* ends with an error.
Fail(c) ==
  /\ Faults
  /\ pc[c] \in Awaiting \ {"filter", "pick"}
  /\ Goto(c, "failed")
  /\ UNCHANGED <<oracles, adapters, status, loading, arg, issued, owed, calls, crashes>>

----------------------------------------------------------------------------
(* Replicas: the aggregate's init, crashes *)

\* getAllOracles
Start(r) ==
  /\ status[r] = "down"
  /\ status' = [status EXCEPT ![r] = "starting"]
  /\ loading' = [loading EXCEPT ![r] = oracles]
  /\ owed' = [owed EXCEPT ![r] = @ \cup {d.id : d \in oracles}]
  /\ UNCHANGED <<oracles, adapters, pc, arg, issued, calls, crashes>>

\* Mutant of LoadOracle: the loop waits for something that only built-in
\* oracles do.
LoadOracleBuiltin(r) ==
  /\ status[r] = "starting"
  /\ \E d \in loading[r] :
       /\ d.type = "builtin"
       /\ adapters' = [adapters EXCEPT ![r] = @ \cup {d}]
       /\ loading' = [loading EXCEPT ![r] = @ \ {d}]
  /\ UNCHANGED <<oracles, status, pc, arg, issued, owed, calls, crashes>>

\* One round of the loop: create, init, push.
LoadOracle(r) ==
  /\ status[r] = "starting"
  /\ \E d \in loading[r] :
       /\ Initialisable(d)
       /\ adapters' = [adapters EXCEPT ![r] = @ \cup {d}]
       /\ loading' = [loading EXCEPT ![r] = @ \ {d}]
  /\ UNCHANGED <<oracles, status, pc, arg, issued, owed, calls, crashes>>

\* The loop is over: the consumer and the HTTP server start.
Started(r) ==
  /\ status[r] = "starting"
  /\ loading[r] = {}
  /\ status' = [status EXCEPT ![r] = "up"]
  /\ UNCHANGED <<oracles, adapters, loading, pc, arg, issued, owed, calls, crashes>>

\* Mutant of Stops: calls in progress outlive the process.
StopsKeepingCalls(r) ==
  /\ status' = [status EXCEPT ![r] = "down"]
  /\ adapters' = [adapters EXCEPT ![r] = {}]
  /\ loading' = [loading EXCEPT ![r] = {}]
  /\ UNCHANGED <<oracles, pc, arg, issued, owed, calls>>

\* The process ends: everything in memory is lost, its calls with it.
Stops(r) ==
  /\ status' = [status EXCEPT ![r] = "down"]
  /\ adapters' = [adapters EXCEPT ![r] = {}]
  /\ loading' = [loading EXCEPT ![r] = {}]
  /\ pc' = [c \in Calls |-> IF c[1] = r /\ pc[c] \in Awaiting THEN "failed" ELSE pc[c]]
  /\ UNCHANGED <<oracles, arg, issued, owed, calls>>

\* An oracle that cannot be initialised, or whose server is not reached, makes
\* init, and so the start, fail.
StartFails(r) ==
  /\ status[r] = "starting"
  /\ \E d \in loading[r] : Faults \/ ~Initialisable(d)
  /\ Stops(r)
  /\ UNCHANGED crashes

Crash(r) ==
  /\ status[r] # "down"
  /\ crashes < MaxCrashes
  /\ crashes' = crashes + 1
  /\ Stops(r)

----------------------------------------------------------------------------
Continue(c) ==
  \/ CheckName(c) \/ Recheck(c) \/ InsertOracle(c) \/ InitAdapter(c)
  \/ DeleteOracle(c) \/ FilterAdapters(c) \/ PickAdapter(c) \/ Fail(c)

Boot(r) == Start(r) \/ LoadOracle(r) \/ Started(r) \/ StartFails(r)

Next ==
  \/ \E c \in Calls, o \in NewOracles : AddOracle(c, o)
  \/ \E c \in Calls, i \in Ids : RemoveOracle(c, i)
  \/ \E c \in Calls, t \in PartyTypes, cur \in Currencies : ResolveAdapter(c, t, cur)
  \/ \E c \in Calls : Continue(c)
  \/ \E r \in Replicas : Boot(r) \/ Crash(r)

Spec == Init /\ [][Next]_vars

\* A replica that is down is restarted, a replica's own steps are not stopped
\* for ever, and a command that was sent is answered or fails.
Fairness ==
  /\ \A c \in Calls : WF_vars(Continue(c))
  /\ \A r \in Replicas : WF_vars(Boot(r))

FairSpec == Spec /\ Fairness

----------------------------------------------------------------------------
(* Properties *)

\* Every variable has its type; a call in progress has its oracle and runs on
\* a replica that is up; nothing is left to load unless the replica starts.
TypeOK ==
  /\ oracles \in SUBSET Oracles
  /\ adapters \in [Replicas -> SUBSET Oracles]
  /\ status \in [Replicas -> {"down", "starting", "up"}]
  /\ loading \in [Replicas -> SUBSET Oracles]
  /\ pc \in [Calls -> Ended \cup Awaiting]
  /\ arg \in [Calls -> Oracles \cup {Null}]
  /\ issued \in SUBSET Uuids
  /\ owed \in [Replicas -> SUBSET Ids]
  /\ calls \in 0..MaxCalls
  /\ crashes \in 0..MaxCrashes
  /\ \A c \in Calls : pc[c] \in Awaiting => arg[c] \in Oracles /\ status[c[1]] = "up"

\* Where the service chooses the ids, an oracle that addOracle reported as
\* added at a replica, or that was registered when the replica started, is
\* served by it, through the adapter built from that very document, for as long
\* as the oracle is registered: across concurrent additions and removals at any
\* replica, failing commands and restarts.  So the oracles for which a replica
\* has no adapter are those that were added elsewhere since it started.  (With
\* ids brought by requests a removal can take the adapter of an oracle added
\* again under its id.)
OwedServed ==
  \A r \in Replicas : status[r] = "up" =>
    \A d \in oracles : d.id \in owed[r] => d \in adapters[r]

NamedInStore(m) == {d \in oracles : d.name = m}
AddingNamed(m) == {c \in Calls : pc[c] \in {"recheck", "insert"} /\ arg[c].name = m}

\* addOracle checks the name and inserts later, so concurrent requests can
\* register one name several times; but never more often than calls can be in
\* progress, and so only once where calls do not overlap.
DuplicateNamesBounded ==
  \A m \in Names :
    Cardinality(NamedInStore(m)) + Cardinality(AddingNamed(m)) <= Cardinality(Calls)

\* With one replica, one call at a time and no failing command, ids and names
\* are unique and the replica's adapters are exactly those of the registered
\* oracles that can be initialised, whenever no call is in progress; a crash
\* in the middle of a call does not change that.
InSync ==
  (\A c \in Calls : pc[c] \in Ended) =>
    /\ \A d, e \in oracles : d.id = e.id \/ d.name = e.name => d = e
    /\ \A r \in Replicas : status[r] = "up" => adapters[r] = {d \in oracles : Initialisable(d)}

\* After a crash a replica comes up again, again and again, unless an oracle
\* is registered that cannot be initialised: addOracle stores an oracle before
\* its adapter is initialised, and such a document makes every start fail.
Recovers ==
  \A r \in Replicas : []<>(status[r] = "up" \/ \E d \in oracles : ~Initialisable(d))

\* An oracle's name is registered once ("shouldnt be able to add oracle with
\* same name").
UniqueNames == \A d, e \in oracles : d.name = e.name => d = e
=============================================================================
