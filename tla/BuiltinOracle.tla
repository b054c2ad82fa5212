--------------------------- MODULE BuiltinOracle ---------------------------
(***************************************************************************)
(* The built-in oracle (MongoOracleProvider): party associations kept in   *)
(* one MongoDB collection, in front of which every replica of the service  *)
(* keeps the same Redis cache.  All built-in oracles of all replicas share *)
(* the collection and the cache key space, so one instance of this module  *)
(* stands for all of them.                                                 *)
(*                                                                         *)
(* A method is split at its awaits: the server-side effect of one MongoDB  *)
(* or Redis command is one step.  A process is the event handler of a      *)
(* replica (it handles one event at a time and may look up, associate and  *)
(* disassociate) or an HTTP request being served (it only looks up).       *)
(* A command that fails may have taken effect or not before the error (or  *)
(* the crash of the process) is seen; the method then ends with an error,  *)
(* so the failing branch of each step also stands for a crash at its await.*)
(***************************************************************************)
EXTENDS Naturals, FiniteSets

CONSTANTS
  Fsps,        \* participant ids
  Parties,     \* (partyType, partyId) pairs
  SubTypes,    \* party sub types
  Currencies,
  Null,        \* an absent partySubType or currency, an empty cache entry
  Handlers,    \* event handlers, one per replica
  Readers,     \* HTTP look-ups being served
  RequestKeys, \* the keys that requests name
  MaxWrites,   \* bound: how many associate/disassociate calls are started
  Faults       \* whether MongoDB and Redis commands may fail

\* (partyType, partyId, partySubType, currency); also what a cache key spells.
Keys == [party : Parties, sub : SubTypes \cup {Null}, cur : Currencies \cup {Null}]

\* A document of the "builtinOracleParties" collection; a field left out of it is Null.
Assocs == [fsp : Fsps, key : Keys]

\* The keys that leave nothing out.
FullKeys == [party : Parties, sub : SubTypes, cur : Currencies]

\* What a request to associate or disassociate can name.
Requests == [fsp : Fsps, key : RequestKeys]

Procs == Handlers \cup Readers

ASSUME NullAssumption == Null \notin Fsps \cup SubTypes \cup Currencies
ASSUME ProcsAssumption == IsFiniteSet(Handlers) /\ Handlers \cap Readers = {}
ASSUME RequestAssumption == RequestKeys \subseteq Keys
ASSUME BoundAssumption == MaxWrites \in Nat /\ Faults \in BOOLEAN

VARIABLES
  parties,  \* the collection: how many copies of each document it holds
  cache,    \* Redis: the fspId cached under each key, or Null
  pc,       \* the await a process is at, or how its last call ended
  req,      \* the arguments of that call (and the fspId a look-up found)
  ever,     \* history: every document that was ever stored
  writes,   \* how many writing calls were started
  orderly   \* history: whether every state so far was Orderly

\* All but the history of order.
state == <<parties, cache, pc, req, ever, writes>>

vars == <<state, orderly>>

\* A call that ended: returned a value, or threw ("exists", "failed").
Ended == {"ready", "found", "notFound", "stored", "exists", "removed", "failed"}
Awaiting == {"find", "fill", "insert", "put", "purge"}

Idle(p) == pc[p] \in Ended

----------------------------------------------------------------------------
(* Queries.  partySubType and currency are dropped from a query when they  *)
(* are not given, so they then match every document.                       *)

Matches(d, q) ==
  /\ d.party = q.party
  /\ q.sub \in {Null, d.sub}
  /\ q.cur \in {Null, d.cur}

\* The documents the look-up query matches.
Candidates(k) == {a \in Assocs : parties[a] > 0 /\ Matches(a.key, k)}

\* The documents matched by the query of _buildLookupQuery, fspId included.
SameAssociation(a) == {b \in Candidates(a.key) : b.fsp = a.fsp}

----------------------------------------------------------------------------
Init ==
  /\ parties = [a \in Assocs |-> 0]
  /\ cache = [k \in Keys |-> Null]
  /\ pc = [p \in Procs |-> "ready"]
  /\ \E k \in Keys : req = [p \in Procs |-> [fsp |-> Null, key |-> k]]
  /\ ever = {}
  /\ writes = 0
  /\ orderly = TRUE

Goto(p, l) == pc' = [pc EXCEPT ![p] = l]

\* getParticipantFspId, up to the answer of the cache.
LookupHit(p, k) ==
  /\ Idle(p)
  /\ cache[k] # Null
  /\ req' = [req EXCEPT ![p] = [fsp |-> cache[k], key |-> k]]
  /\ Goto(p, "found")
  /\ UNCHANGED <<parties, cache, ever, writes>>

LookupMiss(p, k) ==
  /\ Idle(p)
  /\ \/ cache[k] = Null /\ Goto(p, "find")
     \/ Faults /\ Goto(p, "failed")
  /\ req' = [req EXCEPT ![p] = [fsp |-> Null, key |-> k]]
  /\ UNCHANGED <<parties, cache, ever, writes>>

\* Mutant of Find: goes on although findOne returned no document.
FindUnchecked(p) ==
  /\ pc[p] = "find"
  /\ \/ \E a \in Candidates(req[p].key) : req' = [req EXCEPT ![p].fsp = a.fsp]
     \/ Candidates(req[p].key) = {} /\ UNCHANGED req
  /\ Goto(p, "fill")
  /\ UNCHANGED <<parties, cache, ever, writes>>

\* findOne of a look-up: any matching document may be the one returned.
Find(p) ==
  /\ pc[p] = "find"
  /\ \/ \E a \in Candidates(req[p].key) :
          /\ req' = [req EXCEPT ![p].fsp = a.fsp]
          /\ Goto(p, "fill")
     \/ /\ Candidates(req[p].key) = {}
        /\ Goto(p, "notFound")
        /\ UNCHANGED req
     \/ Faults /\ Goto(p, "failed") /\ UNCHANGED req
  /\ UNCHANGED <<parties, cache, ever, writes>>

SetToCache(p) == [cache EXCEPT ![req[p].key] = req[p].fsp]

\* setex of a look-up that found a document: under the key that was ASKED for.
Fill(p) ==
  /\ pc[p] = "fill"
  /\ \/ cache' = SetToCache(p) /\ Goto(p, "found")
     \/ Faults /\ cache' \in {cache, SetToCache(p)} /\ Goto(p, "failed")
  /\ UNCHANGED <<parties, req, ever, writes>>

----------------------------------------------------------------------------
StartWrite(p, a) ==
  /\ Idle(p)
  /\ writes < MaxWrites
  /\ writes' = writes + 1
  /\ req' = [req EXCEPT ![p] = a]

\* Mutant of Associate: inserts without looking for the association first.
AssociateUnchecked(p, a) ==
  /\ StartWrite(p, a)
  /\ Goto(p, "insert")
  /\ UNCHANGED <<parties, cache, ever>>

\* associateParticipant, up to the answer of its findOne.
Associate(p, a) ==
  /\ StartWrite(p, a)
  /\ \/ SameAssociation(a) # {} /\ Goto(p, "exists")
     \/ SameAssociation(a) = {} /\ Goto(p, "insert")
     \/ Faults /\ Goto(p, "failed")
  /\ UNCHANGED <<parties, cache, ever>>

\* Mutant of Insert: goes on to the cache although insertOne failed.
InsertErrorSwallowed(p) ==
  /\ pc[p] = "insert"
  /\ \/ /\ parties' = [parties EXCEPT ![req[p]] = @ + 1]
        /\ ever' = ever \cup {req[p]}
     \/ Faults /\ UNCHANGED <<parties, ever>>
  /\ Goto(p, "put")
  /\ UNCHANGED <<cache, req, writes>>

\* insertOne: there is no unique index, the document is stored in any case.
Insert(p) ==
  /\ pc[p] = "insert"
  /\ \/ /\ parties' = [parties EXCEPT ![req[p]] = @ + 1]
        /\ ever' = ever \cup {req[p]}
        /\ \/ Goto(p, "put")
           \/ Faults /\ Goto(p, "failed")
     \/ Faults /\ Goto(p, "failed") /\ UNCHANGED <<parties, ever>>
  /\ UNCHANGED <<cache, req, writes>>

Put(p) ==
  /\ pc[p] = "put"
  /\ \/ cache' = SetToCache(p) /\ Goto(p, "stored")
     \/ Faults /\ cache' \in {cache, SetToCache(p)} /\ Goto(p, "failed")
  /\ UNCHANGED <<parties, req, ever, writes>>

\* disassociateParticipant, deleteOne included: one matching document goes,
\* and it is no error when there is none.
Disassociate(p, a) ==
  /\ StartWrite(p, a)
  /\ \/ \E b \in SameAssociation(a) :
          /\ parties' = [parties EXCEPT ![b] = @ - 1]
          /\ \/ Goto(p, "purge")
             \/ Faults /\ Goto(p, "failed")
     \/ /\ SameAssociation(a) = {}
        /\ Goto(p, "purge")
        /\ UNCHANGED parties
     \/ Faults /\ Goto(p, "failed") /\ UNCHANGED parties
  /\ UNCHANGED <<cache, ever>>

DelFromCache(p) == [cache EXCEPT ![req[p].key] = Null]

\* Mutant of Purge: leaves the cache entry behind.
PurgeSkipped(p) ==
  /\ pc[p] = "purge"
  /\ Goto(p, "removed")
  /\ UNCHANGED <<parties, cache, req, ever, writes>>

\* del of the one cache key that spells the arguments of the call.
Purge(p) ==
  /\ pc[p] = "purge"
  /\ \/ cache' = DelFromCache(p) /\ Goto(p, "removed")
     \/ Faults /\ cache' \in {cache, DelFromCache(p)} /\ Goto(p, "failed")
  /\ UNCHANGED <<parties, req, ever, writes>>

\* Mutant of Expire: an entry stored with set instead of setex stays.
ExpireNever(k) ==
  /\ cache[k] # Null
  /\ UNCHANGED vars

\* Redis drops an entry when the duration given to setex is over.
Expire(k) ==
  /\ cache[k] # Null
  /\ cache' = [cache EXCEPT ![k] = Null]
  /\ UNCHANGED <<parties, pc, req, ever, writes>>

----------------------------------------------------------------------------
\* A method goes on after its await.
Continue(p) == Find(p) \/ Fill(p) \/ Insert(p) \/ Put(p) \/ Purge(p)

\* A call that is changing the associations overlaps with nothing but look-ups
\* that the cache answers, no call has failed, and calls leave nothing out.
Orderly ==
  /\ \A p, q \in Procs : p # q /\ pc[p] \in {"insert", "put", "purge"} => Idle(q)
  /\ \A p \in Procs : pc[p] # "failed" /\ (pc[p] = "ready" \/ req[p].key \in FullKeys)

Next ==
  /\ \/ \E p \in Procs, k \in RequestKeys : LookupHit(p, k) \/ LookupMiss(p, k)
     \/ \E p \in Handlers, a \in Requests : Associate(p, a) \/ Disassociate(p, a)
     \/ \E p \in Procs : Continue(p)
     \/ \E k \in Keys : Expire(k)
  /\ orderly' = (orderly /\ Orderly')

Spec == Init /\ [][Next]_vars

\* A command that was sent is answered (or fails), and Redis does expire what
\* setex stored.  Nothing makes requests arrive.
Fairness ==
  /\ \A p \in Procs : WF_state(Continue(p))
  /\ \A k \in Keys : WF_state(Expire(k))

FairSpec == Spec /\ Fairness

----------------------------------------------------------------------------
(* Properties *)

\* Every variable has its type; an awaiting call has the arguments its next
\* command needs.
TypeOK ==
  /\ parties \in [Assocs -> Nat]
  /\ cache \in [Keys -> Fsps \cup {Null}]
  /\ pc \in [Procs -> Ended \cup Awaiting]
  /\ req \in [Procs -> [fsp : Fsps \cup {Null}, key : Keys]]
  /\ ever \in SUBSET Assocs
  /\ writes \in 0..MaxWrites
  /\ orderly \in BOOLEAN
  /\ \A p \in Procs : pc[p] \in {"fill", "insert", "put", "purge"} => req[p] \in Assocs
  /\ \A p \in Readers : pc[p] \notin {"insert", "put", "purge"}

\* Among the associations E there is one of f that a query for k matches.
TrueIn(E, f, k) == \E a \in E : a.fsp = f /\ Matches(a.key, k)

\* What getParticipantFspId answers, and what any process has put in the
\* shared cache, was a true association at some time, whichever commands
\* failed or crossed each other on the way: a failed insert leaves nothing in
\* the cache, and no answer is cached under a key it does not match.
AnswersWereTrue ==
  /\ \A k \in Keys : cache[k] # Null => TrueIn(ever, cache[k], k)
  /\ \A p \in Procs : pc[p] = "found" => TrueIn(ever, req[p].fsp, req[p].key)

\* The processes that saw no association a and are about to insert it.
Inserting(a) == {p \in Handlers : pc[p] = "insert" /\ req[p] = a}

\* associateParticipant checks and then inserts, so racing replicas can store
\* copies of a document; but never more than one per replica, however often
\* the race is run, and so none at all when there is a single replica.
DuplicatesBounded ==
  \A a \in Assocs : parties[a] + Cardinality(Inserting(a)) <= Cardinality(Handlers)

\* The cache agrees with the collection.
Coherent ==
  \A k \in Keys : cache[k] # Null => \E a \in Candidates(k) : a.fsp = cache[k]

\* As long as changes have not overlapped with other calls, nothing has failed
\* and calls have left nothing out, the cache agrees with the collection between
\* calls: staleness has no other cause.
CoherentWhenOrderly == (orderly /\ \A p \in Procs : Idle(p)) => Coherent

\* Once associations stop changing, look-ups stop answering from the past: the
\* cache ends up agreeing with the collection for good, whatever stale entry
\* a late setex or a failed del has left, although look-ups go on for ever.
EventuallyCoherent == <>[]Coherent

\* The associations: what the collection holds, and what the cache still answers
\* while it is being removed.
Held == {a \in Assocs :
  \/ parties[a] > 0
  \/ cache[a.key] = a.fsp /\ \E p \in Procs : pc[p] = "purge" /\ req[p] = a}

\* A call as its caller knows it: what it asks for, or how it ended.
CallOf(p) ==
  [is |-> CASE pc[p] \in {"find", "fill"}  -> "lookUp"
            [] pc[p] \in {"insert", "put"} -> "associate"
            [] pc[p] = "purge"             -> "disassociate"
            [] OTHER                       -> pc[p],
   of |-> IF pc[p] = "fill" THEN [req[p] EXCEPT !.fsp = Null] ELSE req[p]]

\* Collection and cache together, with their awaits in between, are as good as
\* one set of associations as long as callers and servers are orderly: look-ups,
\* cached or not, find what is held and nothing else, and what was removed is
\* never found again.
Store == INSTANCE AssociationStore WITH
  held <- Held, calls <- [p \in Procs |-> CallOf(p)]

ImplementsStore == Store!Spec
=============================================================================
