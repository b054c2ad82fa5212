------------------------ MODULE BuiltinOracleProofs ------------------------
(***************************************************************************)
(* What BuiltinOracle guarantees for any number of participants, keys,     *)
(* replicas and writes.                                                    *)
(***************************************************************************)
EXTENDS BuiltinOracle, FiniteSetTheorems, TLAPS

\* Requests name associations.
LEMMA RequestsAreAssocs == Requests \subseteq Assocs
BY RequestAssumption DEF Requests, Assocs

----------------------------------------------------------------------------
\* The collection, the cache and the calls in progress keep their types, and a
\* call that is about to store, cache or purge an association has all of it.
THEOREM TypeCorrect == Spec => []TypeOK
<1>1. Init => TypeOK
  BY BoundAssumption DEF Init, TypeOK, Ended, Awaiting, Assocs, Procs
<1>2. TypeOK /\ [Next]_vars => TypeOK'
  <2> SUFFICES ASSUME TypeOK, [Next]_vars PROVE TypeOK'
    OBVIOUS
  <2>0. orderly' \in BOOLEAN
    BY DEF Next, vars, TypeOK
  <2>1. ASSUME NEW p \in Procs, NEW k \in RequestKeys, LookupHit(p, k) PROVE TypeOK'
    BY <2>0, <2>1, RequestAssumption DEF TypeOK, Procs, LookupHit, Goto, Idle, Ended, Awaiting
  <2>2. ASSUME NEW p \in Procs, NEW k \in RequestKeys, LookupMiss(p, k) PROVE TypeOK'
    BY <2>0, <2>2, RequestAssumption, BoundAssumption DEF TypeOK, Procs, LookupMiss, Goto, Idle, Ended, Awaiting
  <2>3. ASSUME NEW p \in Handlers, NEW a \in Requests, Associate(p, a) PROVE TypeOK'
    BY <2>0, <2>3, BoundAssumption, ProcsAssumption, RequestsAreAssocs
    DEF TypeOK, Associate, StartWrite, Goto, Idle, Ended, Awaiting, Procs, Assocs
  <2>4. ASSUME NEW p \in Handlers, NEW a \in Requests, Disassociate(p, a) PROVE TypeOK'
    <3>1. parties' \in [Assocs -> Nat]
      BY <2>4 DEF TypeOK, Disassociate, SameAssociation, Candidates
    <3>2. pc' \in [Procs -> Ended \cup Awaiting] /\ pc'[p] \in {"purge", "failed"}
          /\ \A q \in Procs \ {p} : pc'[q] = pc[q]
      BY <2>4 DEF TypeOK, Disassociate, Goto, Ended, Awaiting, Procs
    <3>3. writes' \in 0..MaxWrites
      BY <2>0, <2>4, BoundAssumption DEF TypeOK, Disassociate, StartWrite
    <3>4. a \in Assocs /\ a \in [fsp : Fsps \cup {Null}, key : Keys] /\ p \notin Readers
      BY RequestsAreAssocs, ProcsAssumption DEF Assocs
    <3>5. req' = [req EXCEPT ![p] = a] /\ UNCHANGED <<cache, ever>>
      BY <2>0, <2>4 DEF Disassociate, StartWrite
    <3>. QED  BY <2>0, <3>1, <3>2, <3>3, <3>4, <3>5 DEF TypeOK, Procs
  <2>5. ASSUME NEW p \in Procs, Find(p) PROVE TypeOK'
    BY <2>0, <2>5, BoundAssumption DEF TypeOK, Procs, Find, Candidates, Goto, Ended, Awaiting, Assocs
  <2>6. ASSUME NEW p \in Procs, Fill(p) PROVE TypeOK'
    BY <2>0, <2>6, BoundAssumption DEF TypeOK, Procs, Fill, SetToCache, Goto, Ended, Awaiting
  <2>7. ASSUME NEW p \in Procs, Insert(p) PROVE TypeOK'
    BY <2>0, <2>7, BoundAssumption DEF TypeOK, Procs, Insert, Goto, Ended, Awaiting
  <2>8. ASSUME NEW p \in Procs, Put(p) PROVE TypeOK'
    BY <2>0, <2>8, BoundAssumption DEF TypeOK, Procs, Put, SetToCache, Goto, Ended, Awaiting
  <2>9. ASSUME NEW p \in Procs, Purge(p) PROVE TypeOK'
    BY <2>0, <2>9, BoundAssumption DEF TypeOK, Procs, Purge, DelFromCache, Goto, Ended, Awaiting
  <2>10. ASSUME NEW k \in Keys, Expire(k) PROVE TypeOK'
    BY <2>0, <2>10 DEF TypeOK, Expire
  <2>11. ASSUME UNCHANGED vars PROVE TypeOK'
    BY <2>0, <2>11 DEF TypeOK, vars, state
  <2>. QED  BY <2>1, <2>2, <2>3, <2>4, <2>5, <2>6, <2>7, <2>8, <2>9, <2>10, <2>11 DEF Next, Continue
<1>. QED  BY <1>1, <1>2, PTL DEF Spec

----------------------------------------------------------------------------
\* The cache, every answer, every document and every call on its way to the
\* cache are backed by the history: what AnswersWereTrue needs to be inductive.
AnswerInv ==
  /\ AnswersWereTrue
  /\ \A a \in Assocs : parties[a] > 0 => a \in ever
  /\ \A p \in Procs : pc[p] \in {"fill", "put"} => TrueIn(ever, req[p].fsp, req[p].key)

\* History only grows, so what was once true stays once true.
LEMMA OnceTrueStable ==
  ASSUME NEW E, NEW F, E \subseteq F, NEW f, NEW k, TrueIn(E, f, k)
  PROVE  TrueIn(F, f, k)
BY DEF TrueIn

\* A key matches itself: an association answers the query it was stored with.
LEMMA StoredIsTrue ==
  ASSUME NEW E, NEW a \in E
  PROVE  TrueIn(E, a.fsp, a.key)
BY DEF TrueIn, Matches

\* What the shared cache holds and what look-ups answer was associated at some
\* time, whatever fails and however calls interleave.
THEOREM AnswersTrue == Spec => []AnswersWereTrue
<1>1. Init => AnswerInv
  BY DEF Init, AnswerInv, AnswersWereTrue
<1>2. TypeOK /\ TypeOK' /\ AnswerInv /\ [Next]_vars => AnswerInv'
  <2> SUFFICES ASSUME TypeOK, TypeOK', AnswerInv, [Next]_vars PROVE AnswerInv'
    OBVIOUS
  <2>0. ASSUME ever \subseteq ever',
               \A a \in Assocs : parties'[a] > 0 => a \in ever',
               \A k \in Keys : cache'[k] # Null =>
                  cache'[k] = cache[k] \/ TrueIn(ever', cache'[k], k),
               \A p \in Procs : pc'[p] \in {"found", "fill", "put"} =>
                  \/ pc[p] \in {"found", "fill", "put"} /\ req'[p] = req[p]
                  \/ TrueIn(ever', req'[p].fsp, req'[p].key)
        PROVE  AnswerInv'
    <3>1. ASSUME NEW k \in Keys, cache'[k] # Null PROVE TrueIn(ever', cache'[k], k)
      BY <2>0, <3>1, OnceTrueStable DEF AnswerInv, AnswersWereTrue
    <3>2. ASSUME NEW p \in Procs, pc'[p] \in {"found", "fill", "put"}
          PROVE  TrueIn(ever', req'[p].fsp, req'[p].key)
      BY <2>0, <3>2, OnceTrueStable DEF AnswerInv, AnswersWereTrue
    <3>. QED  BY <2>0, <3>1, <3>2 DEF AnswerInv, AnswersWereTrue
  <2>1. ASSUME NEW p \in Procs, NEW k \in RequestKeys, LookupHit(p, k) PROVE AnswerInv'
    <3>1. TrueIn(ever', cache[k], k)
      BY <2>1, RequestAssumption, OnceTrueStable DEF AnswerInv, AnswersWereTrue, LookupHit
    <3>. QED  BY <2>0, <2>1, <3>1 DEF TypeOK, LookupHit, Goto, AnswerInv
  <2>2. ASSUME NEW p \in Procs, NEW k \in RequestKeys, LookupMiss(p, k) PROVE AnswerInv'
    BY <2>0, <2>2 DEF TypeOK, LookupMiss, Goto, AnswerInv
  <2>3. ASSUME NEW p \in Handlers, NEW a \in Requests, Associate(p, a) PROVE AnswerInv'
    BY <2>0, <2>3 DEF TypeOK, Procs, Associate, StartWrite, Goto, AnswerInv
  <2>4. ASSUME NEW p \in Handlers, NEW a \in Requests, Disassociate(p, a) PROVE AnswerInv'
    <3>1. \A b \in Assocs : parties'[b] > 0 => parties[b] > 0
      BY <2>4 DEF TypeOK, Disassociate, SameAssociation, Candidates
    <3>. QED  BY <2>0, <2>4, <3>1 DEF TypeOK, Procs, Disassociate, StartWrite, Goto, AnswerInv
  <2>5. ASSUME NEW p \in Procs, Find(p) PROVE AnswerInv'
    <3>1. ASSUME NEW a \in Candidates(req[p].key) PROVE TrueIn(ever', a.fsp, req[p].key)
      BY <2>5 DEF Find, Candidates, AnswerInv, TrueIn
    <3>. QED  BY <2>0, <2>5, <3>1 DEF TypeOK, Find, Goto, AnswerInv
  <2>6. ASSUME NEW p \in Procs, Fill(p) PROVE AnswerInv'
    <3>1. TrueIn(ever', req[p].fsp, req[p].key)
      BY <2>6, OnceTrueStable DEF Fill, AnswerInv
    <3>2. \A k \in Keys : cache'[k] # cache[k] => k = req[p].key /\ cache'[k] = req[p].fsp
      BY <2>6 DEF TypeOK, Fill, SetToCache
    <3>. QED  BY <2>0, <2>6, <3>1, <3>2 DEF TypeOK, Fill, Goto, AnswerInv
  <2>7. ASSUME NEW p \in Procs, Insert(p) PROVE AnswerInv'
    <3>1. req[p] \in Assocs /\ (pc'[p] = "put" => TrueIn(ever', req[p].fsp, req[p].key))
      BY <2>7, StoredIsTrue DEF TypeOK, Insert, Goto
    <3>. QED  BY <2>0, <2>7, <3>1 DEF TypeOK, Insert, Goto, AnswerInv
  <2>8. ASSUME NEW p \in Procs, Put(p) PROVE AnswerInv'
    <3>1. TrueIn(ever', req[p].fsp, req[p].key)
      BY <2>8, OnceTrueStable DEF Put, AnswerInv
    <3>2. \A k \in Keys : cache'[k] # cache[k] => k = req[p].key /\ cache'[k] = req[p].fsp
      BY <2>8 DEF TypeOK, Put, SetToCache
    <3>. QED  BY <2>0, <2>8, <3>1, <3>2 DEF TypeOK, Put, Goto, AnswerInv
  <2>9. ASSUME NEW p \in Procs, Purge(p) PROVE AnswerInv'
    BY <2>0, <2>9 DEF TypeOK, Purge, DelFromCache, Goto, AnswerInv
  <2>10. ASSUME NEW k \in Keys, Expire(k) PROVE AnswerInv'
    BY <2>0, <2>10 DEF TypeOK, Expire, AnswerInv
  <2>11. ASSUME UNCHANGED vars PROVE AnswerInv'
    BY <2>0, <2>11 DEF vars, state, AnswerInv
  <2>. QED  BY <2>1, <2>2, <2>3, <2>4, <2>5, <2>6, <2>7, <2>8, <2>9, <2>10, <2>11 DEF Next, Continue
<1>3. AnswerInv => AnswersWereTrue
  BY DEF AnswerInv
<1>. QED  BY <1>1, <1>2, <1>3, TypeCorrect, PTL DEF Spec

----------------------------------------------------------------------------
\* However the check and the insert of racing replicas interleave, no document
\* is stored more often than there are replicas; with one replica never twice.
THEOREM DuplicatesAreBounded == Spec => []DuplicatesBounded
<1>1. Init => DuplicatesBounded
  <2> SUFFICES ASSUME Init, NEW a \in Assocs
               PROVE  parties[a] + Cardinality(Inserting(a)) <= Cardinality(Handlers)
    BY DEF DuplicatesBounded
  <2>1. Inserting(a) = {}
    BY DEF Init, Inserting, Procs
  <2>2. parties[a] = 0 /\ Cardinality(Inserting(a)) = 0 /\ Cardinality(Handlers) \in Nat
    BY <2>1, FS_EmptySet, FS_CardinalityType, ProcsAssumption DEF Init
  <2>. QED  BY <2>2
<1>2. TypeOK /\ TypeOK' /\ DuplicatesBounded /\ [Next]_vars => DuplicatesBounded'
  <2> SUFFICES ASSUME TypeOK, TypeOK', DuplicatesBounded, [Next]_vars, NEW a \in Assocs
               PROVE  parties'[a] + Cardinality(Inserting(a)') <= Cardinality(Handlers)
    BY DEF DuplicatesBounded
  <2> DEFINE Goal == parties'[a] + Cardinality(Inserting(a)') <= Cardinality(Handlers)
  <2>a. /\ Inserting(a) \subseteq Handlers /\ Inserting(a)' \subseteq Handlers
        /\ IsFiniteSet(Inserting(a)) /\ IsFiniteSet(Inserting(a)')
        /\ Cardinality(Inserting(a)) \in Nat /\ Cardinality(Inserting(a)') \in Nat
        /\ Cardinality(Handlers) \in Nat
        /\ Cardinality(Inserting(a)') <= Cardinality(Handlers)
    BY ProcsAssumption, FS_Subset, FS_CardinalityType DEF Inserting
  <2>b. /\ parties[a] \in Nat /\ parties'[a] \in Nat
        /\ parties[a] + Cardinality(Inserting(a)) <= Cardinality(Handlers)
    BY DEF TypeOK, DuplicatesBounded
  \* A step by which nobody comes to insert and no document is added.
  <2>c. ASSUME parties'[a] <= parties[a], Inserting(a)' \subseteq Inserting(a) PROVE Goal
    <3>1. Cardinality(Inserting(a)') <= Cardinality(Inserting(a))
      BY <2>c, <2>a, FS_Subset
    <3>. QED  BY <2>a, <2>b, <2>c, <3>1
  <2>1. ASSUME NEW p \in Procs, NEW k \in RequestKeys, LookupHit(p, k) PROVE Goal
    BY <2>1, <2>c, <2>b DEF TypeOK, Procs, LookupHit, Goto, Inserting
  <2>2. ASSUME NEW p \in Procs, NEW k \in RequestKeys, LookupMiss(p, k) PROVE Goal
    BY <2>2, <2>c, <2>b DEF TypeOK, Procs, LookupMiss, Goto, Inserting
  <2>3. ASSUME NEW p \in Handlers, NEW b \in Requests, Associate(p, b) PROVE Goal
    <3>1. CASE a = b /\ pc'[p] = "insert"
      <4>1. a \notin SameAssociation(a)
        BY <2>3, <3>1 DEF TypeOK, Procs, Associate, Goto
      <4>2. parties[a] = 0
        BY <4>1, <2>b DEF SameAssociation, Candidates, Matches
      <4>3. parties'[a] = 0
        BY <2>3, <4>2 DEF Associate
      <4>. QED  BY <2>a, <4>3
    <3>2. CASE ~(a = b /\ pc'[p] = "insert")
      <4>1. Inserting(a)' \subseteq Inserting(a)
        BY <2>3, <3>2 DEF TypeOK, Procs, Associate, StartWrite, Goto, Inserting
      <4>. QED  BY <2>3, <2>c, <2>b, <4>1 DEF Associate
    <3>. QED  BY <3>1, <3>2
  <2>4. ASSUME NEW p \in Handlers, NEW b \in Requests, Disassociate(p, b) PROVE Goal
    <3>1. parties'[a] <= parties[a]
      BY <2>4, <2>b DEF TypeOK, Disassociate, SameAssociation, Candidates
    <3>2. Inserting(a)' \subseteq Inserting(a)
      BY <2>4 DEF TypeOK, Procs, Disassociate, StartWrite, Goto, Inserting
    <3>. QED  BY <3>1, <3>2, <2>c
  <2>5. ASSUME NEW p \in Procs, Find(p) PROVE Goal
    BY <2>5, <2>c, <2>b DEF TypeOK, Procs, Find, Goto, Inserting
  <2>6. ASSUME NEW p \in Procs, Fill(p) PROVE Goal
    BY <2>6, <2>c, <2>b DEF TypeOK, Procs, Fill, Goto, Inserting
  <2>7. ASSUME NEW p \in Procs, Insert(p) PROVE Goal
    <3>1. p \in Handlers
      BY <2>7 DEF TypeOK, Procs, Insert
    <3>2. CASE req[p] = a
      <4>1. Inserting(a)' = Inserting(a) \ {p} /\ p \in Inserting(a)
        BY <2>7, <3>1, <3>2 DEF TypeOK, Procs, Insert, Goto, Inserting
      <4>2. Cardinality(Inserting(a)') = Cardinality(Inserting(a)) - 1
        BY <4>1, <2>a, FS_RemoveElement
      <4>3. parties'[a] <= parties[a] + 1
        BY <2>7, <2>b, <3>2 DEF TypeOK, Insert
      <4>. QED  BY <2>a, <2>b, <4>2, <4>3
    <3>3. CASE req[p] # a
      <4>1. parties'[a] <= parties[a]
        BY <2>7, <2>b, <3>3 DEF TypeOK, Insert
      <4>2. Inserting(a)' \subseteq Inserting(a)
        BY <2>7 DEF TypeOK, Procs, Insert, Goto, Inserting
      <4>. QED  BY <4>1, <4>2, <2>c
    <3>. QED  BY <3>2, <3>3
  <2>8. ASSUME NEW p \in Procs, Put(p) PROVE Goal
    BY <2>8, <2>c, <2>b DEF TypeOK, Procs, Put, Goto, Inserting
  <2>9. ASSUME NEW p \in Procs, Purge(p) PROVE Goal
    BY <2>9, <2>c, <2>b DEF TypeOK, Procs, Purge, Goto, Inserting
  <2>10. ASSUME NEW k \in Keys, Expire(k) PROVE Goal
    BY <2>10, <2>c, <2>b DEF Expire, Inserting
  <2>11. ASSUME UNCHANGED vars PROVE Goal
    BY <2>11, <2>c, <2>b DEF vars, state, Inserting
  <2>. QED  BY <2>1, <2>2, <2>3, <2>4, <2>5, <2>6, <2>7, <2>8, <2>9, <2>10, <2>11 DEF Next, Continue
<1>. QED  BY <1>1, <1>2, TypeCorrect, PTL DEF Spec

----------------------------------------------------------------------------
Doc(f, k) == [fsp |-> f, key |-> k]

\* A query that names everything matches only documents with exactly its key.
LEMMA FullKeyMatch ==
  ASSUME NEW q \in FullKeys, NEW d \in Keys, Matches(d, q)
  PROVE  d = q
BY NullAssumption DEF FullKeys, Keys, Matches

\* So the only document a fully specified association can be taken for is itself.
LEMMA OnlyItself ==
  ASSUME NEW a \in Assocs, a.key \in FullKeys, NEW b \in SameAssociation(a)
  PROVE  b = a
<1>1. b \in Assocs /\ b.fsp = a.fsp /\ Matches(b.key, a.key)
  BY DEF SameAssociation, Candidates
<1>2. b.key = a.key
  BY <1>1, FullKeyMatch DEF Assocs
<1>. QED  BY <1>1, <1>2 DEF Assocs

\* What makes collection and cache one store: no document has copies, the cache
\* answers only what is held, a call about to cache an association has it
\* stored, and one about to insert or purge does not.
StoreInv ==
  /\ Orderly
  /\ \A a \in Assocs : parties[a] <= 1
  /\ \A k \in Keys : cache[k] # Null => Doc(cache[k], k) \in Held
  /\ \A p \in Procs :
       /\ pc[p] = "find" => req[p].fsp = Null
       /\ pc[p] \in {"fill", "put"} => parties[req[p]] = 1
       /\ pc[p] \in {"insert", "purge"} => parties[req[p]] = 0

\* How a caller knows the call of each await.
LEMMA CallAtAwait ==
  ASSUME TypeOK, NEW p \in Procs
  PROVE  /\ pc[p] = "find" => CallOf(p) = [is |-> "lookUp", of |-> req[p]]
         /\ pc[p] = "fill" => CallOf(p) = [is |-> "lookUp", of |-> Store!Asked(req[p].key)]
         /\ pc[p] \in {"insert", "put"} => CallOf(p) = [is |-> "associate", of |-> req[p]]
         /\ pc[p] = "purge" => CallOf(p) = [is |-> "disassociate", of |-> req[p]]
         /\ Idle(p) => CallOf(p) = [is |-> pc[p], of |-> req[p]]
<1>1. req[p] = [fsp |-> req[p].fsp, key |-> req[p].key]
  BY DEF TypeOK
<1>2. pc[p] = "find" => CallOf(p) = [is |-> "lookUp", of |-> req[p]]
  BY DEF CallOf
<1>3. pc[p] = "fill" => CallOf(p) = [is |-> "lookUp", of |-> Store!Asked(req[p].key)]
  BY <1>1 DEF CallOf, Store!Asked
<1>4. pc[p] \in {"insert", "put"} => CallOf(p) = [is |-> "associate", of |-> req[p]]
  BY DEF CallOf
<1>5. pc[p] = "purge" => CallOf(p) = [is |-> "disassociate", of |-> req[p]]
  BY DEF CallOf
<1>6. Idle(p) => CallOf(p) = [is |-> pc[p], of |-> req[p]]
  BY DEF CallOf, Idle, Ended
<1>. QED  BY <1>2, <1>3, <1>4, <1>5, <1>6

Calls == [p \in Procs |-> CallOf(p)]

\* A step of one call is a step of one call to the callers.
LEMMA OneCall ==
  ASSUME NEW p \in Procs, \A q \in Procs \ {p} : pc'[q] = pc[q] /\ req'[q] = req[q],
         NEW i, NEW a, CallOf(p)' = [is |-> i, of |-> a]
  PROVE  Calls' = [Calls EXCEPT ![p] = [is |-> i, of |-> a]]
<1>1. \A q \in Procs \ {p} : CallOf(q)' = CallOf(q)
  BY DEF CallOf
<1>. QED  BY <1>1 DEF Calls

\* While nothing is being purged the associations are the documents.
LEMMA HeldAreStored ==
  ASSUME \A p \in Procs : pc[p] # "purge"
  PROVE  Held = {a \in Assocs : parties[a] > 0}
BY DEF Held

\* While a call changes the associations no other purges; nor does one while a
\* look-up is at an await.
LEMMA OnePurge ==
  ASSUME TypeOK, Orderly, NEW p \in Procs, ~Idle(p), NEW q \in Procs, pc[q] = "purge"
  PROVE  q = p
BY DEF Orderly, Idle

\* Steps that leave documents, cache and purges alone leave what is held.
LEMMA SameHeld ==
  ASSUME UNCHANGED <<parties, cache>>,
         \A q \in Procs : pc[q] = "purge" \/ pc'[q] = "purge" => pc'[q] = pc[q] /\ req'[q] = req[q]
  PROVE  Held' = Held
BY DEF Held

\* Each action keeps StoreInv, and is to the callers what the store does.
Kept == StoreInv' /\ (Store!Step \/ UNCHANGED <<Held, Calls>>)

\* In an orderly state no call has failed.
LEMMA NotFailed ==
  ASSUME TypeOK, Orderly', NEW p \in Procs
  PROVE  ~Goto(p, "failed")
BY DEF Orderly, Goto, TypeOK

\* A look-up that the cache answers: what is cached is held.
LEMMA HitStore ==
  ASSUME TypeOK, TypeOK', StoreInv, Orderly',
         NEW p \in Procs, NEW k \in RequestKeys, LookupHit(p, k)
  PROVE  Kept
<1>1. /\ k \in Keys /\ cache[k] # Null /\ Idle(p)
      /\ req' = [req EXCEPT ![p] = Doc(cache[k], k)] /\ pc' = [pc EXCEPT ![p] = "found"]
      /\ UNCHANGED <<parties, cache>>
  BY RequestAssumption DEF LookupHit, Goto, Doc
<1>2. /\ \A q \in Procs \ {p} : pc'[q] = pc[q] /\ req'[q] = req[q]
      /\ pc'[p] = "found" /\ req'[p] = Doc(cache[k], k)
  BY <1>1 DEF TypeOK
<1>3. Held' = Held
  BY <1>1, <1>2, SameHeld DEF Idle, Ended
<1>4. Doc(cache[k], k) \in Held /\ Doc(cache[k], k) \in Assocs
  BY <1>1 DEF StoreInv, Held
<1>5. CallOf(p)' = [is |-> "found", of |-> Doc(cache[k], k)]
  BY <1>2 DEF CallOf
<1>6. CallOf(p).is \notin Store!InProgress
  BY <1>1, CallAtAwait DEF Store!InProgress, Idle, Ended
<1>7. Store!Found(p, Doc(cache[k], k))
  BY <1>2, <1>3, <1>4, <1>5, <1>6, OneCall DEF Calls, Store!Found, Store!Idle, Store!SetCall
<1>8. Store!Step
  BY <1>4, <1>7 DEF Store!Step, Assocs
<1>9. StoreInv'
  BY <1>1, <1>2, <1>3 DEF StoreInv, Awaiting
<1>. QED  BY <1>8, <1>9 DEF Kept

\* A look-up that has to wait.
LEMMA MissStore ==
  ASSUME TypeOK, TypeOK', StoreInv, Orderly',
         NEW p \in Procs, NEW k \in RequestKeys, LookupMiss(p, k)
  PROVE  Kept
<1>1. /\ k \in Keys /\ k \in FullKeys /\ Idle(p)
      /\ req' = [req EXCEPT ![p] = [fsp |-> Null, key |-> k]] /\ pc' = [pc EXCEPT ![p] = "find"]
      /\ UNCHANGED <<parties, cache>>
  BY RequestAssumption, NotFailed DEF LookupMiss, Goto, Orderly, TypeOK
<1>2. /\ \A q \in Procs \ {p} : pc'[q] = pc[q] /\ req'[q] = req[q]
      /\ pc'[p] = "find" /\ req'[p] = Store!Asked(k)
  BY <1>1 DEF TypeOK, Store!Asked
<1>3. Held' = Held
  BY <1>1, <1>2, SameHeld DEF Idle, Ended
<1>4. CallOf(p)' = [is |-> "lookUp", of |-> Store!Asked(k)]
  BY <1>2 DEF CallOf
<1>5. CallOf(p).is \notin Store!InProgress
  BY <1>1, CallAtAwait DEF Store!InProgress, Idle, Ended
<1>6. Store!Begin(p, "lookUp", Store!Asked(k))
  BY <1>2, <1>3, <1>4, <1>5, OneCall DEF Calls, Store!Begin, Store!Idle, Store!SetCall, Store!Serve
<1>7. Store!Step
  BY <1>1, <1>6 DEF Store!Step
<1>8. StoreInv'
  BY <1>1, <1>2, <1>3 DEF StoreInv, Awaiting, Store!Asked
<1>. QED  BY <1>7, <1>8 DEF Kept

\* The query of a look-up is no step to the callers unless it finds nothing.
LEMMA FindStore ==
  ASSUME TypeOK, TypeOK', StoreInv, Orderly', NEW p \in Procs, Find(p)
  PROVE  Kept
<1>1. /\ pc[p] = "find" /\ ~Idle(p) /\ UNCHANGED <<parties, cache>>
      /\ req[p].key \in FullKeys /\ req[p].key \in Keys /\ req[p] = Store!Asked(req[p].key)
  BY DEF Find, StoreInv, Orderly, TypeOK, Idle, Ended, Store!Asked
<1>2. \A q \in Procs : pc[q] # "purge"
  BY <1>1, OnePurge DEF StoreInv
<1>3. ASSUME NEW a \in Candidates(req[p].key), req' = [req EXCEPT ![p].fsp = a.fsp], Goto(p, "fill")
      PROVE  Kept
  <2>1. a \in Assocs /\ parties[a] > 0 /\ a.key = req[p].key
    BY <1>1, FullKeyMatch DEF Candidates, Assocs
  <2>2. /\ \A q \in Procs \ {p} : pc'[q] = pc[q] /\ req'[q] = req[q]
        /\ pc'[p] = "fill" /\ req'[p] = [req[p] EXCEPT !.fsp = a.fsp]
    BY <1>3 DEF TypeOK, Goto
  <2>3. req'[p] = a
    BY <2>1, <2>2 DEF TypeOK, Assocs
  <2>4. Held' = Held
    BY <1>1, <1>2, <2>2, SameHeld
  <2>5. CallOf(p)' = CallOf(p)
    <3>1. CallOf(p) = [is |-> "lookUp", of |-> Store!Asked(a.key)]
      BY <1>1, <2>1, CallAtAwait
    <3>2. [req'[p] EXCEPT !.fsp = Null] = Store!Asked(a.key)
      BY <2>1, <2>3 DEF Assocs, Store!Asked
    <3>3. CallOf(p)' = [is |-> "lookUp", of |-> [req'[p] EXCEPT !.fsp = Null]]
      BY <2>2 DEF CallOf
    <3>. QED  BY <3>1, <3>2, <3>3
  <2>6. Calls' = Calls
    BY <2>2, <2>5 DEF Calls, CallOf
  <2>7. UNCHANGED <<Held, Calls>>
    BY <2>4, <2>6
  <2>8. parties[a] = 1
    BY <2>1 DEF StoreInv, TypeOK
  <2>9. StoreInv'
    BY <1>1, <2>1, <2>2, <2>3, <2>4, <2>8 DEF StoreInv, Awaiting
  <2>. QED  BY <2>7, <2>9 DEF Kept
<1>4. ASSUME Candidates(req[p].key) = {}, Goto(p, "notFound"), UNCHANGED req
      PROVE  Kept
  <2>1. pc' = [pc EXCEPT ![p] = "notFound"] /\ pc'[p] = "notFound"
    BY <1>4 DEF TypeOK, Goto
  <2>2. \A q \in Procs \ {p} : pc'[q] = pc[q] /\ req'[q] = req[q]
    BY <1>4, <2>1 DEF TypeOK
  <2>3. Held' = Held
    BY <1>1, <1>2, <2>1, <2>2, SameHeld
  <2>4. \A a \in Held : a.key # req[p].key
    BY <1>2, <1>4, HeldAreStored DEF Candidates, Matches
  <2>5. CallOf(p) = [is |-> "lookUp", of |-> Store!Asked(req[p].key)]
    BY <1>1, CallAtAwait
  <2>6. CallOf(p)' = [is |-> "notFound", of |-> Store!Asked(req[p].key)]
    BY <1>1, <1>4, <2>1 DEF CallOf
  <2>7. PICK k \in Keys : k = req[p].key
    BY <1>1
  <2>8. Store!NotFound(p, k)
    BY <2>2, <2>3, <2>4, <2>5, <2>6, <2>7, OneCall DEF Calls, Store!NotFound, Store!SetCall
  <2>9. Store!Step
    BY <2>8 DEF Store!Step
  <2>10. StoreInv'
    BY <1>1, <1>4, <2>1, <2>2, <2>3 DEF StoreInv, Awaiting
  <2>. QED  BY <2>9, <2>10 DEF Kept
<1>. QED  BY <1>3, <1>4, NotFailed DEF Find

\* A look-up is answered with what it found, which nobody has removed meanwhile.
LEMMA FillStore ==
  ASSUME TypeOK, TypeOK', StoreInv, Orderly', NEW p \in Procs, Fill(p)
  PROVE  Kept
<1>1. /\ pc[p] = "fill" /\ ~Idle(p) /\ UNCHANGED <<parties, req>>
      /\ cache' = [cache EXCEPT ![req[p].key] = req[p].fsp] /\ pc' = [pc EXCEPT ![p] = "found"]
  BY NotFailed DEF Fill, SetToCache, Goto, Idle, Ended
<1>2. \A q \in Procs : pc[q] # "purge"
  BY <1>1, OnePurge DEF StoreInv
<1>3. pc'[p] = "found" /\ \A q \in Procs \ {p} : pc'[q] = pc[q] /\ req'[q] = req[q]
  BY <1>1 DEF TypeOK
<1>4. Held' = Held
  BY <1>1, <1>2, <1>3, HeldAreStored DEF Held
<1>5. PICK a \in Assocs : a = req[p] /\ a = Doc(a.fsp, a.key)
  BY <1>1 DEF TypeOK, Assocs, Doc
<1>6. a \in Held
  BY <1>1, <1>5 DEF StoreInv, Held
<1>7. CallOf(p) = [is |-> "lookUp", of |-> Store!Asked(a.key)]
  BY <1>1, <1>5, CallAtAwait
<1>8. CallOf(p)' = [is |-> "found", of |-> a]
  BY <1>1, <1>3, <1>5 DEF CallOf
<1>9. Store!Found(p, a)
  BY <1>3, <1>4, <1>6, <1>7, <1>8, OneCall DEF Calls, Store!Found, Store!SetCall
<1>10. Store!Step
  BY <1>9 DEF Store!Step, Assocs
<1>11. \A k \in Keys : cache'[k] # Null => Doc(cache'[k], k) \in Held'
  BY <1>1, <1>4, <1>5, <1>6 DEF StoreInv, TypeOK
<1>12. StoreInv'
  BY <1>1, <1>3, <1>11 DEF StoreInv, Awaiting
<1>. QED  BY <1>10, <1>12 DEF Kept

\* An association is answered as stored: it is held, and may be cached.
LEMMA PutStore ==
  ASSUME TypeOK, TypeOK', StoreInv, Orderly', NEW p \in Procs, Put(p)
  PROVE  Kept
<1>1. /\ pc[p] = "put" /\ ~Idle(p) /\ UNCHANGED <<parties, req>>
      /\ cache' = [cache EXCEPT ![req[p].key] = req[p].fsp] /\ pc' = [pc EXCEPT ![p] = "stored"]
  BY NotFailed DEF Put, SetToCache, Goto, Idle, Ended
<1>2. \A q \in Procs : pc[q] # "purge"
  BY <1>1, OnePurge DEF StoreInv
<1>3. pc'[p] = "stored" /\ \A q \in Procs \ {p} : pc'[q] = pc[q] /\ req'[q] = req[q]
  BY <1>1 DEF TypeOK
<1>4. Held' = Held
  BY <1>1, <1>2, <1>3, HeldAreStored DEF Held
<1>5. PICK a \in Assocs : a = req[p] /\ a = Doc(a.fsp, a.key)
  BY <1>1 DEF TypeOK, Assocs, Doc
<1>6. a \in Held
  BY <1>1, <1>5 DEF StoreInv, Held
<1>7. CallOf(p) = [is |-> "associate", of |-> a]
  BY <1>1, <1>5, CallAtAwait
<1>8. CallOf(p)' = [is |-> "stored", of |-> a]
  BY <1>1, <1>3, <1>5 DEF CallOf
<1>9. Store!Stored(p, a)
  BY <1>3, <1>4, <1>6, <1>7, <1>8, OneCall DEF Calls, Store!Stored, Store!SetCall
<1>10. Store!Step
  BY <1>9 DEF Store!Step, Assocs
<1>11. \A k \in Keys : cache'[k] # Null => Doc(cache'[k], k) \in Held'
  BY <1>1, <1>4, <1>5, <1>6 DEF StoreInv, TypeOK
<1>12. StoreInv'
  BY <1>1, <1>3, <1>11 DEF StoreInv, Awaiting
<1>. QED  BY <1>10, <1>12 DEF Kept

\* The insert is where an association takes effect.
LEMMA InsertStore ==
  ASSUME TypeOK, TypeOK', StoreInv, Orderly', NEW p \in Procs, Insert(p)
  PROVE  Kept
<1>1. /\ pc[p] = "insert" /\ ~Idle(p) /\ UNCHANGED <<cache, req>>
      /\ parties' = [parties EXCEPT ![req[p]] = @ + 1] /\ pc' = [pc EXCEPT ![p] = "put"]
  BY NotFailed DEF Insert, Goto, Idle, Ended
<1>2. \A q \in Procs : pc[q] # "purge"
  BY <1>1, OnePurge DEF StoreInv
<1>3. pc'[p] = "put" /\ \A q \in Procs \ {p} : pc'[q] = pc[q] /\ req'[q] = req[q]
  BY <1>1 DEF TypeOK
<1>4. PICK a \in Assocs : a = req[p] /\ parties[a] = 0
  BY <1>1 DEF TypeOK, StoreInv
<1>5. parties'[a] = 1 /\ \A b \in Assocs \ {a} : parties'[b] = parties[b]
  BY <1>1, <1>4 DEF TypeOK
<1>6. Held = {b \in Assocs : parties[b] > 0}
  BY <1>2, HeldAreStored
<1>7. Held' = {b \in Assocs : parties'[b] > 0}
  BY <1>2, <1>3 DEF Held
<1>8. Held' = Held \cup {a}
  BY <1>5, <1>6, <1>7
<1>9. CallOf(p) = [is |-> "associate", of |-> a] /\ CallOf(p)' = CallOf(p)
  BY <1>1, <1>3, <1>4, CallAtAwait DEF CallOf
<1>10. Calls' = Calls
  BY <1>3, <1>9 DEF Calls, CallOf
<1>11. Calls[p] = [is |-> "associate", of |-> a]
  BY <1>9 DEF Calls
<1>12. Store!Serving(p)
  BY <1>8, <1>10, <1>11 DEF Calls, Store!Serving, Store!Serve, Store!Idle, Store!InProgress
<1>13. Store!Step
  BY <1>12 DEF Store!Step
<1>14. \A q \in Procs \ {p} : pc[q] \notin {"fill", "put", "insert", "purge"}
  BY <1>1 DEF StoreInv, Orderly, Idle, Ended
<1>15. StoreInv'
  BY <1>1, <1>3, <1>4, <1>5, <1>8, <1>14 DEF StoreInv, Awaiting
<1>. QED  BY <1>13, <1>15 DEF Kept

\* An association is refused just when it is held.
LEMMA AssociateStore ==
  ASSUME TypeOK, TypeOK', StoreInv, Orderly',
         NEW p \in Handlers, NEW a \in Requests, Associate(p, a)
  PROVE  Kept
<1>0. p \in Procs /\ a \in Assocs
  BY RequestsAreAssocs DEF Procs
<1>1. /\ p \in Procs /\ a \in Assocs /\ a.key \in FullKeys /\ Idle(p)
      /\ req' = [req EXCEPT ![p] = a] /\ UNCHANGED <<parties, cache>>
  <2>1. req' = [req EXCEPT ![p] = a] /\ Idle(p) /\ UNCHANGED <<parties, cache>>
    BY DEF Associate, StartWrite
  <2>2. pc'[p] # "ready" /\ req'[p] = a
    BY <1>0, <2>1 DEF Associate, Goto, TypeOK
  <2>. QED  BY <1>0, <2>1, <2>2 DEF Orderly
<1>2. CallOf(p).is \notin Store!InProgress
  BY <1>1, CallAtAwait DEF Store!InProgress, Idle, Ended
<1>3. CASE SameAssociation(a) # {} /\ Goto(p, "exists")
  <2>1. /\ \A q \in Procs \ {p} : pc'[q] = pc[q] /\ req'[q] = req[q]
        /\ pc'[p] = "exists" /\ req'[p] = a
    BY <1>1, <1>3 DEF TypeOK, Goto
  <2>2. Held' = Held
    BY <1>1, <2>1, SameHeld DEF Idle, Ended
  <2>3. a \in SameAssociation(a)
    BY <1>1, <1>3, OnlyItself
  <2>4. a \in Held
    BY <1>1, <2>3 DEF SameAssociation, Candidates, Held
  <2>5. CallOf(p)' = [is |-> "exists", of |-> a]
    BY <2>1 DEF CallOf
  <2>6. Store!Exists(p, a)
    BY <1>1, <1>2, <2>1, <2>2, <2>4, <2>5, OneCall DEF Calls, Store!Exists, Store!Idle, Store!SetCall
  <2>7. Store!Step
    BY <1>1, <2>6 DEF Store!Step, Assocs
  <2>8. StoreInv'
    BY <1>1, <2>1, <2>2 DEF StoreInv, Awaiting
  <2>. QED  BY <2>7, <2>8 DEF Kept
<1>4. CASE SameAssociation(a) = {} /\ Goto(p, "insert")
  <2>1. /\ \A q \in Procs \ {p} : pc'[q] = pc[q] /\ req'[q] = req[q]
        /\ pc'[p] = "insert" /\ req'[p] = a
    BY <1>1, <1>4 DEF TypeOK, Goto
  <2>2. Held' = Held
    BY <1>1, <2>1, SameHeld DEF Idle, Ended
  <2>3. \A q \in Procs : pc[q] # "purge"
    BY <1>1, <2>1 DEF Orderly, Idle, Ended
  <2>4. parties[a] = 0
    BY <1>1, <1>4 DEF SameAssociation, Candidates, Matches, TypeOK
  <2>5. a \notin Held
    BY <2>3, <2>4, HeldAreStored
  <2>6. CallOf(p)' = [is |-> "associate", of |-> a]
    BY <2>1 DEF CallOf
  <2>7. Store!Begin(p, "associate", a)
    BY <1>1, <1>2, <2>1, <2>2, <2>5, <2>6, OneCall
    DEF Calls, Store!Begin, Store!Idle, Store!SetCall, Store!Serve
  <2>8. Store!Step
    BY <1>1, <2>7 DEF Store!Step, Assocs
  <2>9. StoreInv'
    BY <1>1, <2>1, <2>2, <2>4 DEF StoreInv, Awaiting
  <2>. QED  BY <2>8, <2>9 DEF Kept
<1>. QED  BY <1>1, <1>3, <1>4, NotFailed DEF Associate

\* A disassociation takes effect with its deleteOne, unless the cache holds what
\* it removes.
LEMMA DisassociateStore ==
  ASSUME TypeOK, TypeOK', StoreInv, Orderly',
         NEW p \in Handlers, NEW a \in Requests, Disassociate(p, a)
  PROVE  Kept
<1>0. p \in Procs /\ a \in Assocs
  BY RequestsAreAssocs DEF Procs
<1>1. /\ p \in Procs /\ a \in Assocs /\ a.key \in FullKeys /\ Idle(p)
      /\ req' = [req EXCEPT ![p] = a] /\ UNCHANGED cache /\ Goto(p, "purge")
  <2>1. req' = [req EXCEPT ![p] = a] /\ Idle(p) /\ UNCHANGED cache /\ Goto(p, "purge")
    BY <1>0, NotFailed DEF Disassociate, StartWrite
  <2>2. pc'[p] = "purge" /\ req'[p] = a
    BY <1>0, <2>1 DEF Goto, TypeOK
  <2>. QED  BY <1>0, <2>1, <2>2 DEF Orderly
<1>2. CallOf(p).is \notin Store!InProgress
  BY <1>1, CallAtAwait DEF Store!InProgress, Idle, Ended
<1>3. /\ \A q \in Procs \ {p} : pc'[q] = pc[q] /\ req'[q] = req[q]
      /\ pc'[p] = "purge" /\ req'[p] = a
  BY <1>1 DEF TypeOK, Goto
<1>4. \A q \in Procs : pc[q] # "purge"
  BY <1>1, <1>3 DEF Orderly, Idle, Ended
<1>5. /\ parties'[a] = 0
      /\ \A b \in Assocs \ {a} : parties'[b] = parties[b]
  <2>1. CASE SameAssociation(a) = {}
    <3>1. parties' = parties
      BY <2>1 DEF Disassociate
    <3>2. parties[a] = 0
      BY <1>1, <2>1 DEF SameAssociation, Candidates, Matches, TypeOK
    <3>. QED  BY <3>1, <3>2
  <2>2. CASE SameAssociation(a) # {}
    <3>1. \A b \in SameAssociation(a) : b = a
      BY <1>1, OnlyItself
    <3>2. parties' = [parties EXCEPT ![a] = @ - 1]
      BY <1>1, <2>2, <3>1, NotFailed DEF Disassociate
    <3>3. parties[a] = 1
      BY <1>1, <2>2, <3>1 DEF SameAssociation, Candidates, StoreInv, TypeOK
    <3>. QED  BY <1>1, <3>2, <3>3 DEF TypeOK
  <2>. QED  BY <2>1, <2>2
<1>6. Held = {b \in Assocs : parties[b] > 0}
  BY <1>4, HeldAreStored
<1>7. Held' = {b \in Assocs : parties'[b] > 0 \/ (b = a /\ cache[a.key] = a.fsp)}
  BY <1>1, <1>3, <1>4 DEF Held
<1>8. cache[a.key] = a.fsp => a \in Held
  <2>1. a = Doc(a.fsp, a.key) /\ a.key \in Keys /\ a.fsp # Null
    BY <1>1, NullAssumption DEF Assocs, Doc
  <2>. QED  BY <2>1 DEF StoreInv
<1>9. Held' = Held \/ Held' = Held \ {a}
  BY <1>5, <1>6, <1>7, <1>8
<1>10. CallOf(p)' = [is |-> "disassociate", of |-> a]
  BY <1>3 DEF CallOf
<1>11. Store!Begin(p, "disassociate", a)
  BY <1>1, <1>2, <1>3, <1>9, <1>10, OneCall
  DEF Calls, Store!Begin, Store!Idle, Store!SetCall, Store!Serve
<1>12. Store!Step
  BY <1>1, <1>11 DEF Store!Step, Assocs
<1>13. ASSUME NEW k \in Keys, cache'[k] # Null PROVE Doc(cache'[k], k) \in Held'
  <2>1. Doc(cache[k], k) \in Held
    BY <1>1, <1>13 DEF StoreInv
  <2>2. Doc(cache[k], k) = a => cache[a.key] = a.fsp
    BY DEF Doc
  <2>. QED  BY <1>1, <1>5, <1>6, <1>7, <2>1, <2>2
<1>14. \A q \in Procs \ {p} : pc'[q] \notin Awaiting
  BY <1>1, <1>3 DEF Orderly, Idle, Ended, Awaiting
<1>15. \A b \in Assocs : parties'[b] <= 1
  BY <1>5 DEF StoreInv
<1>16. StoreInv'
  BY <1>1, <1>3, <1>5, <1>13, <1>14, <1>15 DEF StoreInv, Awaiting
<1>. QED  BY <1>12, <1>16 DEF Kept

\* With its del a disassociation is done, and answered.
LEMMA PurgeStore ==
  ASSUME TypeOK, TypeOK', StoreInv, Orderly', NEW p \in Procs, Purge(p)
  PROVE  Kept
<1>1. /\ pc[p] = "purge" /\ ~Idle(p) /\ UNCHANGED <<parties, req>>
      /\ cache' = [cache EXCEPT ![req[p].key] = Null] /\ pc' = [pc EXCEPT ![p] = "removed"]
  BY NotFailed DEF Purge, DelFromCache, Goto, Idle, Ended
<1>2. \A q \in Procs : pc[q] = "purge" => q = p
  BY <1>1, OnePurge DEF StoreInv
<1>3. pc'[p] = "removed" /\ \A q \in Procs \ {p} : pc'[q] = pc[q] /\ req'[q] = req[q]
  BY <1>1 DEF TypeOK
<1>4. PICK a \in Assocs : a = req[p] /\ a = Doc(a.fsp, a.key) /\ parties[a] = 0
  BY <1>1 DEF TypeOK, StoreInv, Assocs, Doc
<1>5. Held = {b \in Assocs : parties[b] > 0 \/ (b = a /\ cache[a.key] = a.fsp)}
  BY <1>1, <1>2, <1>4 DEF Held
<1>6. Held' = {b \in Assocs : parties[b] > 0}
  BY <1>1, <1>2, <1>3 DEF Held
<1>7. Held' = Held \ {a}
  BY <1>4, <1>5, <1>6
<1>8. CallOf(p) = [is |-> "disassociate", of |-> a]
  BY <1>1, <1>4, CallAtAwait
<1>9. CallOf(p)' = [is |-> "removed", of |-> a]
  BY <1>1, <1>3, <1>4 DEF CallOf
<1>10. Store!Removed(p, a)
  BY <1>3, <1>7, <1>8, <1>9, OneCall DEF Calls, Store!Removed, Store!SetCall
<1>11. Store!Step
  BY <1>10 DEF Store!Step, Assocs
<1>12. ASSUME NEW k \in Keys, cache'[k] # Null PROVE Doc(cache'[k], k) \in Held'
  <2>1. k # a.key /\ cache'[k] = cache[k]
    BY <1>1, <1>4, <1>12 DEF TypeOK
  <2>2. Doc(cache[k], k) # a
    BY <2>1 DEF Doc
  <2>. QED  BY <1>7, <1>12, <2>1, <2>2 DEF StoreInv
<1>13. StoreInv'
  BY <1>1, <1>3, <1>12 DEF StoreInv, Awaiting
<1>. QED  BY <1>11, <1>13 DEF Kept

\* An entry that expires is still stored, or is what a disassociation is about to
\* purge: then it takes effect here.
LEMMA ExpireStore ==
  ASSUME TypeOK, TypeOK', StoreInv, Orderly', NEW k \in Keys, Expire(k)
  PROVE  Kept
<1>1. /\ UNCHANGED <<parties, pc, req>> /\ cache' = [cache EXCEPT ![k] = Null]
      /\ \A j \in Keys \ {k} : cache'[j] = cache[j]
      /\ cache'[k] = Null
  BY DEF Expire, TypeOK
<1>2. Calls' = Calls
  BY <1>1 DEF Calls, CallOf
<1>3. \A a \in Assocs : a.key \in Keys /\ a.fsp # Null
  BY NullAssumption DEF Assocs
<1>4. \A a \in Assocs : a.key # k => (a \in Held' <=> a \in Held)
  BY <1>1, <1>3 DEF Held
<1>5. \A a \in Assocs : a.key = k => (a \in Held' <=> parties[a] > 0)
  BY <1>1, <1>3 DEF Held
<1>6. ASSUME NEW j \in Keys, cache'[j] # Null PROVE Doc(cache'[j], j) \in Held'
  <2>1. j # k /\ cache'[j] = cache[j]
    BY <1>1, <1>6
  <2>2. Doc(cache[j], j) \in Held /\ Doc(cache[j], j) \in Assocs /\ Doc(cache[j], j).key = j
    BY <1>6, <2>1 DEF StoreInv, Held, Doc
  <2>. QED  BY <1>4, <2>1, <2>2
<1>7. StoreInv'
  BY <1>1, <1>6 DEF StoreInv
<1>8. CASE \E p \in Procs : pc[p] = "purge" /\ req[p].key = k
  <2>1. PICK p \in Procs : pc[p] = "purge" /\ req[p].key = k
    BY <1>8
  <2>2. PICK a \in Assocs : a = req[p] /\ parties[a] = 0
    BY <2>1 DEF TypeOK, StoreInv
  <2>3. \A q \in Procs : pc[q] = "purge" => q = p
    BY <2>1, OnePurge DEF StoreInv, Idle, Ended
  <2>4. \A b \in Assocs \ {a} : b \in Held <=> parties[b] > 0
    BY <2>2, <2>3 DEF Held
  <2>5. \A b \in Assocs : b \in Held' <=> parties[b] > 0
    BY <1>4, <1>5, <2>1, <2>2, <2>4
  <2>6. Held' = Held \ {a}
    BY <2>2, <2>4, <2>5 DEF Held
  <2>7. Calls[p] = [is |-> "disassociate", of |-> a]
    BY <2>1, <2>2, CallAtAwait DEF Calls
  <2>8. Store!Serving(p)
    BY <1>2, <2>6, <2>7 DEF Calls, Store!Serving, Store!Serve, Store!Idle, Store!InProgress
  <2>9. Store!Step
    BY <2>8 DEF Store!Step
  <2>. QED  BY <1>7, <2>9 DEF Kept
<1>9. CASE ~\E p \in Procs : pc[p] = "purge" /\ req[p].key = k
  <2>1. \A a \in Assocs : a.key = k => (a \in Held <=> parties[a] > 0)
    BY <1>9 DEF Held
  <2>2. Held' = Held
    BY <1>4, <1>5, <2>1 DEF Held
  <2>. QED  BY <1>2, <1>7, <2>2 DEF Kept
<1>. QED  BY <1>8, <1>9

LEMMA InitStore == Init => StoreInv /\ Store!Init
<1> SUFFICES ASSUME Init PROVE StoreInv /\ Store!Init
  OBVIOUS
<1>1. PICK k \in Keys : req = [p \in Procs |-> [fsp |-> Null, key |-> k]]
  BY DEF Init
<1>2. Held = {}
  BY DEF Init, Held
<1>3. \A p \in Procs : CallOf(p) = [is |-> "ready", of |-> Store!Asked(k)]
  BY <1>1 DEF Init, CallOf, Store!Asked
<1>4. Store!Init
  BY <1>1, <1>2, <1>3 DEF Init, Store!Init
<1>5. StoreInv
  BY DEF Init, StoreInv, Orderly, Awaiting
<1>. QED  BY <1>4, <1>5

\* Once it is not orderly any more, the store promises nothing.
LEMMA NextStore ==
  TypeOK /\ TypeOK' /\ (orderly => StoreInv) /\ [Next]_vars
    => (orderly' => StoreInv') /\ [Store!Next]_(Store!vars)
<1> SUFFICES ASSUME TypeOK, TypeOK', orderly => StoreInv, [Next]_vars
             PROVE  (orderly' => StoreInv') /\ [Store!Next]_(Store!vars)
  OBVIOUS
<1>1. CASE Next /\ orderly'
  <2>1. orderly /\ Orderly' /\ StoreInv
    BY <1>1 DEF Next
  <2>2. Kept
    BY <1>1, <2>1, HitStore, MissStore, AssociateStore, DisassociateStore, FindStore,
       FillStore, InsertStore, PutStore, PurgeStore, ExpireStore DEF Next, Continue
  <2>. QED  BY <1>1, <2>1, <2>2 DEF Kept, Store!Next, Store!vars, Calls
<1>2. CASE ~orderly'
  BY <1>2 DEF Store!Next
<1>3. CASE UNCHANGED vars
  <2>1. Held' = Held /\ Calls' = Calls
    BY <1>3 DEF vars, state, Held, Calls, CallOf
  <2>2. StoreInv => StoreInv'
    BY <1>3, <2>1 DEF vars, state, StoreInv, Orderly, Idle
  <2>. QED  BY <1>3, <2>1, <2>2 DEF vars, Store!vars, Calls
<1>. QED  BY <1>1, <1>2, <1>3

\* While callers and servers are orderly the cache is never stale between calls:
\* staleness has no other cause than interleaving, failures and partial keys.
THEOREM OrderlyCoherence == Spec => []CoherentWhenOrderly
<1>1. TypeOK /\ (orderly => StoreInv) => CoherentWhenOrderly
  <2> SUFFICES ASSUME TypeOK, StoreInv, \A p \in Procs : Idle(p),
                      NEW k \in Keys, cache[k] # Null
               PROVE  \E a \in Candidates(k) : a.fsp = cache[k]
    BY DEF CoherentWhenOrderly, Coherent
  <2>1. \A p \in Procs : pc[p] # "purge"
    BY DEF Idle, Ended
  <2>2. Doc(cache[k], k) \in Assocs /\ parties[Doc(cache[k], k)] > 0
    BY <2>1, HeldAreStored DEF StoreInv
  <2>3. Doc(cache[k], k) \in Candidates(k)
    BY <2>2 DEF Candidates, Doc, Matches
  <2>. QED  BY <2>3 DEF Doc
<1>. QED  BY <1>1, InitStore, NextStore, TypeCorrect, PTL DEF Spec

\* The built-in oracle implements AssociationStore: any number of handlers and
\* HTTP look-ups, with a cache of any life time, see one set of associations as
\* long as they and the servers are orderly.
THEOREM StoreImplemented == Spec => ImplementsStore
BY InitStore, NextStore, TypeCorrect, PTL DEF Spec, ImplementsStore, Store!Spec
=============================================================================
