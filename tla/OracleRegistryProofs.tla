------------------------ MODULE OracleRegistryProofs ------------------------
(***************************************************************************)
(* Theorems about the registry of oracles, for any number of replicas, of  *)
(* calls at a time and of crashes: types, how often a name can be          *)
(* registered, that what a replica has to serve it serves, and that calls  *)
(* one at a time keep list and collection in step.                         *)
(***************************************************************************)
EXTENDS OracleRegistry, FiniteSetTheorems, TLAPS

LEMMA InitType == Init => TypeOK
BY BoundAssumption DEF Init, TypeOK, Ended, Awaiting

\* The document of an accepted request is an oracle.
LEMMA NewOracleType ==
  ASSUME NEW o \in NewOracles, NEW i \in Ids, calls \in 0..MaxCalls, calls < MaxCalls
  PROVE  NewOracle(o, i) \in Oracles
<1>1. calls + 1 \in 1..MaxCalls
  BY BoundAssumption
<1>2. o.type \in {"builtin", "remote-http"}
  BY OracleAssumption
<1>3. /\ o.name \in Names /\ o.partyType \in PartyTypes /\ o.currency \in Currencies
      /\ o.endpoint \in Endpoints /\ Null \in Endpoints
  BY DEF Names, PartyTypes, Currencies, Endpoints
<1>4. (IF o.type = "builtin" THEN Null ELSE o.endpoint) \in Endpoints
  BY <1>3
<1>5. QED
  BY <1>1, <1>2, <1>3, <1>4 DEF NewOracle, Oracles

\* A call that goes on, or ends, has a place to be; the others stay.
LEMMA GotoType ==
  ASSUME TypeOK, NEW c \in Calls, NEW l \in Ended \cup Awaiting, Goto(c, l)
  PROVE  /\ pc' \in [Calls -> Ended \cup Awaiting]
         /\ pc'[c] = l
         /\ \A b \in Calls : b # c => pc'[b] = pc[b]
BY DEF TypeOK, Goto

\* An oracle becomes the argument of a call.
LEMMA ArgType ==
  ASSUME TypeOK, NEW c \in Calls, NEW d \in Oracles, arg' = [arg EXCEPT ![c] = d]
  PROVE  /\ arg' \in [Calls -> Oracles \cup {Null}]
         /\ arg'[c] = d
         /\ \A b \in Calls : b # c => arg'[b] = arg[b]
BY DEF TypeOK

\* A step of a call in progress that leaves its argument and the replicas
\* alone keeps the last part of the type invariant.
LEMMA ProgressType ==
  ASSUME TypeOK, NEW c \in Calls, NEW l \in Ended \cup Awaiting, pc[c] \in Awaiting,
         Goto(c, l), UNCHANGED <<status, arg>>
  PROVE  /\ pc' \in [Calls -> Ended \cup Awaiting]
         /\ \A b \in Calls : pc'[b] \in Awaiting => arg'[b] \in Oracles /\ status'[b[1]] = "up"
<1>1. /\ pc' \in [Calls -> Ended \cup Awaiting]
      /\ \A b \in Calls : b # c => pc'[b] = pc[b]
  BY GotoType
<1>2. QED
  BY <1>1 DEF TypeOK

LEMMA AddOracleType ==
  ASSUME TypeOK, NEW c \in Calls, NEW o \in NewOracles, AddOracle(c, o)
  PROVE  TypeOK'
<1>1. calls < MaxCalls /\ calls' \in 0..MaxCalls /\ pc[c] \in Ended /\ status[c[1]] = "up"
  BY BoundAssumption DEF AddOracle, BeginsChange, Begins, TypeOK
<1>2. \E i \in Ids, l \in Ended \cup Awaiting :
        /\ Goto(c, l) /\ arg' = [arg EXCEPT ![c] = NewOracle(o, i)]
        /\ issued' \in SUBSET Uuids
  <2>1. CASE o.id # Null
    <3>1. o.id \in Ids
      BY <2>1, OracleAssumption DEF Ids
    <3>2. QED
      BY <2>1, <3>1 DEF AddOracle, TypeOK, Ended, Awaiting
  <2>2. CASE o.id = Null
    BY <2>2 DEF AddOracle, TypeOK, Ids, Ended, Awaiting
  <2>3. QED
    BY <2>1, <2>2
<1>3. PICK i \in Ids, l \in Ended \cup Awaiting :
        /\ Goto(c, l) /\ arg' = [arg EXCEPT ![c] = NewOracle(o, i)]
        /\ issued' \in SUBSET Uuids
  BY <1>2
<1>4. NewOracle(o, i) \in Oracles
  BY <1>1, NewOracleType DEF TypeOK
<1>5. /\ arg' \in [Calls -> Oracles \cup {Null}]
      /\ arg'[c] \in Oracles
      /\ \A b \in Calls : b # c => arg'[b] = arg[b]
  BY <1>3, <1>4, ArgType
<1>6. /\ pc' \in [Calls -> Ended \cup Awaiting]
      /\ \A b \in Calls : b # c => pc'[b] = pc[b]
  BY <1>3, GotoType
<1>7. \A b \in Calls : pc'[b] \in Awaiting => arg'[b] \in Oracles /\ status[b[1]] = "up"
  BY <1>1, <1>5, <1>6 DEF TypeOK
<1>8. UNCHANGED <<oracles, adapters, status, loading, owed, crashes>>
  BY DEF AddOracle
<1>9. QED
  BY <1>1, <1>3, <1>5, <1>6, <1>7, <1>8 DEF TypeOK

\* RemoveOracle and ResolveAdapter begin with a registered oracle, or end.
LEMMA BeginsWithType ==
  ASSUME TypeOK, NEW c \in Calls, NEW l \in Ended \cup Awaiting, Begins(c), Goto(c, l),
         \/ \E d \in oracles : arg' = [arg EXCEPT ![c] = d]
         \/ l \in Ended /\ UNCHANGED arg,
         calls' \in 0..MaxCalls,
         UNCHANGED <<oracles, adapters, status, loading, issued, owed, crashes>>
  PROVE  TypeOK'
<1>1. /\ pc' \in [Calls -> Ended \cup Awaiting]
      /\ pc'[c] = l
      /\ \A b \in Calls : b # c => pc'[b] = pc[b]
  BY GotoType
<1>2. CASE \E d \in oracles : arg' = [arg EXCEPT ![c] = d]
  <2>1. PICK d \in oracles : arg' = [arg EXCEPT ![c] = d]
    BY <1>2
  <2>2. d \in Oracles
    BY DEF TypeOK
  <2>3. /\ arg' \in [Calls -> Oracles \cup {Null}]
        /\ arg'[c] \in Oracles
        /\ \A b \in Calls : b # c => arg'[b] = arg[b]
    BY <2>1, <2>2, ArgType
  <2>4. \A b \in Calls : pc'[b] \in Awaiting => arg'[b] \in Oracles /\ status[b[1]] = "up"
    BY <1>1, <2>3 DEF TypeOK, Begins
  <2>5. QED
    BY <1>1, <2>3, <2>4 DEF TypeOK
<1>3. CASE l \in Ended /\ UNCHANGED arg
  <2>1. l \notin Awaiting
    BY <1>3 DEF Ended, Awaiting
  <2>2. \A b \in Calls : pc'[b] \in Awaiting => arg'[b] \in Oracles /\ status[b[1]] = "up"
    BY <1>1, <1>3, <2>1 DEF TypeOK
  <2>3. QED
    BY <1>1, <1>3, <2>2 DEF TypeOK
<1>4. QED
  BY <1>2, <1>3

LEMMA StopsType ==
  ASSUME TypeOK, NEW r \in Replicas, Stops(r), crashes' \in 0..MaxCrashes
  PROVE  TypeOK'
<1>1. pc' \in [Calls -> Ended \cup Awaiting]
  BY DEF TypeOK, Stops, Ended
<1>2. \A b \in Calls : pc'[b] \in Awaiting => pc[b] \in Awaiting /\ b[1] # r
  BY DEF Stops, Awaiting
<1>3. \A b \in Calls : b[1] \in Replicas
  BY DEF Calls
<1>4. \A b \in Calls : pc'[b] \in Awaiting => arg'[b] \in Oracles /\ status'[b[1]] = "up"
  BY <1>2, <1>3 DEF TypeOK, Stops
<1>5. QED
  BY <1>1, <1>4 DEF TypeOK, Stops

LEMMA NextType == TypeOK /\ [Next]_vars => TypeOK'
<1> SUFFICES ASSUME TypeOK, [Next]_vars PROVE TypeOK'
  OBVIOUS
<1>1. ASSUME NEW c \in Calls, NEW o \in NewOracles, AddOracle(c, o)
      PROVE  TypeOK'
  BY <1>1, AddOracleType
<1>2. ASSUME NEW c \in Calls, NEW i \in Ids, RemoveOracle(c, i)
      PROVE  TypeOK'
  <2>1. calls' \in 0..MaxCalls /\ Begins(c)
    BY <1>2, BoundAssumption DEF RemoveOracle, BeginsChange, TypeOK
  <2>2. CASE \E d \in oracles : d.id = i /\ arg' = [arg EXCEPT ![c] = d] /\ Goto(c, "delete")
    <3>1. "delete" \in Ended \cup Awaiting
      BY DEF Awaiting
    <3>2. QED
      BY <1>2, <2>1, <2>2, <3>1, BeginsWithType DEF RemoveOracle
  <2>3. CASE Goto(c, "notFound") /\ UNCHANGED arg
    <3>1. "notFound" \in Ended
      BY DEF Ended
    <3>2. QED
      BY <1>2, <2>1, <2>3, <3>1, BeginsWithType DEF RemoveOracle
  <2>4. QED
    BY <1>2, <2>2, <2>3 DEF RemoveOracle
<1>3. ASSUME NEW c \in Calls, NEW t \in PartyTypes, NEW cur \in Currencies,
             ResolveAdapter(c, t, cur)
      PROVE  TypeOK'
  <2>1. calls' \in 0..MaxCalls /\ Begins(c)
    BY <1>3 DEF ResolveAdapter, TypeOK
  <2>2. CASE \E d \in GetOracle(t, cur) : arg' = [arg EXCEPT ![c] = d] /\ Goto(c, "pick")
    <3>1. GetOracle(t, cur) \subseteq oracles
      BY DEF GetOracle, ForCurrency, ForPartyType
    <3>2. "pick" \in Ended \cup Awaiting
      BY DEF Awaiting
    <3>3. QED
      BY <1>3, <2>1, <2>2, <3>1, <3>2, BeginsWithType DEF ResolveAdapter
  <2>3. CASE Goto(c, "notFound") /\ UNCHANGED arg
    <3>1. "notFound" \in Ended
      BY DEF Ended
    <3>2. QED
      BY <1>3, <2>1, <2>3, <3>1, BeginsWithType DEF ResolveAdapter
  <2>4. QED
    BY <1>3, <2>2, <2>3 DEF ResolveAdapter
<1>4. ASSUME NEW c \in Calls, Continue(c)
      PROVE  TypeOK'
  <2>1. /\ pc[c] \in Awaiting
        /\ \E l \in Ended \cup Awaiting : Goto(c, l)
        /\ UNCHANGED <<status, arg, loading, issued, calls, crashes>>
    BY <1>4 DEF Continue, CheckName, Recheck, InsertOracle, InitAdapter, DeleteOracle,
                FilterAdapters, PickAdapter, Fail, Awaiting, Ended
  <2>2. /\ pc' \in [Calls -> Ended \cup Awaiting]
        /\ \A b \in Calls : pc'[b] \in Awaiting => arg'[b] \in Oracles /\ status'[b[1]] = "up"
    BY <2>1, ProgressType
  <2>3. arg[c] \in Oracles /\ c[1] \in Replicas
    BY <2>1 DEF TypeOK, Calls
  <2>4. arg[c].id \in Ids
    BY <2>3 DEF Oracles
  <2>5. oracles' \in SUBSET Oracles
    BY <1>4, <2>3 DEF TypeOK, Continue, CheckName, Recheck, InsertOracle, InitAdapter,
                DeleteOracle, FilterAdapters, PickAdapter, Fail
  <2>6. /\ adapters' \in [Replicas -> SUBSET Oracles]
        /\ owed' \in [Replicas -> SUBSET Ids]
    BY <1>4, <2>3, <2>4 DEF TypeOK, Continue, CheckName, Recheck, InsertOracle, InitAdapter,
                DeleteOracle, FilterAdapters, PickAdapter, Fail
  <2>7. QED
    BY <2>1, <2>2, <2>5, <2>6 DEF TypeOK
<1>5. ASSUME NEW r \in Replicas, Start(r)
      PROVE  TypeOK'
  <2>1. {d.id : d \in oracles} \subseteq Ids
    BY DEF TypeOK, Oracles
  <2>2. \A b \in Calls : pc[b] \in Awaiting => b[1] # r
    BY <1>5 DEF TypeOK, Start
  <2>3. QED
    BY <1>5, <2>1, <2>2 DEF TypeOK, Start
<1>6. ASSUME NEW r \in Replicas, LoadOracle(r)
      PROVE  TypeOK'
  BY <1>6 DEF TypeOK, LoadOracle
<1>7. ASSUME NEW r \in Replicas, Started(r)
      PROVE  TypeOK'
  BY <1>7 DEF TypeOK, Started
<1>8. ASSUME NEW r \in Replicas, StartFails(r) \/ Crash(r)
      PROVE  TypeOK'
  <2>1. Stops(r) /\ crashes' \in 0..MaxCrashes
    BY <1>8, BoundAssumption DEF TypeOK, StartFails, Crash
  <2>2. QED
    BY <2>1, StopsType
<1>9. CASE UNCHANGED vars
  BY <1>9 DEF TypeOK, vars
<1>10. QED
  BY <1>1, <1>2, <1>3, <1>4, <1>5, <1>6, <1>7, <1>8, <1>9 DEF Next, Boot

\* Every variable of the registry has its type, for any replicas, requests and
\* failures; a call in progress has its oracle and runs on a replica that is up.
THEOREM TypeCorrect == Spec => []TypeOK
BY InitType, NextType, PTL DEF Spec

----------------------------------------------------------------------------
LEMMA CallsFinite == IsFiniteSet(Calls) /\ Cardinality(Calls) \in Nat
BY FiniteAssumption, FS_Product, FS_CardinalityType DEF Calls

LEMMA AddingFinite ==
  ASSUME NEW m
  PROVE  /\ IsFiniteSet(AddingNamed(m)) /\ Cardinality(AddingNamed(m)) \in Nat
         /\ Cardinality(AddingNamed(m)) <= Cardinality(Calls)
BY CallsFinite, FS_Subset, FS_CardinalityType DEF AddingNamed

\* The collection is finite, which is what counting its documents needs.
FiniteInv == IsFiniteSet(oracles)

\* Calls that go on without inserting take no new name into the count: one that
\* finds the name unused counts itself, and at that time nothing is counted for
\* the name but calls.
LEMMA NameStep ==
  ASSUME TypeOK, FiniteInv, NEW m \in Names,
         Cardinality(NamedInStore(m)) + Cardinality(AddingNamed(m)) <= Cardinality(Calls),
         NamedInStore(m)' \subseteq NamedInStore(m),
         \/ AddingNamed(m)' \subseteq AddingNamed(m)
         \/ NamedInStore(m)' = {}
  PROVE  Cardinality(NamedInStore(m)') + Cardinality(AddingNamed(m)') <= Cardinality(Calls)
<1>1. IsFiniteSet(NamedInStore(m)) /\ Cardinality(NamedInStore(m)) \in Nat
  BY FS_Subset, FS_CardinalityType DEF FiniteInv, NamedInStore
<1>2. /\ Cardinality(NamedInStore(m)') \in Nat
      /\ Cardinality(NamedInStore(m)') <= Cardinality(NamedInStore(m))
  BY <1>1, FS_Subset, FS_CardinalityType
<1>3. /\ Cardinality(AddingNamed(m)) \in Nat /\ Cardinality(AddingNamed(m)') \in Nat
      /\ Cardinality(AddingNamed(m)') <= Cardinality(Calls) /\ Cardinality(Calls) \in Nat
  <2>1. AddingNamed(m)' \subseteq Calls
    BY DEF AddingNamed
  <2>2. QED
    BY <2>1, AddingFinite, CallsFinite, FS_Subset, FS_CardinalityType
<1>4. CASE AddingNamed(m)' \subseteq AddingNamed(m)
  <2>1. Cardinality(AddingNamed(m)') <= Cardinality(AddingNamed(m))
    BY <1>4, AddingFinite, FS_Subset
  <2>2. QED
    BY <2>1, <1>1, <1>2, <1>3
<1>5. CASE NamedInStore(m)' = {}
  <2>1. Cardinality(NamedInStore(m)') = 0
    BY <1>5, FS_EmptySet
  <2>2. QED
    BY <2>1, <1>3
<1>6. QED
  BY <1>4, <1>5

\* insertOne makes a document out of a call that was counted.
LEMMA InsertNames ==
  ASSUME TypeOK, FiniteInv, NEW m \in Names, NEW c \in Calls, InsertOracle(c),
         Cardinality(NamedInStore(m)) + Cardinality(AddingNamed(m)) <= Cardinality(Calls)
  PROVE  Cardinality(NamedInStore(m)') + Cardinality(AddingNamed(m)') <= Cardinality(Calls)
<1>1. \E l \in {"init", "failed"} : Goto(c, l)
  BY DEF InsertOracle
<1>2. PICK l \in {"init", "failed"} : Goto(c, l)
  BY <1>1
<1>3. /\ pc[c] = "insert" /\ oracles' = oracles \cup {arg[c]} /\ arg' = arg
      /\ pc'[c] \notin {"recheck", "insert"}
      /\ \A b \in Calls : b # c => pc'[b] = pc[b]
  <2>1. l \in Ended \cup Awaiting
    BY DEF Ended, Awaiting
  <2>2. QED
    BY <1>2, <2>1, GotoType DEF InsertOracle
<1>4. CASE arg[c].name = m
  <2>1. c \in AddingNamed(m) /\ AddingNamed(m)' = AddingNamed(m) \ {c}
    BY <1>3, <1>4 DEF AddingNamed
  <2>2. Cardinality(AddingNamed(m)') = Cardinality(AddingNamed(m)) - 1
    BY <2>1, AddingFinite, FS_RemoveElement
  <2>3. NamedInStore(m)' = NamedInStore(m) \cup {arg[c]}
    BY <1>3, <1>4 DEF NamedInStore
  <2>4. IsFiniteSet(NamedInStore(m)) /\ Cardinality(NamedInStore(m)) \in Nat
    BY FS_Subset, FS_CardinalityType DEF FiniteInv, NamedInStore
  <2>5. Cardinality(NamedInStore(m)') \in {Cardinality(NamedInStore(m)),
                                            Cardinality(NamedInStore(m)) + 1}
    BY <2>3, <2>4, FS_AddElement
  <2>6. QED
    BY <2>2, <2>4, <2>5, AddingFinite, CallsFinite
<1>5. CASE arg[c].name # m
  <2>1. NamedInStore(m)' = NamedInStore(m) /\ AddingNamed(m)' = AddingNamed(m)
    BY <1>3, <1>5 DEF NamedInStore, AddingNamed
  <2>2. QED
    BY <2>1
<1>6. QED
  BY <1>4, <1>5

LEMMA FiniteStep == FiniteInv /\ [Next]_vars => FiniteInv'
<1> SUFFICES ASSUME FiniteInv, [Next]_vars PROVE FiniteInv'
  OBVIOUS
<1>1. ASSUME NEW c \in Calls, Continue(c)
      PROVE  oracles' \subseteq oracles \cup {arg[c]}
  BY <1>1 DEF Continue, CheckName, Recheck, InsertOracle, InitAdapter, DeleteOracle,
              FilterAdapters, PickAdapter, Fail
<1>2. (\E c \in Calls : Continue(c)) \/ oracles' = oracles
  BY DEF Next, AddOracle, RemoveOracle, ResolveAdapter, Boot, Start, LoadOracle, Started,
         StartFails, Crash, Stops, vars
<1>3. \A c : IsFiniteSet(oracles \cup {arg[c]})
  BY FS_AddElement DEF FiniteInv
<1>4. QED
  BY <1>1, <1>2, <1>3, FS_Subset DEF FiniteInv

\* A name is never registered more often than calls can be in progress, across
\* all replicas: only a call that found it unused stores it, and from then on no
\* other call finds it unused.
THEOREM NamesAreBounded == Spec => []DuplicateNamesBounded
<1>1. Init => FiniteInv /\ DuplicateNamesBounded
  <2> SUFFICES ASSUME Init PROVE FiniteInv /\ DuplicateNamesBounded
    OBVIOUS
  <2>1. oracles = {} /\ \A m : NamedInStore(m) = {} /\ AddingNamed(m) = {}
    BY DEF Init, NamedInStore, AddingNamed
  <2>2. QED
    BY <2>1, FS_EmptySet, CallsFinite DEF FiniteInv, DuplicateNamesBounded
<1>2. TypeOK /\ FiniteInv /\ DuplicateNamesBounded /\ [Next]_vars => DuplicateNamesBounded'
  <2> SUFFICES ASSUME TypeOK, FiniteInv, DuplicateNamesBounded, [Next]_vars, NEW m \in Names
               PROVE  Cardinality(NamedInStore(m)') + Cardinality(AddingNamed(m)')
                        <= Cardinality(Calls)
    BY DEF DuplicateNamesBounded
  <2> DEFINE Shrinks == /\ NamedInStore(m)' \subseteq NamedInStore(m)
                        /\ \/ AddingNamed(m)' \subseteq AddingNamed(m)
                           \/ NamedInStore(m)' = {}
  <2>a. Cardinality(NamedInStore(m)) + Cardinality(AddingNamed(m)) <= Cardinality(Calls)
    BY DEF DuplicateNamesBounded
  <2>b. Shrinks => Cardinality(NamedInStore(m)') + Cardinality(AddingNamed(m)')
                     <= Cardinality(Calls)
    BY <2>a, NameStep
  <2>1. ASSUME NEW c \in Calls, NEW o \in NewOracles, AddOracle(c, o)
        PROVE  Shrinks
    <3>1. /\ pc'[c] \notin {"recheck", "insert"} /\ oracles' = oracles
          /\ \A b \in Calls : b # c => pc'[b] = pc[b] /\ arg'[b] = arg[b]
      BY <2>1 DEF AddOracle, Goto, TypeOK
    <3>2. QED
      BY <3>1 DEF NamedInStore, AddingNamed
  <2>2. ASSUME NEW c \in Calls, NEW i \in Ids, RemoveOracle(c, i)
        PROVE  Shrinks
    <3>1. /\ pc'[c] \notin {"recheck", "insert"} /\ oracles' = oracles
          /\ \A b \in Calls : b # c => pc'[b] = pc[b] /\ arg'[b] = arg[b]
      BY <2>2 DEF RemoveOracle, Goto, TypeOK
    <3>2. QED
      BY <3>1 DEF NamedInStore, AddingNamed
  <2>3. ASSUME NEW c \in Calls, NEW t \in PartyTypes, NEW cur \in Currencies,
               ResolveAdapter(c, t, cur)
        PROVE  Shrinks
    <3>1. /\ pc'[c] \notin {"recheck", "insert"} /\ oracles' = oracles
          /\ \A b \in Calls : b # c => pc'[b] = pc[b] /\ arg'[b] = arg[b]
      BY <2>3 DEF ResolveAdapter, Goto, TypeOK
    <3>2. QED
      BY <3>1 DEF NamedInStore, AddingNamed
  <2>4. ASSUME NEW c \in Calls, CheckName(c)
        PROVE  Shrinks
    <3>1. CASE arg[c].name = m
      <4>1. \/ NamedInStore(m) = {}
            \/ pc'[c] = "duplicate"
        BY <2>4, <3>1 DEF CheckName, Goto, TypeOK, NamedInStore
      <4>2. QED
        BY <2>4, <4>1 DEF CheckName, Goto, TypeOK, NamedInStore, AddingNamed
    <3>2. CASE arg[c].name # m
      BY <2>4, <3>2 DEF CheckName, Goto, TypeOK, NamedInStore, AddingNamed
    <3>3. QED
      BY <3>1, <3>2
  <2>5. ASSUME NEW c \in Calls,
               \/ Recheck(c) \/ InitAdapter(c) \/ DeleteOracle(c)
               \/ FilterAdapters(c) \/ PickAdapter(c) \/ Fail(c)
        PROVE  Shrinks
    <3>1. oracles' \subseteq oracles /\ arg' = arg
      BY <2>5 DEF Recheck, InitAdapter, DeleteOracle, FilterAdapters, PickAdapter, Fail
    <3>2. /\ pc'[c] \in {"recheck", "insert"} => pc[c] \in {"recheck", "insert"}
          /\ \A b \in Calls : b # c => pc'[b] = pc[b]
      BY <2>5 DEF Recheck, InitAdapter, DeleteOracle, FilterAdapters, PickAdapter, Fail,
                  Goto, TypeOK
    <3>3. QED
      BY <3>1, <3>2 DEF NamedInStore, AddingNamed
  <2>6. ASSUME NEW r \in Replicas, Boot(r) \/ Crash(r)
        PROVE  Shrinks
    <3>1. /\ oracles' = oracles /\ arg' = arg
          /\ \A b \in Calls : pc'[b] = pc[b] \/ pc'[b] = "failed"
      BY <2>6 DEF Boot, Start, LoadOracle, Started, StartFails, Crash, Stops
    <3>2. QED
      BY <3>1 DEF NamedInStore, AddingNamed
  <2>7. CASE UNCHANGED vars
    BY <2>7, <2>b DEF vars, NamedInStore, AddingNamed
  <2>8. ASSUME NEW c \in Calls, InsertOracle(c)
        PROVE  Cardinality(NamedInStore(m)') + Cardinality(AddingNamed(m)')
                 <= Cardinality(Calls)
    BY <2>8, <2>a, InsertNames
  <2>9. QED
    BY <2>b, <2>1, <2>2, <2>3, <2>4, <2>5, <2>6, <2>7, <2>8 DEF Next, Continue
<1>3. QED
  BY <1>1, <1>2, FiniteStep, TypeCorrect, PTL DEF Spec

----------------------------------------------------------------------------
\* Calls that will store their oracle, or may.
Storing == {c \in Calls : pc[c] \in {"byName", "recheck", "insert"}}

\* Ids are used once: what is stored, owed or worked on has one that was issued;
\* that of an oracle still to be stored is nobody else's; two documents differ
\* in it; a document with the id of a call at "init" is the one it stored; and
\* there is none with the id of a call that has deleted its own.
IdInv ==
  /\ \A d \in oracles : d.id \in issued
  /\ \A c \in Calls : pc[c] \in Awaiting => arg[c].id \in issued
  /\ \A r \in Replicas : owed[r] \subseteq issued
  /\ \A c \in Storing :
       /\ ~HasId(oracles, arg[c].id)
       /\ \A r \in Replicas : arg[c].id \notin owed[r]
       /\ \A b \in Calls : pc[b] \in Awaiting /\ b # c => arg[b].id # arg[c].id
  /\ \A d, e \in oracles : d.id = e.id => d = e
  /\ \A c \in Calls, d \in oracles : pc[c] = "init" /\ d.id = arg[c].id => d = arg[c]
  /\ \A c \in Calls : pc[c] = "filter" => ~HasId(oracles, arg[c].id)

\* What a replica owes it serves, or has still to load.
ServedInv ==
  \A r \in Replicas : status[r] # "down" =>
    \A d \in oracles : d.id \in owed[r] =>
      d \in adapters[r] \/ (status[r] = "starting" /\ d \in loading[r])

\* A step of one call that does not bring a new id.
LEMMA IdOfCallStep ==
  ASSUME TypeOK, IdInv, NEW c \in Calls,
         \A b \in Calls : b # c => pc'[b] = pc[b],
         arg' = arg, owed' = owed, issued' = issued,
         oracles' \subseteq oracles,
         \/ pc'[c] \notin Awaiting
         \/ pc'[c] \in {"recheck", "insert"} /\ pc[c] \in {"byName", "recheck"}
         \/ pc'[c] = "filter" /\ pc[c] = "delete" /\ ~HasId(oracles', arg[c].id)
  PROVE  IdInv'
<1>1. /\ \A b \in Calls : pc'[b] \in Awaiting => pc[b] \in Awaiting
      /\ Storing' \subseteq Storing
      /\ \A b \in Calls : pc'[b] = "init" => pc[b] = "init"
      /\ \A b \in Calls : pc'[b] = "filter" => pc[b] = "filter" \/ ~HasId(oracles', arg[b].id)
  BY DEF Storing, Awaiting
<1>2. \A i : HasId(oracles', i) => HasId(oracles, i)
  BY DEF HasId
<1>3. QED
  BY <1>1, <1>2 DEF IdInv

\* A call begins whose argument is a registered oracle, or ends at once.
LEMMA IdOfRead ==
  ASSUME TypeOK, IdInv, NEW c \in Calls,
         pc' = [pc EXCEPT ![c] = pc'[c]], pc[c] \in Ended,
         \/ pc'[c] \in {"delete", "pick"} /\ \E d \in oracles : arg' = [arg EXCEPT ![c] = d]
         \/ pc'[c] \in Ended /\ UNCHANGED arg,
         UNCHANGED <<oracles, issued, owed>>
  PROVE  IdInv'
<1>1. \A b \in Calls : b # c => pc'[b] = pc[b] /\ arg'[b] = arg[b]
  BY DEF TypeOK
<1>2. pc'[c] \notin {"byName", "recheck", "insert", "init", "filter"} /\ c \notin Storing
  BY DEF Ended, Storing
<1>3. pc'[c] \in Awaiting => arg'[c] \in oracles
  BY DEF TypeOK, Ended, Awaiting
<1>4. Storing' = Storing
  BY <1>1, <1>2 DEF Storing
<1>5. pc'[c] \in Awaiting => \A b \in Storing : arg[b].id # arg'[c].id
  BY <1>3 DEF IdInv, HasId
<1>6. \A b \in Storing : b # c
  BY <1>2
<1>7. \A b \in Calls : pc'[b] \in Awaiting => arg'[b].id \in issued
  BY <1>1, <1>3 DEF IdInv
<1>8. \A b \in Storing :
        /\ arg'[b] = arg[b] /\ b \in Calls
        /\ \A x \in Calls : pc'[x] \in Awaiting /\ x # b => arg'[x].id # arg[b].id
  BY <1>1, <1>5, <1>6 DEF IdInv, Storing
<1>9. /\ \A b \in Storing' :
           /\ ~HasId(oracles', arg'[b].id)
           /\ \A r \in Replicas : arg'[b].id \notin owed'[r]
           /\ \A x \in Calls : pc'[x] \in Awaiting /\ x # b => arg'[x].id # arg'[b].id
      /\ \A d, e \in oracles' : d.id = e.id => d = e
      /\ \A d \in oracles' : d.id \in issued'
      /\ \A r \in Replicas : owed'[r] \subseteq issued'
  BY <1>4, <1>8 DEF IdInv
<1>10. \A b \in Calls : pc'[b] \in {"init", "filter"} => pc'[b] = pc[b] /\ arg'[b] = arg[b]
  BY <1>1, <1>2
<1>11. /\ \A b \in Calls, d \in oracles' : pc'[b] = "init" /\ d.id = arg'[b].id => d = arg'[b]
       /\ \A b \in Calls : pc'[b] = "filter" => ~HasId(oracles', arg'[b].id)
  BY <1>10 DEF IdInv
<1>12. QED
  BY <1>7, <1>9, <1>11 DEF IdInv

\* A new id is nobody's.
LEMMA IdOfAdd ==
  ASSUME ClientIds = {}, TypeOK, IdInv, NEW c \in Calls, NEW o \in NewOracles, AddOracle(c, o)
  PROVE  IdInv'
<1>1. o.id = Null
  BY OracleAssumption
<1>2. PICK u \in Uuids \ issued : /\ arg' = [arg EXCEPT ![c] = NewOracle(o, u)]
                                  /\ issued' = issued \cup {u}
  BY <1>1 DEF AddOracle
<1>3. /\ pc'[c] = "byName" /\ pc[c] \in Ended /\ arg'[c].id = u
      /\ \A b \in Calls : b # c => pc'[b] = pc[b] /\ arg'[b] = arg[b]
      /\ oracles' = oracles /\ owed' = owed
  BY <1>1, <1>2 DEF AddOracle, BeginsChange, Begins, Goto, TypeOK, NewOracle
<1>4. Storing' = Storing \cup {c} /\ c \notin Storing
  BY <1>3 DEF Storing, Ended
<1>5. /\ ~HasId(oracles, u)
      /\ \A r \in Replicas : u \notin owed[r]
      /\ \A b \in Calls : pc[b] \in Awaiting => arg[b].id # u
  BY <1>2 DEF IdInv, HasId
<1>6. pc'[c] \in Awaiting /\ Storing \subseteq Calls
      /\ \A b \in Storing : pc[b] \in Awaiting
  BY <1>3 DEF Storing, Awaiting
<1>7. QED
  BY <1>2, <1>3, <1>4, <1>5, <1>6 DEF IdInv

LEMMA IdOfInsert ==
  ASSUME TypeOK, IdInv, NEW c \in Calls, InsertOracle(c)
  PROVE  IdInv'
<1>1. /\ pc[c] = "insert" /\ pc'[c] \in {"init", "failed"}
      /\ \A b \in Calls : b # c => pc'[b] = pc[b]
      /\ oracles' = oracles \cup {arg[c]} /\ arg' = arg /\ owed' = owed /\ issued' = issued
  BY DEF InsertOracle, Goto, TypeOK
<1>2. c \in Storing /\ pc[c] \in Awaiting
  BY <1>1 DEF Storing, Awaiting
<1>3. /\ ~HasId(oracles, arg[c].id) /\ arg[c].id \in issued
      /\ \A b \in Calls : pc[b] \in Awaiting /\ b # c => arg[b].id # arg[c].id
  BY <1>2 DEF IdInv
<1>4. /\ Storing' = Storing \ {c}
      /\ \A b \in Calls : pc'[b] \in Awaiting => pc[b] \in Awaiting
      /\ \A b \in Calls : b # c /\ pc[b] \in {"init", "filter"} => pc[b] \in Awaiting
      /\ \A b \in Storing : b \in Calls /\ pc[b] \in Awaiting
  BY <1>1, <1>2 DEF Storing, Awaiting
<1>5. \A b \in Storing' : ~HasId(oracles', arg[b].id)
  BY <1>1, <1>3, <1>4 DEF IdInv, HasId
<1>6. \A d, e \in oracles' : d.id = e.id => d = e
  BY <1>1, <1>3 DEF IdInv, HasId
<1>7. \A b \in Calls, d \in oracles' : pc'[b] = "init" /\ d.id = arg[b].id => d = arg[b]
  BY <1>1, <1>3, <1>4 DEF IdInv, HasId
<1>8. \A b \in Calls : pc'[b] = "filter" => ~HasId(oracles', arg[b].id)
  BY <1>1, <1>3, <1>4 DEF IdInv, HasId
<1>9. QED
  BY <1>1, <1>3, <1>4, <1>5, <1>6, <1>7, <1>8 DEF IdInv

LEMMA IdOfInit ==
  ASSUME TypeOK, IdInv, NEW c \in Calls, InitAdapter(c)
  PROVE  IdInv'
<1>1. /\ pc[c] = "init" /\ pc'[c] \in {"added", "failed"}
      /\ \A b \in Calls : b # c => pc'[b] = pc[b]
      /\ oracles' = oracles /\ arg' = arg /\ issued' = issued
      /\ \A r \in Replicas : owed'[r] \subseteq owed[r] \cup {arg[c].id}
  BY DEF InitAdapter, Goto, TypeOK
<1>2. pc[c] \in Awaiting /\ pc'[c] \notin Awaiting /\ c \notin Storing
  BY <1>1 DEF Awaiting, Storing
<1>3. /\ Storing' = Storing
      /\ \A b \in Calls : pc'[b] \in Awaiting => pc[b] \in Awaiting
      /\ \A b \in Calls : pc'[b] \in {"init", "filter"} => pc'[b] = pc[b]
  BY <1>1, <1>2 DEF Storing, Awaiting
<1>4. \A b \in Storing : arg[b].id # arg[c].id
  BY <1>2 DEF IdInv
<1>5. arg[c].id \in issued
  BY <1>2 DEF IdInv
<1>6. QED
  BY <1>1, <1>3, <1>4, <1>5 DEF IdInv

\* A start owes the replica ids of documents that are stored.
LEMMA IdOfReplica ==
  ASSUME TypeOK, IdInv,
         oracles' = oracles, arg' = arg, issued' = issued,
         \A b \in Calls : pc'[b] = pc[b] \/ pc'[b] \notin Awaiting,
         \A r \in Replicas : owed'[r] \subseteq owed[r] \cup {d.id : d \in oracles}
  PROVE  IdInv'
<1>1. /\ Storing' \subseteq Storing
      /\ \A b \in Calls : pc'[b] \in Awaiting => pc[b] \in Awaiting
      /\ \A b \in Calls : pc'[b] \in {"init", "filter"} => pc'[b] = pc[b]
  BY DEF Storing, Awaiting
<1>2. \A b \in Storing : arg[b].id \notin {d.id : d \in oracles}
  BY DEF IdInv, HasId
<1>3. {d.id : d \in oracles} \subseteq issued
  BY DEF IdInv
<1>4. \A r \in Replicas : owed'[r] \subseteq issued
  BY <1>3 DEF IdInv
<1>5. \A b \in Storing' :
        /\ ~HasId(oracles, arg[b].id)
        /\ \A r \in Replicas : arg[b].id \notin owed'[r]
        /\ \A c \in Calls : pc'[c] \in Awaiting /\ c # b => arg[c].id # arg[b].id
  BY <1>1, <1>2 DEF IdInv
<1>6. QED
  BY <1>1, <1>4, <1>5 DEF IdInv

LEMMA IdStep ==
  ASSUME ClientIds = {}, TypeOK, IdInv, [Next]_vars
  PROVE  IdInv'
<1>1. ASSUME NEW c \in Calls, NEW i \in Ids, RemoveOracle(c, i)
      PROVE  IdInv'
  <2>1. /\ pc' = [pc EXCEPT ![c] = pc'[c]] /\ pc[c] \in Ended
        /\ \/ pc'[c] = "delete" /\ \E d \in oracles : arg' = [arg EXCEPT ![c] = d]
           \/ pc'[c] = "notFound" /\ UNCHANGED arg
        /\ UNCHANGED <<oracles, issued, owed>>
    BY <1>1 DEF RemoveOracle, BeginsChange, Begins, Goto, TypeOK
  <2>2. "notFound" \in Ended
    BY DEF Ended
  <2>3. QED
    BY <2>1, <2>2, IdOfRead
<1>2. ASSUME NEW c \in Calls, NEW t \in PartyTypes, NEW cur \in Currencies,
             ResolveAdapter(c, t, cur)
      PROVE  IdInv'
  <2>1. GetOracle(t, cur) \subseteq oracles
    BY DEF GetOracle, ForCurrency, ForPartyType
  <2>2. /\ pc' = [pc EXCEPT ![c] = pc'[c]] /\ pc[c] \in Ended
        /\ \/ pc'[c] = "pick" /\ \E d \in oracles : arg' = [arg EXCEPT ![c] = d]
           \/ pc'[c] = "notFound" /\ UNCHANGED arg
        /\ UNCHANGED <<oracles, issued, owed>>
    BY <1>2, <2>1 DEF ResolveAdapter, Begins, Goto, TypeOK
  <2>3. "notFound" \in Ended
    BY DEF Ended
  <2>4. QED
    BY <2>2, <2>3, IdOfRead
<1>3. ASSUME NEW c \in Calls,
             \/ CheckName(c) \/ Recheck(c) \/ FilterAdapters(c) \/ PickAdapter(c) \/ Fail(c)
      PROVE  IdInv'
  <2>1. /\ \A b \in Calls : b # c => pc'[b] = pc[b]
        /\ arg' = arg /\ owed' = owed /\ issued' = issued /\ oracles' = oracles
        /\ \/ pc'[c] \in {"duplicate", "failed", "removed", "resolved", "noAdapter"}
           \/ pc'[c] \in {"recheck", "insert"} /\ pc[c] \in {"byName", "recheck"}
    BY <1>3 DEF CheckName, Recheck, FilterAdapters, PickAdapter, Fail, Goto, TypeOK
  <2>2. pc'[c] \in {"duplicate", "failed", "removed", "resolved", "noAdapter"}
          => pc'[c] \notin Awaiting
    BY DEF Awaiting
  <2>3. QED
    BY <2>1, <2>2, IdOfCallStep
<1>4. ASSUME NEW c \in Calls, DeleteOracle(c)
      PROVE  IdInv'
  <2>1. /\ \A b \in Calls : b # c => pc'[b] = pc[b]
        /\ arg' = arg /\ owed' = owed /\ issued' = issued /\ oracles' \subseteq oracles
        /\ pc[c] = "delete" /\ pc'[c] \in {"filter", "failed"}
    BY <1>4 DEF DeleteOracle, Goto, TypeOK
  <2>2. pc'[c] = "filter" => \E d \in oracles : d.id = arg[c].id /\ oracles' = oracles \ {d}
    BY <1>4, <2>1 DEF DeleteOracle, Goto, TypeOK
  <2>3. pc'[c] = "filter" => ~HasId(oracles', arg[c].id)
    BY <2>2 DEF IdInv, HasId
  <2>4. pc'[c] = "failed" => pc'[c] \notin Awaiting
    BY DEF Awaiting
  <2>5. QED
    BY <2>1, <2>3, <2>4, IdOfCallStep
<1>5. ASSUME NEW r \in Replicas, Boot(r) \/ Crash(r)
      PROVE  IdInv'
  <2>1. /\ oracles' = oracles /\ arg' = arg /\ issued' = issued
        /\ \A b \in Calls : pc'[b] = pc[b] \/ pc'[b] = "failed"
    BY <1>5 DEF Boot, Start, LoadOracle, Started, StartFails, Crash, Stops
  <2>2. \A q \in Replicas : owed'[q] \subseteq owed[q] \cup {d.id : d \in oracles}
    BY <1>5 DEF Boot, Start, LoadOracle, Started, StartFails, Crash, Stops, TypeOK
  <2>3. "failed" \notin Awaiting
    BY DEF Awaiting
  <2>4. QED
    BY <2>1, <2>2, <2>3, IdOfReplica
<1>6. CASE UNCHANGED vars
  BY <1>6 DEF vars, IdInv, Storing, HasId
<1>7. QED
  BY <1>1, <1>2, <1>3, <1>4, <1>5, <1>6, IdOfAdd, IdOfInsert, IdOfInit DEF Next, Continue

LEMMA ServedStep ==
  ASSUME TypeOK, IdInv, ServedInv, [Next]_vars
  PROVE  ServedInv'
<1>1. ASSUME NEW c \in Calls,
             \/ \E o \in NewOracles : AddOracle(c, o)
             \/ \E i \in Ids : RemoveOracle(c, i)
             \/ \E t \in PartyTypes, cur \in Currencies : ResolveAdapter(c, t, cur)
             \/ CheckName(c) \/ Recheck(c) \/ DeleteOracle(c) \/ PickAdapter(c) \/ Fail(c)
      PROVE  ServedInv'
  <2>1. oracles' \subseteq oracles /\ UNCHANGED <<adapters, status, loading, owed>>
    BY <1>1 DEF AddOracle, RemoveOracle, ResolveAdapter, CheckName, Recheck, DeleteOracle,
                PickAdapter, Fail
  <2>2. QED
    BY <2>1 DEF ServedInv
<1>2. ASSUME NEW c \in Calls, InsertOracle(c)
      PROVE  ServedInv'
  <2>1. c \in Storing
    BY <1>2 DEF InsertOracle, Storing
  <2>2. \A r \in Replicas : arg[c].id \notin owed[r]
    BY <2>1 DEF IdInv
  <2>3. QED
    BY <1>2, <2>2 DEF InsertOracle, ServedInv
<1>3. ASSUME NEW c \in Calls, InitAdapter(c)
      PROVE  ServedInv'
  <2>1. CASE Initialisable(arg[c])
    <3>1. \A d \in oracles : d.id = arg[c].id => d = arg[c]
      BY <1>3 DEF InitAdapter, IdInv
    <3>2. QED
      BY <1>3, <2>1, <3>1 DEF InitAdapter, ServedInv, TypeOK
  <2>2. CASE ~Initialisable(arg[c])
    BY <1>3, <2>2 DEF InitAdapter, ServedInv
  <2>3. QED
    BY <2>1, <2>2
<1>4. ASSUME NEW c \in Calls, FilterAdapters(c)
      PROVE  ServedInv'
  <2>1. \A d \in oracles : d.id # arg[c].id
    BY <1>4 DEF FilterAdapters, IdInv, HasId
  <2>2. QED
    BY <1>4, <2>1 DEF FilterAdapters, ServedInv, TypeOK
<1>5. ASSUME NEW r \in Replicas, Boot(r) \/ Crash(r)
      PROVE  ServedInv'
  BY <1>5 DEF Boot, Start, LoadOracle, Started, StartFails, Crash, Stops, ServedInv, TypeOK
<1>6. CASE UNCHANGED vars
  BY <1>6 DEF vars, ServedInv
<1>7. QED
  BY <1>1, <1>2, <1>3, <1>4, <1>5, <1>6 DEF Next, Continue

\* Where the service chooses the ids, a replica serves what it reported as added
\* and what was registered when it started, for as long as it is registered:
\* any number of replicas and calls add and remove meanwhile, commands fail,
\* and replicas crash and start again.
THEOREM OwedIsServed ==
  ASSUME ClientIds = {}
  PROVE  Spec => []OwedServed
<1>1. Init => IdInv /\ ServedInv
  BY DEF Init, IdInv, ServedInv, Storing, Awaiting
<1>2. TypeOK /\ IdInv /\ ServedInv /\ [Next]_vars => IdInv' /\ ServedInv'
  BY IdStep, ServedStep
<1>3. ServedInv => OwedServed
  BY DEF ServedInv, OwedServed
<1>4. QED
  BY <1>1, <1>2, <1>3, TypeCorrect, PTL DEF Spec

----------------------------------------------------------------------------
Ready == {d \in oracles : Initialisable(d)}

\* With the one call c of the one replica r: ids and names are unique, and stay
\* so when c stores its oracle; the list is that of the documents that can be
\* initialised, but for what c is about to add or filter and what a start has
\* still to load.
SyncInv(r, c) ==
  /\ \A d, e \in oracles : d.id = e.id \/ d.name = e.name => d = e
  /\ \A d \in oracles : d.id \in Uuids => d.id \in issued
  /\ pc[c] \in {"byName", "recheck", "insert"} =>
       ~HasId(oracles, arg[c].id) /\ (arg[c].id \in Uuids => arg[c].id \in issued)
  /\ pc[c] \in {"recheck", "insert"} => \A d \in oracles : d.name # arg[c].name
  /\ pc[c] = "init" => arg[c] \in oracles
  /\ status[r] = "up" =>
       CASE pc[c] = "init"   -> adapters[r] = Ready \ {arg[c]}
         [] pc[c] = "filter" -> {a \in adapters[r] : a.id # arg[c].id} = Ready
         [] OTHER            -> adapters[r] = Ready
  /\ status[r] = "starting" =>
       adapters[r] \cup {d \in loading[r] : Initialisable(d)} = Ready
  /\ status[r] = "down" => adapters[r] = {}

\* Steps of the call that do not change the collection.
LEMMA SyncOfCall ==
  ASSUME NEW r, NEW c \in Calls, Replicas = {r}, Calls = {c}, c[1] = r,
         Faults = FALSE, TypeOK, SyncInv(r, c),
         \/ \E o \in NewOracles : AddOracle(c, o)
         \/ \E i \in Ids : RemoveOracle(c, i)
         \/ \E t \in PartyTypes, cur \in Currencies : ResolveAdapter(c, t, cur)
         \/ CheckName(c) \/ Recheck(c) \/ InitAdapter(c) \/ FilterAdapters(c) \/ PickAdapter(c)
  PROVE  SyncInv(r, c)'
<1>0. arg \in [Calls -> Oracles \cup {Null}] /\ adapters \in [Replicas -> SUBSET Oracles]
      /\ pc \in [Calls -> Ended \cup Awaiting] /\ r \in Replicas
  BY DEF TypeOK
<1>1. ASSUME NEW o \in NewOracles, AddOracle(c, o)
      PROVE  SyncInv(r, c)'
  <2>1. pc[c] \notin {"init", "filter"} /\ pc'[c] \in {"byName", "duplicate"}
        /\ UNCHANGED <<oracles, adapters, status, loading>> /\ issued \subseteq issued'
    BY <1>0, <1>1 DEF AddOracle, BeginsChange, Begins, Goto, Ended
  <2>2. pc'[c] = "byName" =>
          ~HasId(oracles, arg'[c].id) /\ (arg'[c].id \in Uuids => arg'[c].id \in issued')
    <3>1. CASE o.id # Null
      <4>1. o.id \notin Uuids
        BY <3>1, OracleAssumption, IdAssumption
      <4>2. QED
        BY <1>0, <1>1, <3>1, <4>1 DEF AddOracle, Goto, NewOracle
    <3>2. CASE o.id = Null
      <4>1. PICK u \in Uuids \ issued : /\ arg' = [arg EXCEPT ![c] = NewOracle(o, u)]
                                        /\ issued' = issued \cup {u}
        BY <1>1, <3>2 DEF AddOracle
      <4>2. arg'[c].id = u
        BY <1>0, <4>1 DEF NewOracle
      <4>3. ~HasId(oracles, u)
        BY DEF SyncInv, HasId
      <4>4. QED
        BY <4>1, <4>2, <4>3
    <3>3. QED
      BY <3>1, <3>2
  <2>3. QED
    BY <2>1, <2>2 DEF SyncInv, Ready, HasId
<1>2. ASSUME \/ \E i \in Ids : RemoveOracle(c, i)
             \/ \E t \in PartyTypes, cur \in Currencies : ResolveAdapter(c, t, cur)
      PROVE  SyncInv(r, c)'
  <2>1. pc[c] \notin {"init", "filter"} /\ pc'[c] \in {"delete", "pick", "notFound"}
        /\ UNCHANGED <<oracles, adapters, status, loading, issued>>
    BY <1>0, <1>2 DEF RemoveOracle, ResolveAdapter, BeginsChange, Begins, Goto, Ended
  <2>2. QED
    BY <2>1 DEF SyncInv, Ready
<1>3. ASSUME CheckName(c) \/ Recheck(c) \/ PickAdapter(c)
      PROVE  SyncInv(r, c)'
  <2>1. /\ pc[c] \notin {"init", "filter"} /\ pc'[c] \notin {"byName", "init", "filter"}
        /\ pc'[c] \in {"recheck", "insert"} =>
             pc[c] \in {"byName", "recheck"} /\ \A d \in oracles : d.name # arg[c].name
        /\ UNCHANGED <<oracles, adapters, status, loading, issued, arg>>
    BY <1>0, <1>3 DEF CheckName, Recheck, PickAdapter, Goto, SyncInv
  <2>2. QED
    BY <2>1 DEF SyncInv, Ready
<1>4. ASSUME InitAdapter(c)
      PROVE  SyncInv(r, c)'
  <2>1. /\ pc[c] = "init" /\ pc'[c] \in {"added", "failed"} /\ status[r] = "up"
        /\ UNCHANGED <<oracles, status, loading, issued, arg>>
    BY <1>0, <1>4 DEF InitAdapter, Goto, TypeOK, Awaiting
  <2>2. arg[c] \in oracles /\ adapters[r] = Ready \ {arg[c]}
    BY <2>1 DEF SyncInv
  <2>3. adapters'[r] = Ready
    BY <1>0, <1>4, <2>2 DEF InitAdapter, Ready
  <2>4. QED
    BY <2>1, <2>3 DEF SyncInv, Ready
<1>5. ASSUME FilterAdapters(c)
      PROVE  SyncInv(r, c)'
  <2>1. /\ pc[c] = "filter" /\ pc'[c] = "removed" /\ status[r] = "up"
        /\ UNCHANGED <<oracles, status, loading, issued, arg>>
    BY <1>0, <1>5 DEF FilterAdapters, Goto, TypeOK, Awaiting
  <2>2. adapters'[r] = Ready
    BY <1>0, <1>5, <2>1 DEF FilterAdapters, SyncInv
  <2>3. QED
    BY <2>1, <2>2 DEF SyncInv, Ready
<1>6. QED
  BY <1>1, <1>2, <1>3, <1>4, <1>5

\* The two steps that change the collection.
LEMMA SyncOfCollection ==
  ASSUME NEW r, NEW c \in Calls, Replicas = {r}, Calls = {c}, c[1] = r,
         Faults = FALSE, TypeOK, SyncInv(r, c), InsertOracle(c) \/ DeleteOracle(c)
  PROVE  SyncInv(r, c)'
<1>0. /\ UNCHANGED <<adapters, status, loading, issued, arg>>
      /\ pc \in [Calls -> Ended \cup Awaiting] /\ status[r] = "up"
      /\ adapters[r] = Ready
  BY DEF TypeOK, InsertOracle, DeleteOracle, Awaiting, SyncInv
<1>1. CASE InsertOracle(c)
  <2>1. /\ pc[c] = "insert" /\ pc'[c] = "init" /\ oracles' = oracles \cup {arg[c]}
    BY <1>0, <1>1 DEF InsertOracle, Goto
  <2>2. /\ \A d \in oracles : d.id # arg[c].id /\ d.name # arg[c].name
        /\ arg[c].id \in Uuids => arg[c].id \in issued
        /\ arg[c] \notin oracles
    BY <2>1 DEF SyncInv, HasId
  <2>3. adapters[r] = Ready' \ {arg[c]}
    BY <1>0, <2>1, <2>2 DEF Ready
  <2>4. /\ \A d, e \in oracles' : d.id = e.id \/ d.name = e.name => d = e
        /\ \A d \in oracles' : d.id \in Uuids => d.id \in issued
    BY <2>1, <2>2 DEF SyncInv
  <2>5. QED
    BY <1>0, <2>1, <2>3, <2>4 DEF SyncInv
<1>2. CASE DeleteOracle(c)
  <2>1. CASE \E d \in oracles : d.id = arg[c].id /\ oracles' = oracles \ {d} /\ Goto(c, "filter")
    <3>1. PICK d \in oracles : d.id = arg[c].id /\ oracles' = oracles \ {d} /\ Goto(c, "filter")
      BY <2>1
    <3>2. \A e \in oracles : e.id = arg[c].id => e = d
      BY <3>1 DEF SyncInv
    <3>3. {a \in adapters[r] : a.id # arg[c].id} = Ready'
      BY <1>0, <3>1, <3>2 DEF Ready
    <3>4. pc'[c] = "filter"
      BY <1>0, <3>1 DEF Goto
    <3>5. /\ \A e, f \in oracles' : e.id = f.id \/ e.name = f.name => e = f
          /\ \A e \in oracles' : e.id \in Uuids => e.id \in issued
      BY <3>1 DEF SyncInv
    <3>6. QED
      BY <1>0, <3>3, <3>4, <3>5 DEF SyncInv
  <2>2. CASE Goto(c, "failed") /\ UNCHANGED oracles
    <3>1. pc'[c] = "failed"
      BY <1>0, <2>2 DEF Goto
    <3>2. QED
      BY <1>0, <2>2, <3>1 DEF SyncInv, Ready
  <2>3. QED
    BY <1>2, <2>1, <2>2 DEF DeleteOracle
<1>3. QED
  BY <1>1, <1>2

LEMMA SyncOfReplica ==
  ASSUME NEW r, NEW c \in Calls, Replicas = {r}, Calls = {c}, c[1] = r,
         TypeOK, SyncInv(r, c), Boot(r) \/ Crash(r)
  PROVE  SyncInv(r, c)'
<1>0. /\ UNCHANGED <<oracles, arg, issued>>
      /\ adapters \in [Replicas -> SUBSET Oracles] /\ r \in Replicas
      /\ status \in [Replicas -> {"down", "starting", "up"}]
      /\ loading \in [Replicas -> SUBSET Oracles]
      /\ pc \in [Calls -> Ended \cup Awaiting]
      /\ status[r] # "up" => pc[c] \notin Awaiting
  BY DEF TypeOK, Boot, Start, LoadOracle, Started, StartFails, Crash, Stops
<1>1. CASE Start(r)
  BY <1>0, <1>1 DEF Start, SyncInv, Ready
<1>2. CASE LoadOracle(r)
  <2>1. PICK d \in loading[r] : /\ Initialisable(d)
                                /\ adapters'[r] = adapters[r] \cup {d}
                                /\ loading'[r] = loading[r] \ {d}
    BY <1>0, <1>2 DEF LoadOracle
  <2>2. adapters'[r] \cup {e \in loading'[r] : Initialisable(e)}
          = adapters[r] \cup {e \in loading[r] : Initialisable(e)}
    BY <2>1
  <2>3. /\ pc' = pc /\ status' = status /\ status[r] = "starting"
    BY <1>2 DEF LoadOracle
  <2>4. QED
    BY <1>0, <2>2, <2>3 DEF SyncInv, Ready
<1>3. CASE Started(r)
  <2>1. pc' = pc /\ status'[r] = "up" /\ status[r] = "starting" /\ adapters' = adapters
        /\ loading[r] = {}
    BY <1>0, <1>3 DEF Started
  <2>2. adapters[r] = Ready
    BY <2>1 DEF SyncInv
  <2>3. pc[c] \notin {"init", "filter", "byName", "recheck", "insert"}
    BY <1>0, <2>1 DEF Awaiting
  <2>4. QED
    BY <1>0, <2>1, <2>2, <2>3 DEF SyncInv, Ready
<1>4. CASE Stops(r)
  <2>1. /\ status'[r] = "down" /\ adapters'[r] = {}
        /\ pc'[c] \notin {"init", "filter", "byName", "recheck", "insert"}
    BY <1>0, <1>4 DEF Stops, Awaiting
  <2>2. QED
    BY <1>0, <2>1 DEF SyncInv
<1>5. QED
  BY <1>1, <1>2, <1>3, <1>4 DEF Boot, StartFails, Crash

\* One replica that serves one call at a time, and whose commands do not fail,
\* keeps its adapters in step with the collection, across any number of crashes
\* in the middle of a call: a start repairs what a crash has cut off.
THEOREM SequentialSync ==
  ASSUME NEW r, NEW s, Replicas = {r}, Slots = {s}, Faults = FALSE
  PROVE  Spec => []InSync
<1> DEFINE c == <<r, s>>
<1>0. c \in Calls /\ Calls = {c} /\ c[1] = r
  BY DEF Calls
<1>1. Init => SyncInv(r, c)
  BY <1>0 DEF Init, SyncInv, Ready
<1>2. TypeOK /\ SyncInv(r, c) /\ [Next]_vars => SyncInv(r, c)'
  <2> SUFFICES ASSUME TypeOK, SyncInv(r, c), [Next]_vars PROVE SyncInv(r, c)'
    OBVIOUS
  <2> HIDE DEF c
  <2>1. CASE UNCHANGED vars
    BY <2>1 DEF vars, SyncInv, Ready, HasId
  <2>2. ~Fail(c)
    BY DEF Fail
  <2>3. CASE Next
    BY <2>3, <2>2, <1>0, SyncOfCall, SyncOfCollection, SyncOfReplica DEF Next, Continue
  <2>4. QED
    BY <2>1, <2>3
<1>3. TypeOK /\ SyncInv(r, c) => InSync
  <2> SUFFICES ASSUME TypeOK, SyncInv(r, c), \A b \in Calls : pc[b] \in Ended
               PROVE  /\ \A d, e \in oracles : d.id = e.id \/ d.name = e.name => d = e
                      /\ \A q \in Replicas : status[q] = "up" =>
                           adapters[q] = {d \in oracles : Initialisable(d)}
    BY DEF InSync
  <2>1. pc[c] \notin {"init", "filter"}
    BY <1>0 DEF Ended
  <2>2. QED
    BY <2>1 DEF SyncInv, Ready
<1>4. QED
  BY <1>1, <1>2, <1>3, TypeCorrect, PTL DEF Spec
=============================================================================
