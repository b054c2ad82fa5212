------------------------ MODULE RemoteOracleProofs ------------------------
(***************************************************************************)
(* Theorems about the HTTP oracle service: types, durability of the saves  *)
(* that run alone, that no party is taken over, and that the service       *)
(* implements PartyDirectory.                                              *)
(***************************************************************************)
EXTENDS RemoteOracle, TLAPS

\* The URL and the key built from any arguments are well formed.
LEMMA ReceivedType ==
  ASSUME NEW k \in Keys
  PROVE  /\ Received(k).sub \in ReceivedSubs
         /\ CreateKey(Received(k)) \in MapKeys
BY DEF Keys, Received, ReceivedSubs, CreateKey, MapKeys

\* A change of one entry of a map gives a map.
LEMMA EntryType ==
  ASSUME NEW m \in Maps, NEW key \in MapKeys, NEW v \in Values \cup {Null}
  PROVE  [m EXCEPT ![key] = v] \in Maps
BY DEF Maps

LEMMA EmptyMapType == EmptyMap \in Maps
BY DEF EmptyMap, Maps

LEMMA InitType == Init => TypeOK
<1> SUFFICES ASSUME Init PROVE TypeOK
  OBVIOUS
<1>1. met \in [Slots -> [asked : Keys \cup {Null}, found : ReceivedSubs]]
  BY DEF Init, NoMeeting, ReceivedSubs
<1>2. QED
  BY <1>1, EmptyMapType, BoundAssumption DEF Init, TypeOK, Ended, Saving

\* A change of the map keeps the types of what it assigns.
LEMMA ChangesMapType ==
  ASSUME TypeOK, NEW s \in Slots, NEW m \in Maps, ChangesMap(s, m)
  PROVE  /\ associations' \in Maps /\ snap' \in [Slots -> Maps]
         /\ past' \in SUBSET Maps
         /\ pc' \in [Slots -> Ended \cup Saving]
         /\ changes' \in 0..MaxChanges /\ alone' \in BOOLEAN
BY BoundAssumption DEF TypeOK, ChangesMap, Goto, Saving

LEMMA NextType == TypeOK /\ [Next]_vars => TypeOK'
<1> SUFFICES ASSUME TypeOK, [Next]_vars PROVE TypeOK'
  OBVIOUS
<1>1. ASSUME NEW s \in Slots, NEW k \in Keys, GetParticipantFspId(s, k)
      PROVE  TypeOK'
  <2>1. pc' \in [Slots -> Ended \cup Saving]
    BY <1>1 DEF TypeOK, GetParticipantFspId, Goto, Ended
  <2>2. QED
    BY <1>1, <2>1 DEF TypeOK, GetParticipantFspId, Free
<1>2. ASSUME NEW s \in Slots, NEW f \in Fsps, NEW k \in Keys, AssociateParticipant(s, f, k)
      PROVE  TypeOK'
  <2> DEFINE q == Received(k)
             key == CreateKey(q)
             m == [associations EXCEPT ![key] = [fsp |-> f, sub |-> q.sub]]
  <2>1. key \in MapKeys /\ q.sub \in ReceivedSubs
    BY ReceivedType
  <2>2. m \in Maps
    BY <2>1, EntryType DEF TypeOK, Values
  <2>3. CASE associations[key] = Null
    <3>1. ChangesMap(s, m) /\ UNCHANGED <<up, file, data, crashes, met>>
      BY <1>2, <2>3 DEF AssociateParticipant
    <3>2. QED
      BY <1>2, <2>2, <3>1, ChangesMapType DEF TypeOK, AssociateParticipant, Free
  <2>4. CASE associations[key] # Null
    <3>1. associations[key].sub \in ReceivedSubs
      BY <2>1, <2>4 DEF TypeOK, Maps, Values
    <3>2. met' \in [Slots -> [asked : Keys \cup {Null}, found : ReceivedSubs]]
      BY <1>2, <2>4, <3>1 DEF TypeOK, AssociateParticipant
    <3>3. pc' \in [Slots -> Ended \cup Saving]
      BY <1>2, <2>4 DEF TypeOK, AssociateParticipant, Goto, Ended
    <3>4. QED
      BY <1>2, <2>4, <3>2, <3>3 DEF TypeOK, AssociateParticipant, Free
  <2>5. QED
    BY <2>3, <2>4
<1>3. ASSUME NEW s \in Slots, NEW f \in Fsps, NEW k \in Keys, DisassociateParticipant(s, f, k)
      PROVE  TypeOK'
  <2> DEFINE key == CreateKey(Received(k))
             m == [associations EXCEPT ![key] = Null]
  <2>1. m \in Maps
    BY ReceivedType, EntryType DEF TypeOK
  <2>2. CASE ChangesMap(s, m)
    BY <1>3, <2>1, <2>2, ChangesMapType DEF TypeOK, DisassociateParticipant, Free
  <2>3. CASE Goto(s, "500") /\ UNCHANGED <<associations, snap, alone, past, changes>>
    <3>1. pc' \in [Slots -> Ended \cup Saving]
      BY <2>3 DEF TypeOK, Goto, Ended
    <3>2. QED
      BY <1>3, <2>3, <3>1 DEF TypeOK, DisassociateParticipant, Free
  <2>4. QED
    BY <1>3, <2>2, <2>3 DEF DisassociateParticipant
<1>4. ASSUME NEW s \in Slots, OpenFile(s)
      PROVE  TypeOK'
  <2>1. pc' \in [Slots -> Ended \cup Saving]
    BY <1>4 DEF TypeOK, OpenFile, Goto, Ended, Saving
  <2>2. up
    BY <1>4 DEF TypeOK, OpenFile, Ended
  <2>3. QED
    BY <1>4, <2>1, <2>2, EmptyMapType DEF TypeOK, OpenFile
<1>5. ASSUME NEW s \in Slots, WriteFile(s)
      PROVE  TypeOK'
  <2>1. pc' \in [Slots -> Ended \cup Saving]
    BY <1>5 DEF TypeOK, WriteFile, Goto, Ended
  <2>2. up
    BY <1>5 DEF TypeOK, WriteFile, Ended
  <2>3. snap' \in [Slots -> Maps]
    BY <1>5, EmptyMapType DEF TypeOK, WriteFile
  <2>4. file' \in {"absent", "empty", "torn", "data"} /\ data' \in Maps /\ alone' \in BOOLEAN
    BY <1>5, EmptyMapType DEF TypeOK, WriteFile
  <2>5. file' # "data" => data' = EmptyMap
    BY <1>5 DEF TypeOK, WriteFile
  <2>6. up' = up /\ UNCHANGED <<associations, past, met, changes, crashes>>
    BY <1>5 DEF WriteFile
  <2>7. QED
    BY <2>1, <2>2, <2>3, <2>4, <2>5, <2>6 DEF TypeOK
<1>6. CASE Crash
  <2>1. met' \in [Slots -> [asked : Keys \cup {Null}, found : ReceivedSubs]]
    BY <1>6 DEF Crash, NoMeeting, ReceivedSubs
  <2>2. crashes' \in 0..MaxCrashes
    BY <1>6, BoundAssumption DEF TypeOK, Crash
  <2>3. QED
    BY <1>6, <2>1, <2>2, EmptyMapType DEF TypeOK, Crash, Ended
<1>7. CASE Restart
  BY <1>7 DEF TypeOK, Restart
<1>8. CASE UNCHANGED vars
  BY <1>8 DEF TypeOK, vars
<1>9. QED
  BY <1>1, <1>2, <1>3, <1>4, <1>5, <1>6, <1>7, <1>8 DEF Next

\* Every variable of the oracle service has its type, for any participants,
\* parties, numbers of requests at a time and failures.
THEOREM TypeCorrect == Spec => []TypeOK
BY InitType, NextType, PTL DEF Spec

----------------------------------------------------------------------------
\* While no save has overlapped or failed, at most one is in progress; it will
\* write what the map holds, it has emptied the file before it writes, and
\* when none is in progress file and map agree.
DurableInv ==
  (up /\ alone) =>
    /\ \A s, t \in Slots : pc[s] \in Saving /\ pc[t] \in Saving => s = t
    /\ \A s \in Slots : pc[s] \in Saving => snap[s] = associations
    /\ \A s \in Slots : pc[s] = "write" => file = "empty"
    /\ (\A s \in Slots : pc[s] \in Ended) => file # "torn" /\ associations = data

LEMMA SavingOrEnded ==
  ASSUME TypeOK, NEW s \in Slots
  PROVE  pc[s] \in Saving <=> pc[s] \notin Ended
BY DEF TypeOK, Saving, Ended

\* A change of the map starts a save; it is the only one when it is alone.
LEMMA ChangesMapDurable ==
  ASSUME TypeOK, NEW s \in Slots, NEW m, ChangesMap(s, m), UNCHANGED file
  PROVE  DurableInv'
<1> SUFFICES ASSUME alone' PROVE DurableInv'
  BY DEF DurableInv
<1>1. \A t \in Slots : pc'[t] = IF t = s THEN "open" ELSE pc[t]
  BY DEF TypeOK, ChangesMap, Goto
<1>2. \A t \in Slots : pc'[t] \in Saving => t = s
  BY <1>1 DEF ChangesMap, Saving, Ended
<1>3. snap'[s] = associations'
  BY DEF TypeOK, ChangesMap
<1>4. pc'[s] \notin Ended
  BY <1>1 DEF Ended
<1>5. QED
  BY <1>1, <1>2, <1>3, <1>4 DEF DurableInv, Saving

\* A step that ends a call of a slot that was not saving changes nothing else.
LEMMA GotoDurable ==
  ASSUME TypeOK, DurableInv, NEW s \in Slots, NEW l \in Ended, pc[s] \in Ended, Goto(s, l),
         UNCHANGED <<up, alone, snap, associations, file, data>>
  PROVE  DurableInv'
<1>1. \A t \in Slots : pc'[t] = IF t = s THEN l ELSE pc[t]
  BY DEF TypeOK, Goto
<1>2. \A t \in Slots : pc'[t] \in Saving => pc'[t] = pc[t]
  BY <1>1 DEF Saving, Ended
<1>3. (\A t \in Slots : pc'[t] \in Ended) => \A t \in Slots : pc[t] \in Ended
  BY <1>1
<1>4. \A t \in Slots : pc'[t] = "write" => pc[t] = "write"
  BY <1>2 DEF Saving
<1>5. QED
  BY <1>2, <1>3, <1>4 DEF DurableInv

LEMMA NextDurable == TypeOK /\ DurableInv /\ [Next]_vars => DurableInv'
<1> SUFFICES ASSUME TypeOK, DurableInv, [Next]_vars PROVE DurableInv'
  OBVIOUS
<1>1. ASSUME NEW s \in Slots, NEW k \in Keys, GetParticipantFspId(s, k)
      PROVE  DurableInv'
  <2>1. PICK l \in Ended : Goto(s, l)
    BY <1>1 DEF GetParticipantFspId, Ended
  <2>2. QED
    BY <1>1, <2>1, GotoDurable DEF GetParticipantFspId, Free
<1>2. ASSUME NEW s \in Slots, NEW f \in Fsps, NEW k \in Keys, AssociateParticipant(s, f, k)
      PROVE  DurableInv'
  <2>1. \/ \E m : ChangesMap(s, m)
        \/ Goto(s, "duplicate") /\ UNCHANGED <<associations, snap, alone, past, changes>>
    BY <1>2 DEF AssociateParticipant
  <2>2. UNCHANGED <<up, file, data>> /\ pc[s] \in Ended
    BY <1>2 DEF AssociateParticipant, Free
  <2>3. "duplicate" \in Ended
    BY DEF Ended
  <2>4. QED
    BY <2>1, <2>2, <2>3, ChangesMapDurable, GotoDurable
<1>3. ASSUME NEW s \in Slots, NEW f \in Fsps, NEW k \in Keys, DisassociateParticipant(s, f, k)
      PROVE  DurableInv'
  <2>1. \/ \E m : ChangesMap(s, m)
        \/ Goto(s, "500") /\ UNCHANGED <<associations, snap, alone, past, changes>>
    BY <1>3 DEF DisassociateParticipant
  <2>2. UNCHANGED <<up, file, data>> /\ pc[s] \in Ended
    BY <1>3 DEF DisassociateParticipant, Free
  <2>3. "500" \in Ended
    BY DEF Ended
  <2>4. QED
    BY <2>1, <2>2, <2>3, ChangesMapDurable, GotoDurable
<1>4. ASSUME NEW s \in Slots, OpenFile(s)
      PROVE  DurableInv'
  <2> SUFFICES ASSUME up', alone' PROVE DurableInv'
    BY DEF DurableInv
  <2>1. up /\ alone /\ file' = "empty" /\ Goto(s, "write") /\ UNCHANGED <<snap, associations>>
    BY <1>4 DEF OpenFile
  <2>2. pc[s] \in Saving
    BY <1>4 DEF OpenFile, Saving
  <2>3. \A t \in Slots : pc'[t] = IF t = s THEN "write" ELSE pc[t]
    BY <2>1 DEF TypeOK, Goto
  <2>4. \A t \in Slots : pc'[t] \in Saving => pc[t] \in Saving
    BY <2>2, <2>3
  <2>5. pc'[s] \notin Ended
    BY <2>3 DEF Ended
  <2>6. QED
    BY <2>1, <2>4, <2>5 DEF DurableInv
<1>5. ASSUME NEW s \in Slots, WriteFile(s)
      PROVE  DurableInv'
  <2> SUFFICES ASSUME up', alone' PROVE DurableInv'
    BY DEF DurableInv
  <2>1. up /\ alone /\ pc[s] = "write"
    BY <1>5 DEF WriteFile
  <2>2. file = "empty" /\ snap[s] = associations
    BY <2>1 DEF DurableInv, Saving
  <2>3. /\ file' = "data" /\ data' = snap[s] /\ Goto(s, "200")
        /\ associations' = associations
    BY <1>5, <2>2 DEF WriteFile
  <2>4. \A t \in Slots : pc'[t] = IF t = s THEN "200" ELSE pc[t]
    BY <2>3 DEF TypeOK, Goto
  <2>5. \A t \in Slots : pc[t] \in Saving => t = s
    BY <2>1 DEF DurableInv, Saving
  <2>6. \A t \in Slots : pc'[t] \notin Saving
    BY <2>4, <2>5 DEF Saving
  <2>7. QED
    BY <2>2, <2>3, <2>6 DEF DurableInv, Saving
<1>6. CASE Crash
  BY <1>6 DEF Crash, DurableInv
<1>7. CASE Restart
  <2>1. \A s \in Slots : pc'[s] \in Ended
    BY <1>7 DEF Restart, TypeOK
  <2>2. \A s \in Slots : pc'[s] \notin Saving /\ pc'[s] # "write"
    BY <2>1 DEF Saving, Ended
  <2>3. file' # "torn" /\ associations' = data'
    BY <1>7 DEF Restart
  <2>4. QED
    BY <2>2, <2>3 DEF DurableInv
<1>8. CASE UNCHANGED vars
  BY <1>8 DEF DurableInv, vars
<1>9. QED
  BY <1>1, <1>2, <1>3, <1>4, <1>5, <1>6, <1>7, <1>8 DEF Next

\* A save that runs alone and does not fail leaves the file in agreement with
\* the map, whatever earlier saves have done to each other and to the file.
THEOREM SavesAreDurable == Spec => []Durable
<1>1. Init => DurableInv
  BY DEF Init, DurableInv, Saving
<1>2. DurableInv => Durable
  BY DEF DurableInv, Durable
<1>3. QED
  BY <1>1, <1>2, TypeCorrect, NextDurable, PTL DEF Spec

----------------------------------------------------------------------------
\* What NoTakeover asks of a step: an entry that stays keeps its participant.
NoTakeoverStep ==
  up /\ up' =>
    \A k \in MapKeys : associations[k] # Null /\ associations'[k] # Null =>
                         associations'[k].fsp = associations[k].fsp

LEMMA NextNoTakeover == TypeOK /\ [Next]_vars => NoTakeoverStep
<1> SUFFICES ASSUME TypeOK, [Next]_vars, up, up' PROVE NoTakeoverStep
  BY DEF NoTakeoverStep
<1>1. CASE associations' = associations
  BY <1>1 DEF NoTakeoverStep
<1>2. ASSUME NEW s \in Slots, NEW f \in Fsps, NEW k \in Keys, AssociateParticipant(s, f, k)
      PROVE  NoTakeoverStep
  <2> DEFINE key == CreateKey(Received(k))
  <2>1. CASE associations[key] = Null
    <3>1. \A l \in MapKeys : l # key => associations'[l] = associations[l]
      BY <1>2, <2>1 DEF AssociateParticipant, ChangesMap, TypeOK, Maps
    <3>2. QED
      BY <2>1, <3>1 DEF NoTakeoverStep
  <2>2. CASE associations[key] # Null
    BY <1>2, <2>2 DEF AssociateParticipant, NoTakeoverStep
  <2>3. QED
    BY <2>1, <2>2
<1>3. ASSUME NEW s \in Slots, NEW f \in Fsps, NEW k \in Keys, DisassociateParticipant(s, f, k)
      PROVE  NoTakeoverStep
  <2> DEFINE key == CreateKey(Received(k))
  <2>1. CASE associations' = [associations EXCEPT ![key] = Null]
    <3>1. \A l \in MapKeys : associations'[l] = IF l = key THEN Null ELSE associations[l]
      BY <2>1 DEF TypeOK, Maps
    <3>2. QED
      BY <3>1 DEF NoTakeoverStep
  <2>2. QED
    BY <1>1, <1>3, <2>1 DEF DisassociateParticipant, ChangesMap
<1>4. (\E s \in Slots, k \in Keys : GetParticipantFspId(s, k)) => associations' = associations
  BY DEF GetParticipantFspId
<1>5. (\E s \in Slots : OpenFile(s) \/ WriteFile(s)) => associations' = associations
  BY DEF OpenFile, WriteFile
<1>6. ~Crash /\ ~Restart
  BY DEF Crash, Restart, TypeOK
<1>7. QED
  BY <1>1, <1>2, <1>3, <1>4, <1>5, <1>6 DEF Next, vars

\* While the service runs no party passes from one participant to another
\* without having been given up first.
THEOREM PartiesAreNotTakenOver == Spec => NoTakeover
<1>1. TypeOK /\ [Next]_vars => [NoTakeoverStep]_vars
  BY NextNoTakeover
<1>2. QED
  BY <1>1, TypeCorrect, PTL DEF Spec, NoTakeover, NoTakeoverStep

----------------------------------------------------------------------------
\* Whatever may become the map has been the map: what is in the file, and what
\* the saves in progress will write to it.
PastInv ==
  /\ {EmptyMap, associations, data} \subseteq past
  /\ \A s \in Slots : snap[s] \in past

LEMMA InitPast == Init => PastInv
BY DEF Init, PastInv

\* A change of the map adds what the map becomes and what the save will write.
LEMMA ChangesMapPast ==
  ASSUME TypeOK, PastInv, NEW s \in Slots, NEW m, ChangesMap(s, m), UNCHANGED data
  PROVE  PastInv'
<1>1. \A t \in Slots : snap'[t] = IF t = s THEN m ELSE snap[t]
  BY DEF TypeOK, ChangesMap
<1>2. QED
  BY <1>1 DEF PastInv, ChangesMap

LEMMA NextPast == TypeOK /\ PastInv /\ [Next]_vars => PastInv'
<1> SUFFICES ASSUME TypeOK, PastInv, [Next]_vars PROVE PastInv'
  OBVIOUS
<1>1. CASE UNCHANGED <<associations, data, snap, past>>
  BY <1>1 DEF PastInv
<1>2. ASSUME NEW s \in Slots, NEW k \in Keys, GetParticipantFspId(s, k)
      PROVE  PastInv'
  BY <1>1, <1>2 DEF GetParticipantFspId
<1>3. ASSUME NEW s \in Slots, NEW f \in Fsps, NEW k \in Keys, AssociateParticipant(s, f, k)
      PROVE  PastInv'
  <2>1. \/ \E m : ChangesMap(s, m)
        \/ UNCHANGED <<associations, snap, past>>
    BY <1>3 DEF AssociateParticipant
  <2>2. UNCHANGED data
    BY <1>3 DEF AssociateParticipant
  <2>3. QED
    BY <1>1, <2>1, <2>2, ChangesMapPast
<1>4. ASSUME NEW s \in Slots, NEW f \in Fsps, NEW k \in Keys, DisassociateParticipant(s, f, k)
      PROVE  PastInv'
  <2>1. \/ \E m : ChangesMap(s, m)
        \/ UNCHANGED <<associations, snap, past>>
    BY <1>4 DEF DisassociateParticipant
  <2>2. UNCHANGED data
    BY <1>4 DEF DisassociateParticipant
  <2>3. QED
    BY <1>1, <2>1, <2>2, ChangesMapPast
<1>5. ASSUME NEW s \in Slots, OpenFile(s)
      PROVE  PastInv'
  BY <1>5 DEF OpenFile, PastInv
<1>6. ASSUME NEW s \in Slots, WriteFile(s)
      PROVE  PastInv'
  <2>1. data' \in past
    BY <1>6 DEF WriteFile, PastInv
  <2>2. \A t \in Slots : snap'[t] = IF t = s THEN EmptyMap ELSE snap[t]
    BY <1>6 DEF TypeOK, WriteFile
  <2>3. QED
    BY <1>6, <2>1, <2>2 DEF WriteFile, PastInv
<1>7. CASE Crash
  BY <1>7 DEF Crash, PastInv
<1>8. CASE Restart
  BY <1>8 DEF Restart, PastInv
<1>9. QED
  BY <1>1, <1>2, <1>3, <1>4, <1>5, <1>6, <1>7, <1>8 DEF Next, vars

\* A change of one entry is a step of the directory.
LEMMA ChangesMapEnters ==
  ASSUME NEW s \in Slots, NEW key \in MapKeys, NEW v \in Values, associations[key] = Null,
         ChangesMap(s, [associations EXCEPT ![key] = v]), up, UNCHANGED up
  PROVE  Directory!Next
<1>1. Directory!Enter(key, v)
  BY DEF ChangesMap, Directory!Enter, Directory!Becomes
<1>2. QED
  BY <1>1 DEF Directory!Next

LEMMA ChangesMapTakesOut ==
  ASSUME NEW s \in Slots, NEW key \in MapKeys,
         ChangesMap(s, [associations EXCEPT ![key] = Null]), up, UNCHANGED up
  PROVE  Directory!Next
<1>1. Directory!TakeOut(key)
  BY DEF ChangesMap, Directory!TakeOut, Directory!Becomes
<1>2. QED
  BY <1>1 DEF Directory!Next

LEMMA NextDirectory ==
  TypeOK /\ PastInv /\ [Next]_vars => [Directory!Next]_<<associations, past, up>>
<1> SUFFICES ASSUME TypeOK, PastInv, [Next]_vars PROVE [Directory!Next]_<<associations, past, up>>
  OBVIOUS
<1>1. CASE UNCHANGED <<associations, past, up>>
  BY <1>1
<1>2. ASSUME NEW s \in Slots, NEW f \in Fsps, NEW k \in Keys, AssociateParticipant(s, f, k)
      PROVE  [Directory!Next]_<<associations, past, up>>
  <2> DEFINE q == Received(k)
             key == CreateKey(q)
             v == [fsp |-> f, sub |-> q.sub]
  <2>1. key \in MapKeys /\ v \in Values
    BY ReceivedType DEF Values
  <2>2. \/ associations[key] = Null /\ ChangesMap(s, [associations EXCEPT ![key] = v])
           /\ up /\ UNCHANGED up
        \/ UNCHANGED <<associations, past, up>>
    BY <1>2 DEF AssociateParticipant, Free
  <2>3. QED
    BY <1>1, <2>1, <2>2, ChangesMapEnters
<1>3. ASSUME NEW s \in Slots, NEW f \in Fsps, NEW k \in Keys, DisassociateParticipant(s, f, k)
      PROVE  [Directory!Next]_<<associations, past, up>>
  <2> DEFINE key == CreateKey(Received(k))
  <2>1. key \in MapKeys
    BY ReceivedType
  <2>2. \/ ChangesMap(s, [associations EXCEPT ![key] = Null]) /\ up /\ UNCHANGED up
        \/ UNCHANGED <<associations, past, up>>
    BY <1>3 DEF DisassociateParticipant, Free
  <2>3. QED
    BY <1>1, <2>1, <2>2, ChangesMapTakesOut
<1>4. (\E s \in Slots, k \in Keys : GetParticipantFspId(s, k)) => UNCHANGED <<associations, past, up>>
  BY DEF GetParticipantFspId
<1>5. (\E s \in Slots : OpenFile(s) \/ WriteFile(s)) => UNCHANGED <<associations, past, up>>
  BY DEF OpenFile, WriteFile
<1>6. Crash \/ Restart => Directory!FallBack
  BY DEF TypeOK, Crash, Restart, PastInv, Directory!FallBack
<1>7. QED
  BY <1>1, <1>2, <1>3, <1>4, <1>5, <1>6 DEF Next, vars, Directory!Next

\* The service implements PartyDirectory: entries are added and taken out one
\* by one and never overwritten, and what a crash and a restart lead to is the
\* map as it was at some earlier time.
THEOREM DirectoryImplemented == Spec => ImplementsDirectory
<1>1. Init => Directory!Init
  BY DEF Init, EmptyMap, Directory!Init
<1>2. QED
  BY <1>1, InitPast, NextPast, NextDirectory, TypeCorrect, PTL
     DEF Spec, ImplementsDirectory, Directory!Spec
=============================================================================
