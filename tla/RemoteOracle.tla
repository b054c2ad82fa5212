---------------------------- MODULE RemoteOracle ----------------------------
(***************************************************************************)
(* The HTTP oracle service (RemoteOracle behind its express routes) as the *)
(* HttpOracleProvider adapter of the account lookup service drives it: a   *)
(* map of associations in memory, written to a JSON file as a whole after  *)
(* each change and read back when the service starts.                      *)
(*                                                                         *)
(* Requests are served concurrently; each save is an independent writeFile *)
(* (open with truncation, then write), and saves are not serialised.  The  *)
(* contents are small enough to be written by one system call.             *)
(***************************************************************************)
EXTENDS Naturals

CONSTANTS
  Fsps, Parties, SubTypes, Currencies,
  Null,        \* an absent sub type or currency
  Slots,       \* requests served at a time
  MaxChanges,  \* bound: changes of the map
  MaxCrashes,  \* bound: crashes
  Faults       \* whether saving may fail

ASSUME NullAssumption == Null \notin Fsps \cup SubTypes \cup Currencies
ASSUME BoundAssumption == MaxChanges \in Nat /\ MaxCrashes \in Nat /\ Faults \in BOOLEAN

\* What the adapter is asked about.
Keys == [party : Parties, sub : SubTypes \cup {Null}, cur : Currencies \cup {Null}]

\* The URL the adapter builds, as express reads it: the sub type gets a slash,
\* and a currency after a sub type is appended with a second question mark and
\* so becomes a part of the sub type's value.
Received(k) ==
  [party |-> k.party,
   sub |-> IF k.sub = Null THEN Null ELSE <<k.sub, k.cur>>,
   cur |-> IF k.sub = Null THEN k.cur ELSE Null]

ReceivedSubs == {Null} \cup (SubTypes \X (Currencies \cup {Null}))

\* createKey: the key of the map.
CreateKey(q) == [party |-> q.party, cur |-> q.cur]

MapKeys == [party : Parties, cur : Currencies \cup {Null}]
Values == [fsp : Fsps, sub : ReceivedSubs]
Maps == [MapKeys -> Values \cup {Null}]
EmptyMap == [k \in MapKeys |-> Null]

VARIABLES
  up,            \* whether the service runs
  associations,  \* the map in memory
  file,          \* the file: "absent", "empty", "torn" (not JSON), or "data"
  data,          \* its contents (no associations unless it is "data")
  pc,            \* per request slot: the await of its save, or its last status
  snap,          \* what its save writes
  alone,         \* history: no save has overlapped or failed since one began
                 \* alone, or since the start
  past,          \* history: what the map has been
  met,           \* the arguments and the entry a refused association met
  changes, crashes

vars == <<up, associations, file, data, pc, snap, alone, past, met, changes, crashes>>

Ended == {"ready", "200", "404", "500", "duplicate"}
Saving == {"open", "write"}

NoMeeting == [asked |-> Null, found |-> Null]

Init ==
  /\ up = TRUE
  /\ associations = EmptyMap
  /\ file = "absent"
  /\ data = EmptyMap
  /\ pc = [s \in Slots |-> "ready"]
  /\ snap = [s \in Slots |-> EmptyMap]
  /\ alone = TRUE
  /\ past = {EmptyMap}
  /\ met = [s \in Slots |-> NoMeeting]
  /\ changes = 0
  /\ crashes = 0

Goto(s, l) == pc' = [pc EXCEPT ![s] = l]

Free(s) == up /\ pc[s] \in Ended

\* GET: a party that is not known is a 404, which the adapter turns into an error.
GetParticipantFspId(s, k) ==
  /\ Free(s)
  /\ Goto(s, IF associations[CreateKey(Received(k))] # Null THEN "200" ELSE "404")
  /\ UNCHANGED <<up, associations, file, data, snap, alone, past, met, changes, crashes>>

\* The map changes and, in the same step, what the save will write is fixed.
ChangesMap(s, m) ==
  /\ changes < MaxChanges
  /\ changes' = changes + 1
  /\ associations' = m
  /\ snap' = [snap EXCEPT ![s] = m]
  /\ Goto(s, "open")
  /\ alone' = \A t \in Slots \ {s} : pc[t] \in Ended
  /\ past' = past \cup {m}

\* Mutant of AssociateParticipant: the entry is set although the key is taken.
AssociateOverwrites(s, f, k) ==
  LET q == Received(k)
  IN  /\ Free(s)
      /\ ChangesMap(s, [associations EXCEPT ![CreateKey(q)] = [fsp |-> f, sub |-> q.sub]])
      /\ UNCHANGED <<up, file, data, met, crashes>>

\* POST: refused when the key is taken.
AssociateParticipant(s, f, k) ==
  LET q == Received(k)
      key == CreateKey(q)
  IN  /\ Free(s)
      /\ \/ /\ associations[key] = Null
            /\ ChangesMap(s, [associations EXCEPT ![key] = [fsp |-> f, sub |-> q.sub]])
            /\ UNCHANGED met
         \/ /\ associations[key] # Null
            /\ Goto(s, "duplicate")
            /\ met' = [met EXCEPT ![s] = [asked |-> k, found |-> associations[key].sub]]
            /\ UNCHANGED <<associations, snap, alone, past, changes>>
      /\ UNCHANGED <<up, file, data, crashes>>

\* DELETE: refused unless the key is held by this participant.
DisassociateParticipant(s, f, k) ==
  LET key == CreateKey(Received(k))
      held == associations[key] # Null /\ associations[key].fsp = f
  IN  /\ Free(s)
      /\ \/ held /\ ChangesMap(s, [associations EXCEPT ![key] = Null])
         \/ ~held /\ Goto(s, "500") /\ UNCHANGED <<associations, snap, alone, past, changes>>
      /\ UNCHANGED <<up, file, data, met, crashes>>

----------------------------------------------------------------------------
(* _saveToFile *)

\* Mutant of OpenFile: the save is taken for done once the file is open.
OpenFileOnly(s) ==
  /\ pc[s] = "open"
  /\ file' = "empty" /\ data' = EmptyMap /\ Goto(s, "200")
  /\ UNCHANGED <<up, associations, snap, alone, past, met, changes, crashes>>

\* writeFile truncates the file when it opens it.  A save that fails makes the
\* request fail, while the map stays changed.
OpenFile(s) ==
  /\ pc[s] = "open"
  /\ \/ file' = "empty" /\ Goto(s, "write") /\ UNCHANGED alone
     \/ Faults /\ file' \in {file, "empty"} /\ Goto(s, "500") /\ alone' = FALSE
  /\ data' = IF file' = "empty" THEN EmptyMap ELSE data
  /\ UNCHANGED <<up, associations, snap, past, met, changes, crashes>>

\* Mutant of WriteFile: what is left behind of another save's contents is read
\* as if it were a part of this one's.
WriteFileMixed(s) ==
  /\ pc[s] = "write"
  /\ file' = "data"
  /\ data' = [k \in MapKeys |-> IF snap[s][k] # Null THEN snap[s][k] ELSE data[k]]
  /\ Goto(s, "200")
  /\ snap' = [snap EXCEPT ![s] = EmptyMap]
  /\ UNCHANGED <<up, associations, alone, past, met, changes, crashes>>

\* A write over what another save has written meanwhile leaves the end of that
\* contents behind if it was longer.
WriteFile(s) ==
  /\ pc[s] = "write"
  /\ \/ file' = "data" /\ data' = snap[s] /\ Goto(s, "200") /\ UNCHANGED alone
     \/ /\ file = "torn" \/ (file = "data" /\ data # snap[s])
        /\ file' = "torn" /\ Goto(s, "200")
        /\ data' = EmptyMap
        /\ UNCHANGED alone
     \/ Faults /\ Goto(s, "500") /\ alone' = FALSE /\ UNCHANGED <<file, data>>
  /\ snap' = [snap EXCEPT ![s] = EmptyMap]
  /\ UNCHANGED <<up, associations, past, met, changes, crashes>>

----------------------------------------------------------------------------
\* Mutant of Crash: the saves go on.
CrashKeepingSaves ==
  /\ up
  /\ crashes < MaxCrashes
  /\ crashes' = crashes + 1
  /\ up' = FALSE
  /\ associations' = EmptyMap
  /\ UNCHANGED <<file, data, pc, snap, alone, past, met, changes>>

\* The process ends: the map and the saves in progress are lost.
Crash ==
  /\ up
  /\ crashes < MaxCrashes
  /\ crashes' = crashes + 1
  /\ up' = FALSE
  /\ associations' = EmptyMap
  /\ pc' = [s \in Slots |-> "ready"]
  /\ snap' = [s \in Slots |-> EmptyMap]
  /\ met' = [s \in Slots |-> NoMeeting]
  /\ UNCHANGED <<file, data, alone, past, changes>>

\* init and _loadFromFile: no file and an empty file mean no associations, a
\* file that is not JSON makes the start fail.
Restart ==
  /\ ~up
  /\ file # "torn"
  /\ up' = TRUE
  /\ associations' = data
  /\ alone' = TRUE
  /\ UNCHANGED <<file, data, pc, snap, past, met, changes, crashes>>

Next ==
  \/ \E s \in Slots, k \in Keys : GetParticipantFspId(s, k)
  \/ \E s \in Slots, f \in Fsps, k \in Keys :
       AssociateParticipant(s, f, k) \/ DisassociateParticipant(s, f, k)
  \/ \E s \in Slots : OpenFile(s) \/ WriteFile(s)
  \/ Crash
  \/ Restart

Spec == Init /\ [][Next]_vars

----------------------------------------------------------------------------
(* Properties *)

\* Every variable has its type; a save does not outlive its process, and a
\* file that is not whole holds no associations.
TypeOK ==
  /\ up \in BOOLEAN /\ alone \in BOOLEAN
  /\ associations \in Maps /\ data \in Maps /\ past \in SUBSET Maps
  /\ file \in {"absent", "empty", "torn", "data"}
  /\ pc \in [Slots -> Ended \cup Saving]
  /\ snap \in [Slots -> Maps]
  /\ met \in [Slots -> [asked : Keys \cup {Null}, found : ReceivedSubs]]
  /\ changes \in 0..MaxChanges /\ crashes \in 0..MaxCrashes
  /\ ~up => \A s \in Slots : pc[s] \in Ended
  /\ file # "data" => data = EmptyMap

\* A save that runs alone and does not fail leaves the file with the same
\* associations as the map, whatever earlier saves have done to each other and
\* to the file: whenever no save is in progress the file can be loaded and
\* agrees with the map, from the first such save until saves overlap or one
\* fails, and again from the next.
Durable ==
  (up /\ alone /\ \A s \in Slots : pc[s] \in Ended) =>
    file # "torn" /\ associations = data

\* While the service runs a party never passes from one participant to another
\* directly: the first has to be disassociated before the second is accepted,
\* however requests overlap and saves fail.  (Only a restart from a file that
\* an older save has overwritten can bring an earlier holder back.)
NoTakeover ==
  [][up /\ up' =>
       \A k \in MapKeys : associations[k] # Null /\ associations'[k] # Null =>
                            associations'[k].fsp = associations[k].fsp]_vars

\* However saves overlap, fail, mix in the file and are cut off by crashes, the
\* service never goes on with a mixture of them: what it loads is the map as it
\* was at some earlier time, and only when it ends or starts; while it runs,
\* entries come and go one by one and none is overwritten.
Directory == INSTANCE PartyDirectory WITH
  Keys <- MapKeys, Entries <- Values, None <- Null,
  directory <- associations, running <- up

ImplementsDirectory == Directory!Spec

\* An association is refused as a duplicate only if one is held for the same
\* party, sub type and currency ("Create key from partyId, partyType,
\* partySubType and currency").
DuplicateMeansSame ==
  \A s \in Slots : pc[s] = "duplicate" => met[s].found = Received(met[s].asked).sub
=============================================================================
