---------------------- MODULE EventHandlingEffectProofs ----------------------
(***************************************************************************)
(* Redelivery is harmless: what the oracle holds in the end, for any       *)
(* messages, batch sizes, crashes and throws.                              *)
(***************************************************************************)
EXTENDS EventHandlingProofs

Pairs == [party : Parties, fsp : Fsps]

\* Of the first n messages, the last about a associates it.
LastAssociates(a, n) ==
  \E i \in ChangesOf(a) :
    i <= n /\ topic[i].kind = "associate" /\ \A j \in ChangesOf(a) : j <= n => j <= i

\* Whether the callback in progress has handled a message about a.
Touched(a) == pc # "idle" /\ \E i \in ChangesOf(a) : committed < i /\ i < pos

\* An association is what the first n messages make of it, for an n that is
\* not below the committed offset: the messages handled again after a crash may
\* trail those that had been handled before.  Once the callback has handled a
\* message about the pair, n is what that callback has handled.
EffectOf(a) ==
  \E n \in committed..Len(topic) :
    /\ a \in assoc <=> LastAssociates(a, n)
    /\ Touched(a) => n = pos - 1

EffectInv == changes = 0 => \A a \in Pairs : EffectOf(a)

\* As long as nothing changes, the client's cache agrees with the participants
\* service, and a handler that is past a check has found what still holds.
CheckedInv ==
  changes = 0 =>
    /\ \A f \in Fsps : known[f] \in {Null, participants[f]}
    /\ pc \in {"adapter"} \cup Changing => participants[msg.requester] = "ok"
    /\ pc \in Changing => msg.kind = pc /\ msg.party \in served

\* Only a batch that is handled to its end is sent as a whole.
SentInv == pc = "sent" => pos > last

\* What the check of a participant comes to where no call fails.
LEMMA CheckedInfo ==
  ASSUME Faults = FALSE, TypeOK, CheckedInv, changes = 0,
         NEW f \in Fsps \cup {Null}, NEW v \in Verdicts, GetParticipantInfo(f, v)
  PROVE  /\ \A g \in Fsps : known'[g] \in {Null, participants[g]}
         /\ f \in Fsps => v = participants[f]
<1>1. \A g \in Fsps : known[g] \in {Null, participants[g]}
  BY DEF CheckedInv
<1>2. f \in Fsps => f # Null
  BY NullAssumption
<1>3. f \in Fsps => v = participants[f]
  BY <1>1, <1>2 DEF GetParticipantInfo
<1>4. CASE UNCHANGED known
  BY <1>1, <1>3, <1>4
<1>5. CASE f # Null /\ v = participants[f] /\ known' = [known EXCEPT ![f] = v]
  BY <1>1, <1>3, <1>5 DEF TypeOK
<1>6. QED
  BY <1>4, <1>5 DEF GetParticipantInfo

\* The message being handled is about a pair just when it is a change that
\* passes the checks.
LEMMA MessageAbout ==
  ASSUME TypeOK, pos \in 1..Len(topic), NEW a \in Pairs
  PROVE  pos \in ChangesOf(a) <=>
           msg.kind \in Changing /\ Pair(msg) = a /\ participants[a.fsp] = "ok" /\ a.party \in served
<1>1. DOMAIN topic = 1..Len(topic)
  BY LenProperties DEF TypeOK
<1>2. QED
  BY <1>1 DEF ChangesOf, msg

\* What a step that answers a message must do to the associations.
Applied ==
  \A a \in Pairs :
    a \in assoc' <=> IF pos \in ChangesOf(a) THEN msg.kind = "associate" ELSE a \in assoc

\* What the oracle holds follows from the message, when one is answered.
LEMMA HandleEffect ==
  ASSUME Faults = FALSE, TypeOK, HandlingInv, CheckedInv, changes = 0, Handle
  PROVE  /\ UNCHANGED <<topic, committed, participants, served, last, changes>>
         /\ CheckedInv'
         /\ \/ (\E name, about : Answer(name, about)) /\ Applied
            \/ pc' \in Awaits /\ UNCHANGED <<pos, assoc>>
<1>0. /\ pos \in 1..Len(topic) /\ pc # "idle"
      /\ msg.requester \in Fsps \cup {Null} /\ msg.party \in Parties
  <2>1. pos \in 1..Len(topic) /\ pc # "idle"
    BY Handled DEF Handle, TakeMessage, CheckRequester, GetAdapter, AskOracle, Associate,
       Disassociate, CheckDestination, Awaits
  <2>2. QED
    BY <2>1, MessageType
<1>a. ASSUME NEW name, NEW about, Answer(name, about), UNCHANGED <<participants, known>>
      PROVE  CheckedInv'
  BY <1>a DEF CheckedInv, Answer, Changing
<1>b. ASSUME UNCHANGED assoc, \A a \in Pairs : pos \notin ChangesOf(a)
      PROVE  Applied
  BY <1>b DEF Applied
<1>1. CASE TakeMessage
  <2>1. CASE \E name, about : Answer(name, about) /\ msg.kind \in {"malformed", "unknown"}
    <3>1. \A a \in Pairs : pos \notin ChangesOf(a)
      BY <1>0, <2>1, MessageAbout DEF Changing
    <3>2. QED
      BY <1>1, <2>1, <3>1, <1>a, <1>b DEF TakeMessage, world, Answer, kafka
  <2>2. CASE pc' = "requester" /\ UNCHANGED <<kafka, pos, last, fsp, outputs, retries, changes>>
    BY <1>1, <2>2 DEF TakeMessage, world, kafka, Awaits, CheckedInv, Changing
  <2>3. QED
    BY <1>1, <2>1, <2>2 DEF TakeMessage
<1>2. CASE CheckRequester
  <2>1. PICK v \in Verdicts :
          /\ GetParticipantInfo(msg.requester, v)
          /\ \/ v # "ok" /\ Answer("requesterError", v)
             \/ /\ v = "ok" /\ pc' = AfterRequester /\ fsp' = msg.destination
                /\ UNCHANGED <<kafka, pos, last, outputs, retries, changes>>
    BY <1>2 DEF CheckRequester
  <2>2. /\ \A g \in Fsps : known'[g] \in {Null, participants[g]}
        /\ msg.requester \in Fsps => v = participants[msg.requester]
    BY <1>0, <2>1, CheckedInfo
  <2>3. UNCHANGED <<participants, served, assoc>>
    BY <1>2 DEF CheckRequester, world
  <2>4. CASE v # "ok" /\ Answer("requesterError", v)
    <3>1. \A a \in Pairs : pos \notin ChangesOf(a)
      BY <1>0, <2>2, <2>4, MessageAbout DEF Pair, Pairs
    <3>2. pc' \notin {"adapter"} \cup Changing
      BY <2>4 DEF Answer, Changing
    <3>3. CheckedInv'
      BY <2>2, <2>3, <3>2 DEF CheckedInv
    <3>4. QED
      BY <2>3, <2>4, <3>1, <3>3, <1>b DEF Answer, kafka
  <2>5. CASE /\ v = "ok" /\ pc' = AfterRequester
             /\ UNCHANGED <<kafka, pos, last, outputs, retries, changes>>
    <3>1. pc' \in {"adapter", "destination"} /\ UNCHANGED <<topic, committed>> /\ msg' = msg
      BY <2>5 DEF AfterRequester, kafka, msg
    <3>2. msg.requester \in Fsps
      BY <1>0, <2>1, <2>5 DEF GetParticipantInfo
    <3>3. CheckedInv'
      BY <2>2, <2>3, <2>5, <3>1, <3>2 DEF CheckedInv, Changing
    <3>4. QED
      BY <2>3, <2>5, <3>1, <3>3 DEF Awaits
  <2>6. QED
    BY <2>1, <2>4, <2>5
<1>3. CASE GetAdapter
  <2>1. pc = "adapter" /\ UNCHANGED <<known, participants, served, assoc>>
        /\ participants[msg.requester] = "ok"
    BY <1>3 DEF GetAdapter, world, CheckedInv
  <2>2. CASE /\ msg.party \in served
             /\ pc' = IF msg.kind \in Changing THEN msg.kind ELSE "ask"
             /\ UNCHANGED <<kafka, pos, last, fsp, outputs, retries, changes>>
    <3>1. pc' \in Awaits /\ UNCHANGED <<topic, committed>> /\ msg' = msg
          /\ (pc' \in Changing => msg.kind = pc') /\ pc' # "adapter"
      BY <2>2 DEF Awaits, Changing, kafka, msg
    <3>2. CheckedInv'
      BY <2>1, <2>2, <3>1 DEF CheckedInv
    <3>3. QED
      BY <2>1, <2>2, <3>1, <3>2
  <2>3. CASE msg.party \notin served /\ \E name, about : Answer(name, about)
    <3>1. \A a \in Pairs : pos \notin ChangesOf(a)
      BY <1>0, <2>3, MessageAbout DEF Pair, Pairs
    <3>2. QED
      BY <2>1, <2>3, <3>1, <1>a, <1>b DEF Answer, kafka
  <2>4. QED
    BY <1>3, <2>2, <2>3 DEF GetAdapter
<1>4. CASE AskOracle
  <2>1. msg.kind \notin Changing /\ UNCHANGED <<known, participants, served, assoc>>
    BY <1>4 DEF AskOracle, HandlingInv, Queries, Changing, world
  <2>2. \A a \in Pairs : pos \notin ChangesOf(a)
    BY <1>0, <2>1, MessageAbout
  <2>3. CASE \E name, about : Answer(name, about)
    BY <2>1, <2>2, <2>3, <1>a, <1>b DEF Answer, kafka
  <2>4. CASE pc' = "destination" /\ UNCHANGED <<kafka, pos, last, outputs, retries, changes>>
    BY <2>1, <2>4 DEF Awaits, kafka, CheckedInv, Changing
  <2>5. QED
    BY <1>4, <2>3, <2>4 DEF AskOracle
<1>5. CASE Associate \/ Disassociate
  <2>1. /\ pc \in Changing /\ msg.kind = pc /\ participants[msg.requester] = "ok"
        /\ msg.party \in served /\ msg.requester \in Fsps
    BY <1>5 DEF Associate, Disassociate, CheckedInv, Changing, HandlingInv, Awaits
  <2>2. PICK name, about : Answer(name, about)
    BY <1>5 DEF Associate, Disassociate
  <2>3. UNCHANGED <<known, participants, served>>
    BY <1>5 DEF Associate, Disassociate
  <2>4. Pair(msg) \in Pairs
    BY <1>0, <2>1 DEF Pair, Pairs
  <2>5. \A a \in Pairs : pos \in ChangesOf(a) <=> a = Pair(msg)
    BY <1>0, <2>1, <2>4, MessageAbout DEF Pair
  <2>6. assoc' = IF msg.kind = "associate" THEN assoc \cup {Pair(msg)} ELSE assoc \ {Pair(msg)}
    <3>1. CASE Associate
      BY <2>1, <3>1 DEF Associate
    <3>2. CASE Disassociate
      BY <2>1, <3>2 DEF Disassociate
    <3>3. QED
      BY <1>5, <3>1, <3>2
  <2>7. Applied
    BY <2>1, <2>5, <2>6 DEF Applied, Changing
  <2>8. QED
    BY <2>2, <2>3, <2>7, <1>a DEF Answer, kafka
<1>6. CASE CheckDestination
  <2>1. /\ msg.kind \notin Changing /\ UNCHANGED <<participants, served, assoc>>
        /\ fsp \in Fsps \cup {Null}
    BY <1>6 DEF CheckDestination, HandlingInv, Queries, Changing, world, TypeOK
  <2>2. \A a \in Pairs : pos \notin ChangesOf(a)
    BY <1>0, <2>1, MessageAbout
  <2>3. PICK v \in Verdicts :
          /\ GetParticipantInfo(fsp, v)
          /\ \/ v # "ok" /\ Answer("destinationError", v)
             \/ v = "ok" /\ Answer(Handler(msg).reply, fsp)
    BY <1>6 DEF CheckDestination
  <2>4. \A g \in Fsps : known'[g] \in {Null, participants[g]}
    BY <2>1, <2>3, CheckedInfo
  <2>5. PICK name, about : Answer(name, about)
    BY <2>3
  <2>6. CheckedInv'
    BY <2>1, <2>4, <2>5 DEF CheckedInv, Answer, Changing
  <2>7. QED
    BY <2>1, <2>2, <2>5, <2>6, <1>b DEF Answer, kafka
<1>7. QED
  BY <1>1, <1>2, <1>3, <1>4, <1>5, <1>6 DEF Handle

----------------------------------------------------------------------------
\* What the first n messages make of an association depends on those messages,
\* the participants and the oracles only.
LEMMA SameChanges ==
  ASSUME UNCHANGED <<participants, served>>, DOMAIN topic \subseteq DOMAIN topic', NEW n,
         \A i \in DOMAIN topic' : i <= n => i \in DOMAIN topic /\ topic'[i] = topic[i],
         NEW a
  PROVE  /\ \A i : i <= n => (i \in ChangesOf(a)' <=> i \in ChangesOf(a))
         /\ LastAssociates(a, n)' <=> LastAssociates(a, n)
<1>1. \A i : i <= n => (i \in ChangesOf(a)' <=> i \in ChangesOf(a))
  BY DEF ChangesOf, Pair
<1>2. \A i \in ChangesOf(a) : i <= n => topic'[i] = topic[i]
  BY DEF ChangesOf
<1>3. LastAssociates(a, n)' <=>
        \E i \in ChangesOf(a)' :
          i <= n /\ topic'[i].kind = "associate" /\ \A j \in ChangesOf(a)' : j <= n => j <= i
  BY DEF LastAssociates
<1>4. QED
  BY <1>1, <1>2, <1>3 DEF LastAssociates

\* A message that is not about a pair makes no difference to it, and one that
\* is decides.
LEMMA OneMore ==
  ASSUME TypeOK, NEW n \in Nat, NEW a
  PROVE  /\ n + 1 \notin ChangesOf(a) => (LastAssociates(a, n + 1) <=> LastAssociates(a, n))
         /\ n + 1 \in ChangesOf(a) => (LastAssociates(a, n + 1) <=> topic[n + 1].kind = "associate")
<1>1. \A i \in ChangesOf(a) : i \in Nat
  BY LenProperties DEF TypeOK, ChangesOf
<1>2. ASSUME n + 1 \notin ChangesOf(a)
      PROVE  LastAssociates(a, n + 1) <=> LastAssociates(a, n)
  <2>1. \A i \in ChangesOf(a) : i <= n + 1 <=> i <= n
    BY <1>1, <1>2
  <2>2. QED
    BY <2>1 DEF LastAssociates
<1>3. ASSUME n + 1 \in ChangesOf(a)
      PROVE  LastAssociates(a, n + 1) <=> topic[n + 1].kind = "associate"
  <2>1. \A i \in ChangesOf(a) : i <= n + 1 /\ n + 1 <= i => i = n + 1
    BY <1>1
  <2>2. QED
    BY <1>3, <2>1 DEF LastAssociates
<1>4. QED
  BY <1>2, <1>3

\* Messages that are not about a pair, however many, make no difference.
LEMMA Between ==
  ASSUME TypeOK, NEW n \in Nat, NEW m \in Nat, n <= m, NEW a,
         \A i \in ChangesOf(a) : i <= m => i <= n
  PROVE  LastAssociates(a, m) <=> LastAssociates(a, n)
<1>1. \A i \in ChangesOf(a) : i \in Nat
  BY LenProperties DEF TypeOK, ChangesOf
<1>2. \A i \in ChangesOf(a) : i <= m <=> i <= n
  BY <1>1
<1>3. QED
  BY <1>2 DEF LastAssociates

\* A step that leaves the messages, their effects and the commits alone, and
\* does not go on in the batch.
LEMMA QuietEffect ==
  ASSUME TypeOK, EffectInv, UNCHANGED <<participants, served, assoc, committed, topic, changes>>,
         \A a : Touched(a)' => Touched(a) /\ pos' = pos
  PROVE  EffectInv'
<1> SUFFICES ASSUME changes = 0, NEW a \in Pairs
             PROVE  EffectOf(a)'
  BY DEF EffectInv, Pairs
<1>1. PICK n \in committed..Len(topic) :
        /\ a \in assoc <=> LastAssociates(a, n)
        /\ Touched(a) => n = pos - 1
  BY DEF EffectInv, EffectOf
<1>2. LastAssociates(a, n)' <=> LastAssociates(a, n)
  BY SameChanges
<1>3. QED
  BY <1>1, <1>2 DEF EffectOf

LEMMA AnswerEffect ==
  ASSUME TypeOK, EffectInv, UNCHANGED <<topic, committed, participants, served, last, changes>>,
         pos \in 1..Len(topic), pc # "idle", NEW name, NEW about, Answer(name, about), Applied
  PROVE  EffectInv'
<1> SUFFICES ASSUME changes = 0, NEW a \in Pairs
             PROVE  EffectOf(a)'
  BY DEF EffectInv, Pairs
<1>1. PICK n \in committed..Len(topic) :
        /\ a \in assoc <=> LastAssociates(a, n)
        /\ Touched(a) => n = pos - 1
  BY DEF EffectInv, EffectOf
<1>2. pos' = pos + 1 /\ pc' = "next"
  BY DEF Answer
<1>3. /\ committed \in Nat /\ Len(topic) \in Nat /\ pos \in Nat /\ committed < pos
      /\ \A i \in ChangesOf(a) : i \in Nat
  BY LenProperties DEF TypeOK, ChangesOf
<1>4. \A m : LastAssociates(a, m)' <=> LastAssociates(a, m)
  BY SameChanges
<1>5. ChangesOf(a)' = ChangesOf(a)
  BY DEF ChangesOf, Pair
<1>6. a \in assoc' <=> IF pos \in ChangesOf(a) THEN msg.kind = "associate" ELSE a \in assoc
  BY DEF Applied
<1>7. PICK m \in Nat : m + 1 = pos /\ m = pos - 1
  BY <1>3
<1>8. CASE pos \in ChangesOf(a)
  <2>1. a \in assoc' <=> LastAssociates(a, m + 1)'
    BY <1>4, <1>6, <1>7, <1>8, OneMore DEF msg
  <2>2. m + 1 \in committed'..Len(topic') /\ m + 1 = pos' - 1
    BY <1>2, <1>3, <1>7
  <2>3. QED
    BY <2>1, <2>2 DEF EffectOf
<1>9. CASE pos \notin ChangesOf(a) /\ Touched(a)
  <2>1. n = m
    BY <1>1, <1>7, <1>9
  <2>2. LastAssociates(a, m + 1) <=> LastAssociates(a, m)
    BY <1>7, <1>9, OneMore
  <2>3. a \in assoc' <=> LastAssociates(a, m + 1)'
    BY <1>1, <1>4, <1>6, <1>9, <2>1, <2>2
  <2>4. m + 1 \in committed'..Len(topic') /\ m + 1 = pos' - 1
    BY <1>2, <1>3, <1>7
  <2>5. QED
    BY <2>3, <2>4 DEF EffectOf
<1>10. CASE pos \notin ChangesOf(a) /\ ~Touched(a)
  <2>1. \A i \in ChangesOf(a) : ~(committed < i /\ i < pos')
    BY <1>2, <1>3, <1>10 DEF Touched
  <2>2. ~Touched(a)'
    BY <1>5, <2>1 DEF Touched
  <2>3. a \in assoc' <=> LastAssociates(a, n)'
    BY <1>1, <1>4, <1>6, <1>10
  <2>4. QED
    BY <1>1, <2>2, <2>3 DEF EffectOf
<1>11. QED
  BY <1>8, <1>9, <1>10

\* A commit: where the batch was about the pair, its last message decides; where
\* it was not, an earlier attempt may have gone further than the batch.
LEMMA CommitEffect ==
  ASSUME TypeOK, AnswerInv, SentInv, EffectInv, Commit
  PROVE  EffectInv'
<1>0. /\ pc = "sent" /\ committed' = last /\ pc' = "idle"
      /\ UNCHANGED <<topic, participants, served, assoc, changes>>
  BY DEF Commit, CallbackEnds, world
<1> SUFFICES ASSUME changes = 0, NEW a \in Pairs
             PROVE  EffectOf(a)'
  BY <1>0 DEF EffectInv, Pairs
<1>1. PICK n \in committed..Len(topic) :
        /\ a \in assoc <=> LastAssociates(a, n)
        /\ Touched(a) => n = pos - 1
  BY DEF EffectInv, EffectOf
<1>2. \A m : LastAssociates(a, m)' <=> LastAssociates(a, m)
  BY <1>0, SameChanges
<1>3. /\ committed \in Nat /\ Len(topic) \in Nat /\ last \in Nat /\ last <= Len(topic)
      /\ committed <= last /\ pos = last + 1 /\ \A i \in ChangesOf(a) : i \in Nat
  BY <1>0, LenProperties DEF TypeOK, AnswerInv, SentInv, ChangesOf
<1>4. ~Touched(a)'
  BY <1>0 DEF Touched
<1>5. CASE Touched(a) \/ n >= last
  <2>1. n \in committed'..Len(topic')
    BY <1>0, <1>1, <1>3, <1>5
  <2>2. QED
    BY <1>0, <1>1, <1>2, <1>4, <2>1 DEF EffectOf
<1>6. CASE ~Touched(a) /\ n < last
  <2>1. \A i \in ChangesOf(a) : i <= last => i <= n
    BY <1>0, <1>1, <1>3, <1>6 DEF Touched
  <2>2. LastAssociates(a, last) <=> LastAssociates(a, n)
    BY <1>1, <1>3, <1>6, <2>1, Between
  <2>3. last \in committed'..Len(topic')
    BY <1>0, <1>3
  <2>4. QED
    BY <1>0, <1>1, <1>2, <1>4, <2>2, <2>3 DEF EffectOf
<1>7. QED
  BY <1>1, <1>3, <1>5, <1>6

\* A producer's message comes after all that has been handled.
LEMMA ProduceEffect ==
  ASSUME TypeOK, EffectInv, NEW m \in Messages, Produce(m)
  PROVE  EffectInv'
<1>1. /\ UNCHANGED <<committed, pos, last, pc, participants, served, assoc, changes>>
      /\ Len(topic') = Len(topic) + 1 /\ DOMAIN topic' = 1..(Len(topic) + 1)
      /\ DOMAIN topic = 1..Len(topic) /\ Len(topic) \in Nat
      /\ \A i \in 1..Len(topic) : topic'[i] = topic[i]
  BY AppendProperties, LenProperties DEF TypeOK, Produce, memory, world
<1> SUFFICES ASSUME changes = 0, NEW a \in Pairs
             PROVE  EffectOf(a)'
  BY <1>1 DEF EffectInv, Pairs
<1>2. PICK n \in committed..Len(topic) :
        /\ a \in assoc <=> LastAssociates(a, n)
        /\ Touched(a) => n = pos - 1
  BY DEF EffectInv, EffectOf
<1>3. /\ committed \in Nat /\ n \in Nat /\ n <= Len(topic) /\ pos \in Nat
      /\ pc # "idle" => pos - 1 <= Len(topic)
  BY <1>2, LenProperties DEF TypeOK
<1>4. \A k \in Nat : k <= Len(topic) =>
        /\ LastAssociates(a, k)' <=> LastAssociates(a, k)
        /\ \A i : i <= k => (i \in ChangesOf(a)' <=> i \in ChangesOf(a))
  <2>1. ASSUME NEW k \in Nat, k <= Len(topic)
        PROVE  /\ LastAssociates(a, k)' <=> LastAssociates(a, k)
               /\ \A i : i <= k => (i \in ChangesOf(a)' <=> i \in ChangesOf(a))
    <3>1. DOMAIN topic \subseteq DOMAIN topic'
      BY <1>1
    <3>2. \A i \in DOMAIN topic' : i <= k => i \in DOMAIN topic /\ topic'[i] = topic[i]
      BY <1>1, <2>1
    <3>3. QED
      BY <1>1, <3>1, <3>2, SameChanges
  <2>2. QED
    BY <2>1
<1>5. Touched(a)' => Touched(a)
  <2>1. \A i \in ChangesOf(a)' : i \in Nat
    BY <1>1 DEF ChangesOf
  <2>2. \A i \in ChangesOf(a)' : pc # "idle" /\ i < pos => i \in ChangesOf(a)
    BY <1>1, <1>3, <1>4, <2>1
  <2>3. QED
    BY <1>1, <2>2 DEF Touched
<1>6. n \in committed'..Len(topic')
  BY <1>1, <1>2, <1>3
<1>7. QED
  BY <1>1, <1>2, <1>3, <1>4, <1>5, <1>6 DEF EffectOf

LEMMA NextEffect ==
  ASSUME Faults = FALSE, TypeOK, HandlingInv, AnswerInv, CheckedInv, SentInv, EffectInv, [Next]_vars
  PROVE  CheckedInv' /\ SentInv' /\ EffectInv'
<1>1. ASSUME NEW m \in Messages, Produce(m)
      PROVE  CheckedInv' /\ SentInv' /\ EffectInv'
  <2>1. UNCHANGED <<pos, last, pc, known, participants, served, changes>>
    BY <1>1 DEF Produce, memory, world
  <2>2. \A i \in 1..Len(topic) : topic'[i] = topic[i]
    BY <1>1, AppendProperties DEF Produce, TypeOK
  <2>3. pc \in Awaits => msg' = msg
    BY <2>1, <2>2, Handled DEF msg
  <2>4. CheckedInv'
    BY <2>1, <2>3 DEF CheckedInv, Awaits, Changing
  <2>5. QED
    BY <1>1, <2>1, <2>4, ProduceEffect DEF SentInv
<1>2. ASSUME changes' # 0, pc' # "sent" \/ UNCHANGED <<pc, pos, last>>
      PROVE  CheckedInv' /\ SentInv' /\ EffectInv'
  BY <1>2 DEF CheckedInv, SentInv, EffectInv
<1>3. CASE \/ \E f \in Fsps, s \in Statuses : ChangeParticipant(f, s)
           \/ \E p \in Parties : ChangeOracles(p)
  <2>1. changes' = changes + 1 /\ changes \in Nat /\ UNCHANGED <<pc, pos, last>>
    BY <1>3, BoundAssumption DEF ChangeParticipant, ChangeOracles, memory, TypeOK
  <2>2. QED
    BY <1>2, <2>1
<1>4. ASSUME Handle, changes = 0
      PROVE  CheckedInv' /\ SentInv' /\ EffectInv'
  <2>1. /\ UNCHANGED <<topic, committed, participants, served, last, changes>>
        /\ CheckedInv'
        /\ \/ (\E name, about : Answer(name, about)) /\ Applied
           \/ pc' \in Awaits /\ UNCHANGED <<pos, assoc>>
    BY <1>4, HandleEffect
  <2>2. pc # "idle" /\ pos \in 1..Len(topic) /\ pc' # "sent"
    <3>1. pc # "idle" /\ pos <= last
      BY <1>4, HandleStep
    <3>2. pos \in 1..Len(topic)
      BY <3>1, LenProperties DEF TypeOK
    <3>3. pc' # "sent"
      BY <2>1 DEF Answer, Awaits
    <3>4. QED
      BY <3>1, <3>2, <3>3
  <2>3. CASE pc' \in Awaits /\ UNCHANGED <<pos, assoc>>
    <3>1. \A a : Touched(a)' => Touched(a) /\ pos' = pos
      BY <2>1, <2>2, <2>3 DEF Touched, ChangesOf, Pair
    <3>2. QED
      BY <2>1, <2>2, <2>3, <3>1, QuietEffect DEF SentInv
  <2>4. CASE (\E name, about : Answer(name, about)) /\ Applied
    BY <2>1, <2>2, <2>4, AnswerEffect DEF SentInv
  <2>5. QED
    BY <2>1, <2>3, <2>4
<1>5. ASSUME Handle, changes # 0
      PROVE  CheckedInv' /\ SentInv' /\ EffectInv'
  <2>1. changes' = changes
    BY <1>5 DEF Handle, TakeMessage, CheckRequester, GetAdapter, AskOracle, Associate,
       Disassociate, CheckDestination, Answer
  <2>2. pc' # "sent"
    BY <1>5, HandleStep DEF Answer, Awaits
  <2>3. QED
    BY <1>2, <1>5, <2>1, <2>2
<1>6. ASSUME pc' \notin Awaits, UNCHANGED <<topic, committed, participants, served, assoc, changes>>,
             known' = known \/ known' = [f \in Fsps |-> Null],
             pc' = "idle" \/ (pc' = "next" /\ pos' = committed + 1)
               \/ (pc' = "sent" /\ pos' = pos /\ last' = last /\ pos > last /\ pc # "idle")
      PROVE  CheckedInv' /\ SentInv' /\ EffectInv'
  <2>1. CheckedInv'
    BY <1>6 DEF CheckedInv, Awaits, Changing
  <2>2. \A a : Touched(a)' => Touched(a) /\ pos' = pos
    <3>1. \A a : \A i \in ChangesOf(a) : i \in Nat
      BY LenProperties DEF TypeOK, ChangesOf
    <3>2. \A a : ChangesOf(a)' = ChangesOf(a)
      BY <1>6 DEF ChangesOf, Pair
    <3>3. committed \in Nat
      BY LenProperties DEF TypeOK
    <3>4. QED
      BY <1>6, <3>1, <3>2, <3>3 DEF Touched
  <2>3. QED
    BY <1>6, <2>1, <2>2, QuietEffect DEF SentInv
<1>7. CASE \E n \in 1..MaxBatch : Deliver(n)
  BY <1>6, <1>7 DEF Deliver, kafka, world, Awaits
<1>8. CASE Send
  BY <1>6, <1>8 DEF Send, world, Awaits
<1>9. CASE Throw \/ Crash
  BY <1>6, <1>9 DEF Throw, Crash, CallbackEnds, kafka, world, Awaits
<1>10. CASE Commit
  <2>1. pc' = "idle" /\ UNCHANGED <<known, participants, served, changes>>
    BY <1>10 DEF Commit, CallbackEnds, world
  <2>2. CheckedInv' /\ SentInv'
    BY <2>1 DEF CheckedInv, SentInv, Changing
  <2>3. QED
    BY <1>10, <2>2, CommitEffect
<1>11. CASE UNCHANGED vars
  <2>1. UNCHANGED <<topic, committed, pos, last, pc, known, participants, served, assoc, changes>>
    BY <1>11 DEF vars, kafka, memory, world
  <2>2. \A a : Touched(a)' => Touched(a) /\ pos' = pos
    BY <2>1 DEF Touched, ChangesOf, Pair
  <2>3. QED
    BY <2>1, <2>2, QuietEffect DEF CheckedInv, SentInv, msg
<1>12. QED
  BY <1>1, <1>3, <1>4, <1>5, <1>7, <1>8, <1>9, <1>10, <1>11 DEF Next, Work

\* Where no call fails and the world around the handler does not change, the
\* oracle ends up as if each message had been handled exactly once, whatever
\* crashes and throws made messages be handled again.
THEOREM RedeliveryIsHarmless == ASSUME Faults = FALSE PROVE Spec => []ExactlyOnceEffect
<1>1. Init => CheckedInv /\ SentInv /\ EffectInv
  <2> SUFFICES ASSUME Init PROVE CheckedInv /\ SentInv /\ EffectInv
    OBVIOUS
  <2>1. \A a : ChangesOf(a) = {} /\ Len(topic) = 0
    BY DEF Init, ChangesOf
  <2>2. \A a \in Pairs : EffectOf(a)
    <3>1. \A a \in Pairs : a \notin assoc /\ ~LastAssociates(a, 0) /\ ~Touched(a)
      BY <2>1 DEF Init, LastAssociates, Touched
    <3>2. 0 \in committed..Len(topic)
      BY <2>1 DEF Init
    <3>3. QED
      BY <3>1, <3>2 DEF EffectOf
  <2>3. QED
    BY <2>2 DEF Init, CheckedInv, SentInv, EffectInv, Changing
<1>2. TypeOK /\ EffectInv => ExactlyOnceEffect
  <2> SUFFICES ASSUME TypeOK, EffectInv, committed = Len(topic), changes = 0, NEW a \in Pairs
               PROVE  a \in assoc <=> \E i \in ChangesOf(a) :
                        topic[i].kind = "associate" /\ \A j \in ChangesOf(a) : j <= i
    BY DEF ExactlyOnceEffect, Pairs
  <2>1. Len(topic) \in Nat /\ \A i \in ChangesOf(a) : i <= Len(topic)
    BY LenProperties DEF TypeOK, ChangesOf
  <2>2. a \in assoc <=> LastAssociates(a, Len(topic))
    BY <2>1 DEF EffectInv, EffectOf
  <2>3. QED
    BY <2>1, <2>2 DEF LastAssociates
<1>3. TypeOK /\ HandlingInv /\ AnswerInv /\ CheckedInv /\ SentInv /\ EffectInv /\ [Next]_vars
        => CheckedInv' /\ SentInv' /\ EffectInv'
  BY NextEffect
<1>4. QED
  BY <1>1, <1>2, <1>3, InitType, NextType, InitAnswers, NextAnswers, PTL DEF Spec
=============================================================================
