------------------------ MODULE EventHandlingProofs ------------------------
(***************************************************************************)
(* What EventHandling guarantees for any messages, participants, batches,  *)
(* failures and crashes.                                                   *)
(***************************************************************************)
EXTENDS EventHandling, SequenceTheorems, FiniteSetTheorems, TLAPS

Queries == {"partyQuery", "partyInfo", "participantQuery", "partyRejected",
            "participantRejected"}

\* What the awaits of the handler have in common: the message is one that is
\* handled, and once its requester was checked it names one.
HandlingInv ==
  /\ pc \in Awaits => msg.kind \in Queries \cup Changing
  /\ pc \in {"ask", "destination"} => msg.kind \in Queries
  /\ pc \in Awaits \ {"requester"} => msg.requester \in Fsps

Abouts == Fsps \cup {Null, "invalid"} \cup Statuses

\* The part of the type invariant about the world around the handler.
WorldOK ==
  /\ participants \in [Fsps -> Statuses]
  /\ known \in [Fsps -> (Statuses \ {"notFound"}) \cup {Null}]
  /\ served \subseteq Parties
  /\ assoc \subseteq [party : Parties, fsp : Fsps]
  /\ okSeen \subseteq Fsps

LEMMA MessageType ==
  ASSUME TypeOK, pos \in 1..Len(topic)
  PROVE  /\ msg \in Messages
         /\ msg.kind \in Kinds /\ msg.party \in Parties
         /\ msg.requester \in Fsps \cup {Null} /\ msg.destination \in Fsps \cup {Null}
<1>1. msg \in Messages
  BY ElementOfSeq DEF TypeOK, msg
<1>2. QED
  BY <1>1, MessageAssumption

\* While a message is handled, it is one of the topic.
LEMMA Handled ==
  ASSUME TypeOK, pc \in Awaits \/ (pc = "next" /\ pos <= last)
  PROVE  pos \in 1..Len(topic) /\ pos <= last /\ pc # "idle"
BY DEF TypeOK, Awaits

\* An answer keeps the types.
LEMMA AnswerType ==
  ASSUME TypeOK, pos <= last, pc # "idle",
         NEW name \in Names, NEW about \in Abouts, Answer(name, about), WorldOK'
  PROVE  TypeOK'
<1>1. [of |-> pos, name |-> name, about |-> about] \in Events
  BY DEF TypeOK, Events, Abouts
<1>2. outputs' \in Seq(Events) /\ Len(outputs') = Len(outputs) + 1
  BY <1>1, AppendProperties DEF TypeOK, Answer
<1>3. pos' = pos + 1 /\ pc' = "next" /\ fsp' = Null
      /\ UNCHANGED <<topic, committed, published, last, retries, changes>>
  BY DEF Answer, kafka
<1>4. /\ committed \in Nat /\ pos \in Nat /\ last \in Nat
      /\ committed < pos /\ Len(outputs) = pos - committed - 1
  BY LenProperties DEF TypeOK
<1>5. /\ pos' \in Nat /\ committed' < pos' /\ pos' <= last' + 1
      /\ Len(outputs') = pos' - committed' - 1
  BY <1>2, <1>3, <1>4
<1>6. pc' \notin Awaits
  BY <1>3 DEF Awaits
<1>7. QED
  BY <1>2, <1>3, <1>5, <1>6 DEF TypeOK, WorldOK

\* So does a step to another await.
LEMMA AwaitType ==
  ASSUME TypeOK, pos <= last, pc # "idle", pc' \in Awaits, fsp' \in Fsps \cup {Null},
         UNCHANGED <<kafka, pos, last, outputs, retries, changes>>, WorldOK'
  PROVE  TypeOK'
<1>1. UNCHANGED <<topic, committed, published, pos, last, outputs, retries, changes>>
  BY DEF kafka
<1>2. QED
  BY <1>1 DEF TypeOK, WorldOK

\* The client's cache keeps its type, and only a participant is ever "ok".
LEMMA InfoType ==
  ASSUME TypeOK, NEW f \in Fsps \cup {Null}, NEW v \in Verdicts, GetParticipantInfo(f, v)
  PROVE  /\ known' \in [Fsps -> (Statuses \ {"notFound"}) \cup {Null}]
         /\ v = "ok" => f \in Fsps
         /\ v \in Abouts
<1>1. v = "ok" => f \in Fsps
  BY DEF GetParticipantInfo
<1>2. CASE UNCHANGED known
  BY <1>1, <1>2 DEF TypeOK, Abouts, Verdicts
<1>3. CASE f # Null /\ v = participants[f] /\ v # "notFound" /\ known' = [known EXCEPT ![f] = v]
  BY <1>1, <1>3 DEF TypeOK, Abouts, Verdicts
<1>4. QED
  BY <1>2, <1>3 DEF GetParticipantInfo

LEMMA ReplyType ==
  ASSUME NEW m, m.kind \in Queries
  PROVE  Handler(m).reply \in Responses /\ Handler(m).asks \in BOOLEAN
BY DEF Queries, Handler, Responses, PartyQueryReceived, PartyInfoAvailable,
       ParticipantQueryReceived, PartyRejected, ParticipantRejected

LEMMA InitType == Init => TypeOK /\ HandlingInv
<1> SUFFICES ASSUME Init PROVE TypeOK /\ HandlingInv
  OBVIOUS
<1>1. topic \in Seq(Messages) /\ published \in Seq(Events) /\ outputs \in Seq(Events)
      /\ Len(topic) = 0
  BY EmptySeq DEF Init
<1>2. QED
  BY <1>1, BoundAssumption DEF Init, TypeOK, HandlingInv, Awaits, Statuses

----------------------------------------------------------------------------
\* The end of a callback keeps the types.
LEMMA EndType ==
  ASSUME TypeOK, CallbackEnds, UNCHANGED <<topic, world, changes>>,
         committed' \in 0..Len(topic), published' \in Seq(Events), retries' \in 0..MaxRetries,
         known' \in [Fsps -> (Statuses \ {"notFound"}) \cup {Null}]
  PROVE  TypeOK' /\ HandlingInv'
<1>1. outputs' \in Seq(Events)
  BY EmptySeq DEF CallbackEnds
<1>2. pos' = 0 /\ last' = 0 /\ pc' = "idle" /\ fsp' = Null /\ okSeen' = {}
  BY DEF CallbackEnds
<1>3. QED
  BY <1>1, <1>2 DEF TypeOK, HandlingInv, Awaits, world

LEMMA HandleType ==
  ASSUME TypeOK, HandlingInv, Handle
  PROVE  TypeOK' /\ HandlingInv'
<1>0. WorldOK
  BY DEF TypeOK, WorldOK
<1>1. CASE TakeMessage
  <2>1. pos \in 1..Len(topic) /\ pos <= last /\ pc # "idle" /\ WorldOK' /\ UNCHANGED topic
    BY <1>0, <1>1, Handled DEF TakeMessage, WorldOK, Ok, world, kafka, Answer
  <2>2. CASE \E n \in Names, a \in Abouts : Answer(n, a)
    BY <2>1, <2>2, AnswerType DEF Answer, HandlingInv, Awaits
  <2>3. CASE /\ msg.kind \notin {"malformed", "unknown"} /\ pc' = "requester"
             /\ UNCHANGED <<kafka, pos, last, fsp, outputs, retries, changes>>
    <3>1. TypeOK'
      BY <2>1, <2>3, AwaitType DEF TypeOK, Awaits
    <3>2. msg.kind \in Queries \cup Changing
      BY <2>1, <2>3, MessageType DEF Kinds, Queries, Changing
    <3>3. QED
      BY <2>1, <2>3, <3>1, <3>2 DEF HandlingInv, msg
  <2>4. "invalidPayload" \in Names /\ "invalidType" \in Names /\ Null \in Abouts
    BY DEF Names, Abouts
  <2>5. QED
    BY <1>1, <2>2, <2>3, <2>4 DEF TakeMessage
<1>2. CASE CheckRequester
  <2>1. pos \in 1..Len(topic) /\ pos <= last /\ pc # "idle"
    BY <1>2, Handled DEF CheckRequester, Awaits
  <2>2. PICK v \in Verdicts :
          /\ GetParticipantInfo(msg.requester, v)
          /\ \/ v # "ok" /\ Answer("requesterError", v)
             \/ /\ v = "ok" /\ pc' = AfterRequester /\ fsp' = msg.destination
                /\ UNCHANGED <<kafka, pos, last, outputs, retries, changes>>
    BY <1>2 DEF CheckRequester
  <2>3. WorldOK' /\ (v = "ok" => msg.requester \in Fsps) /\ v \in Abouts
    BY <1>0, <1>2, <2>1, <2>2, InfoType, MessageType DEF CheckRequester, WorldOK, world
  <2>4. CASE Answer("requesterError", v)
    BY <2>1, <2>3, <2>4, AnswerType DEF Names, Answer, HandlingInv, Awaits
  <2>5. CASE /\ v = "ok" /\ pc' = AfterRequester /\ fsp' = msg.destination
             /\ UNCHANGED <<kafka, pos, last, outputs, retries, changes>>
    <3>1. msg.kind \in Queries \cup Changing /\ (pc' = "destination" => msg.kind \in Queries)
      BY <1>2, <2>5 DEF HandlingInv, CheckRequester, Awaits, AfterRequester
    <3>2. pc' \in {"adapter", "destination"}
      BY <2>5 DEF AfterRequester
    <3>3. TypeOK'
      BY <2>1, <2>3, <2>5, <3>2, AwaitType, MessageType DEF Awaits
    <3>4. QED
      BY <2>1, <2>3, <2>5, <3>1, <3>2, <3>3 DEF HandlingInv, msg, kafka
  <2>6. QED
    BY <2>2, <2>4, <2>5
<1>3. CASE GetAdapter
  <2>1. pos \in 1..Len(topic) /\ pos <= last /\ pc # "idle" /\ WorldOK'
    BY <1>0, <1>3, Handled DEF GetAdapter, Awaits, WorldOK, world
  <2>2. CASE \E n \in Names, a \in Abouts : Answer(n, a)
    BY <2>1, <2>2, AnswerType DEF Answer, HandlingInv, Awaits
  <2>3. CASE /\ pc' = IF msg.kind \in Changing THEN msg.kind ELSE "ask"
             /\ UNCHANGED <<kafka, pos, last, fsp, outputs, retries, changes>>
    <3>1. pc' \in Awaits \ {"requester", "destination"}
          /\ (pc' = "ask" => msg.kind \notin Changing)
      BY <2>3 DEF Awaits, Changing
    <3>2. TypeOK'
      BY <2>1, <2>3, <3>1, AwaitType DEF TypeOK
    <3>3. QED
      BY <1>3, <2>3, <3>1, <3>2 DEF HandlingInv, msg, kafka, GetAdapter, Awaits
  <2>4. {"noAdapter", "notFromOracle"} \subseteq Names /\ Null \in Abouts
    BY DEF Names, Abouts
  <2>5. QED
    BY <1>3, <2>2, <2>3, <2>4 DEF GetAdapter
<1>4. CASE AskOracle
  <2>1. pos \in 1..Len(topic) /\ pos <= last /\ pc # "idle" /\ WorldOK'
    BY <1>0, <1>4, Handled DEF AskOracle, Awaits, WorldOK, world
  <2>2. CASE Answer("notFromOracle", Null)
    BY <2>1, <2>2, AnswerType DEF Names, Abouts, Answer, HandlingInv, Awaits
  <2>3. ASSUME NEW a \in assoc, fsp' = a.fsp, pc' = "destination",
               UNCHANGED <<kafka, pos, last, outputs, retries, changes>>
        PROVE  TypeOK' /\ HandlingInv'
    <3>1. a.fsp \in Fsps
      BY DEF TypeOK
    <3>2. TypeOK'
      BY <2>1, <2>3, <3>1, AwaitType DEF Awaits
    <3>3. QED
      BY <1>4, <2>3, <3>2 DEF HandlingInv, msg, kafka, AskOracle, Awaits
  <2>4. QED
    BY <1>4, <2>2, <2>3 DEF AskOracle
<1>5. CASE Associate
  <2>1. pos \in 1..Len(topic) /\ pos <= last /\ pc # "idle" /\ msg.requester \in Fsps
    BY <1>5, Handled DEF Associate, Awaits, HandlingInv
  <2>2. WorldOK'
    BY <1>0, <1>5, <2>1, MessageType DEF Associate, WorldOK, Pair
  <2>3. PICK n \in Names : Answer(n, msg.requester)
    BY <1>5 DEF Associate, Names
  <2>4. QED
    BY <2>1, <2>2, <2>3, AnswerType DEF Abouts, Answer, HandlingInv, Awaits
<1>6. CASE Disassociate
  <2>1. pos \in 1..Len(topic) /\ pos <= last /\ pc # "idle" /\ msg.requester \in Fsps
    BY <1>6, Handled DEF Disassociate, Awaits, HandlingInv
  <2>2. WorldOK'
    BY <1>0, <1>6 DEF Disassociate, WorldOK
  <2>3. PICK n \in Names : Answer(n, msg.requester)
    BY <1>6 DEF Disassociate, Names
  <2>4. QED
    BY <2>1, <2>2, <2>3, AnswerType DEF Abouts, Answer, HandlingInv, Awaits
<1>7. CASE CheckDestination
  <2>1. pos \in 1..Len(topic) /\ pos <= last /\ pc # "idle" /\ msg.kind \in Queries
        /\ fsp \in Fsps \cup {Null}
    BY <1>7, Handled DEF CheckDestination, Awaits, HandlingInv, TypeOK
  <2>2. PICK v \in Verdicts :
          /\ GetParticipantInfo(fsp, v)
          /\ \/ v # "ok" /\ Answer("destinationError", v)
             \/ v = "ok" /\ Answer(Handler(msg).reply, fsp)
    BY <1>7 DEF CheckDestination
  <2>3. WorldOK' /\ v \in Abouts
    BY <1>0, <1>7, <2>1, <2>2, InfoType DEF CheckDestination, WorldOK, world
  <2>4. PICK n \in Names, a \in Abouts : Answer(n, a)
    BY <2>1, <2>2, <2>3, ReplyType DEF Names, Abouts
  <2>5. QED
    BY <2>1, <2>3, <2>4, AnswerType DEF Answer, HandlingInv, Awaits
<1>8. QED
  BY <1>1, <1>2, <1>3, <1>4, <1>5, <1>6, <1>7 DEF Handle

\* A producer's message, and changes of the world, keep the types.
LEMMA EnvironmentType ==
  ASSUME TypeOK, HandlingInv,
         \/ \E m \in Messages : Produce(m)
         \/ \E f \in Fsps, s \in Statuses : ChangeParticipant(f, s)
         \/ \E p \in Parties : ChangeOracles(p)
  PROVE  TypeOK' /\ HandlingInv'
<1>1. ASSUME NEW m \in Messages, Produce(m)
      PROVE  TypeOK' /\ HandlingInv'
  <2>1. topic' \in Seq(Messages) /\ Len(topic') = Len(topic) + 1
        /\ \A i \in 1..Len(topic) : topic'[i] = topic[i]
    BY <1>1, AppendProperties DEF TypeOK, Produce
  <2>2. UNCHANGED <<committed, published, pos, last, pc, fsp, outputs, known, participants,
                    served, assoc, okSeen, retries, changes>>
    BY <1>1 DEF Produce, memory, world
  <2>3. committed' \in 0..Len(topic') /\ last' \in 0..Len(topic')
    BY <2>1, <2>2, LenProperties DEF TypeOK
  <2>4. pc \in Awaits => msg' = msg
    BY <2>1, <2>2, Handled DEF msg
  <2>5. TypeOK'
    BY <2>1, <2>2, <2>3 DEF TypeOK
  <2>6. QED
    BY <2>2, <2>4, <2>5 DEF HandlingInv, Awaits
<1>2. ASSUME NEW f \in Fsps, NEW s \in Statuses, ChangeParticipant(f, s)
      PROVE  TypeOK' /\ HandlingInv'
  <2>1. changes' \in 0..MaxChanges
    BY <1>2, BoundAssumption DEF TypeOK, ChangeParticipant
  <2>2. participants' \in [Fsps -> Statuses] /\ okSeen' \subseteq Fsps
    BY <1>2 DEF TypeOK, ChangeParticipant, Ok
  <2>3. UNCHANGED <<topic, committed, published, pos, last, pc, fsp, outputs, known, served,
                    assoc, retries>>
    BY <1>2 DEF ChangeParticipant, kafka, memory
  <2>4. TypeOK'
    BY <2>1, <2>2, <2>3 DEF TypeOK
  <2>5. QED
    BY <2>3, <2>4 DEF HandlingInv, msg
<1>3. ASSUME NEW p \in Parties, ChangeOracles(p)
      PROVE  TypeOK' /\ HandlingInv'
  <2>1. changes' \in 0..MaxChanges /\ served' \subseteq Parties
    BY <1>3, BoundAssumption DEF TypeOK, ChangeOracles
  <2>2. UNCHANGED <<topic, committed, published, pos, last, pc, fsp, outputs, known,
                    participants, assoc, okSeen, retries>>
    BY <1>3 DEF ChangeOracles, kafka, memory
  <2>3. TypeOK'
    BY <2>1, <2>2 DEF TypeOK
  <2>4. QED
    BY <2>2, <2>3 DEF HandlingInv, msg
<1>4. QED
  BY <1>1, <1>2, <1>3

\* A batch begins.
LEMMA DeliverType ==
  ASSUME TypeOK, HandlingInv, NEW n \in 1..MaxBatch, Deliver(n)
  PROVE  TypeOK' /\ HandlingInv'
<1>1. outputs' = <<>> /\ outputs' \in Seq(Events) /\ Len(outputs') = 0
  BY EmptySeq DEF Deliver
<1>2. UNCHANGED <<topic, committed, published, known, participants, served, assoc, okSeen,
                  retries, changes>>
  BY DEF Deliver, kafka, world
<1>3. /\ pos' = committed + 1 /\ last' = committed + n /\ last' \in 0..Len(topic)
      /\ pc' = "next" /\ fsp' = Null
  BY LenProperties, BoundAssumption DEF TypeOK, Deliver
<1>4. committed \in Nat /\ n \in Nat /\ n >= 1
  BY LenProperties, BoundAssumption DEF TypeOK
<1>5. pos' \in Nat /\ committed' < pos' /\ pos' <= last' + 1
      /\ Len(outputs') = pos' - committed' - 1
  BY <1>1, <1>2, <1>3, <1>4
<1>6. pc' \notin Awaits
  BY <1>3 DEF Awaits
<1>7. TypeOK'
  BY <1>1, <1>2, <1>3, <1>5, <1>6 DEF TypeOK
<1>8. QED
  BY <1>3, <1>6, <1>7 DEF HandlingInv

\* Whatever of the answers is sent, the output topic has its type.
LEMMA PublishType ==
  ASSUME TypeOK, NEW n \in 0..Len(outputs)
  PROVE  published \o SubSeq(outputs, 1, n) \in Seq(Events)
<1>1. SubSeq(outputs, 1, n) \in Seq(Events)
  BY SubSeqProperties DEF TypeOK
<1>2. QED
  BY <1>1, ConcatProperties DEF TypeOK

LEMMA NextType == TypeOK /\ HandlingInv /\ [Next]_vars => TypeOK' /\ HandlingInv'
<1> SUFFICES ASSUME TypeOK, HandlingInv, [Next]_vars PROVE TypeOK' /\ HandlingInv'
  OBVIOUS
<1>1. CASE Send
  <2>1. published' \in Seq(Events)
    BY <1>1, ConcatProperties DEF Send, TypeOK
  <2>2. pc' = "sent" /\ pc # "idle"
        /\ UNCHANGED <<topic, committed, pos, last, fsp, outputs, known, participants, served,
                       assoc, okSeen, retries, changes>>
    BY <1>1 DEF Send, world
  <2>3. QED
    BY <2>1, <2>2 DEF TypeOK, HandlingInv, Awaits
<1>2. CASE Commit
  BY <1>2, EndType DEF Commit, TypeOK
<1>3. CASE Throw
  <2>1. published' \in Seq(Events)
    BY <1>3, PublishType DEF Throw
  <2>2. retries' \in 0..MaxRetries
    BY <1>3, BoundAssumption DEF Throw, TypeOK
  <2>3. QED
    BY <1>3, <2>1, <2>2, EndType DEF Throw, TypeOK
<1>4. CASE Crash
  <2>1. retries' \in 0..MaxRetries
    BY <1>4, BoundAssumption DEF Crash, TypeOK
  <2>2. known' \in [Fsps -> (Statuses \ {"notFound"}) \cup {Null}]
    BY <1>4 DEF Crash
  <2>3. UNCHANGED <<topic, committed, published, world, changes>> /\ CallbackEnds
    BY <1>4 DEF Crash, kafka
  <2>4. QED
    BY <2>1, <2>2, <2>3, EndType DEF TypeOK
<1>5. CASE UNCHANGED vars
  BY <1>5 DEF vars, kafka, memory, world, TypeOK, HandlingInv, msg
<1>6. QED
  BY <1>1, <1>2, <1>3, <1>4, <1>5, EnvironmentType, DeliverType, HandleType DEF Next, Work

\* Every variable of the event handler has its type, and the batch is a part
\* of the topic that is not committed and answered up to the message being
\* handled, for any messages, batch sizes, failures and crashes.
THEOREM TypeCorrect == Spec => []TypeOK
BY InitType, NextType, PTL DEF Spec

----------------------------------------------------------------------------
\* What is answered so far is the run of messages after the last commit, in
\* order, and once it was sent the whole batch has its answers.
AnswerInv ==
  /\ CommittedAnswered
  /\ AnsweredInOrder
  /\ pc # "idle" => \A i \in DOMAIN outputs : outputs[i].of = committed + i
  /\ pc = "sent" => last >= committed /\ \A i \in (committed + 1)..last : Answered(i)

\* A step that publishes nothing, commits nothing and is not in the sent state
\* has only the outputs to keep aligned.
LEMMA QuietAnswers ==
  ASSUME AnswerInv, UNCHANGED <<committed, published>>, pc' # "sent",
         pc' # "idle" => \A i \in DOMAIN outputs' : outputs'[i].of = committed + i
  PROVE  AnswerInv'
BY DEF AnswerInv, CommittedAnswered, AnsweredInOrder, Answered

LEMMA AnswerAligned ==
  ASSUME TypeOK, AnswerInv, pc # "idle", NEW name, NEW about, Answer(name, about)
  PROVE  AnswerInv'
<1>1. Len(outputs) = pos - committed - 1 /\ outputs \in Seq(Events)
      /\ pos \in Nat /\ committed \in Nat
  BY LenProperties DEF TypeOK
<1> DEFINE e == [of |-> pos, name |-> name, about |-> about]
<1>2. Len(outputs') = Len(outputs) + 1 /\ outputs'[Len(outputs) + 1] = e
      /\ \A i \in 1..Len(outputs) : outputs'[i] = outputs[i]
      /\ DOMAIN outputs' = 1..(Len(outputs) + 1) /\ DOMAIN outputs = 1..Len(outputs)
  BY <1>1 DEF Answer
<1>3. ASSUME NEW i \in DOMAIN outputs'
      PROVE  outputs'[i].of = committed + i
  <2>1. CASE i \in DOMAIN outputs
    BY <1>2, <2>1 DEF AnswerInv
  <2>2. CASE i = Len(outputs) + 1
    BY <1>1, <1>2, <2>2
  <2>3. QED
    BY <1>2, <1>3, <2>1, <2>2, LenProperties, <1>1
<1>4. UNCHANGED <<committed, published>> /\ pc' = "next"
  BY DEF Answer, kafka
<1>5. QED
  BY <1>3, <1>4, QuietAnswers

\* Sending the first n answers answers the n messages after the last commit,
\* and each of them after those before it.
LEMMA PublishInOrder ==
  ASSUME TypeOK, AnswerInv, pc # "idle", NEW n \in 0..Len(outputs),
         published' = published \o SubSeq(outputs, 1, n)
  PROVE  /\ AnsweredInOrder'
         /\ \A i \in 1..(committed + n) : Answered(i)'
         /\ \A i \in 1..n : published'[Len(published) + i].of = committed + i
         /\ Len(published') = Len(published) + n
<1> DEFINE L == Len(published)
<1>1. L \in Nat /\ n \in Nat /\ committed \in Nat /\ published \in Seq(Events)
      /\ outputs \in Seq(Events) /\ DOMAIN published = 1..L
  BY LenProperties DEF TypeOK
<1>2. SubSeq(outputs, 1, n) \in Seq(Events) /\ Len(SubSeq(outputs, 1, n)) = n
      /\ \A i \in 1..n : SubSeq(outputs, 1, n)[i] = outputs[i]
  BY <1>1, SubSeqProperties
<1>3. /\ Len(published') = L + n /\ DOMAIN published' = 1..(L + n)
      /\ \A j \in 1..L : published'[j] = published[j]
      /\ \A i \in 1..n : published'[L + i] = outputs[i]
  BY <1>1, <1>2, ConcatProperties
<1>4. \A i \in 1..n : published'[L + i].of = committed + i
  BY <1>1, <1>3 DEF AnswerInv
<1>5. ASSUME NEW i \in 1..(committed + n)
      PROVE  Answered(i)'
  <2>1. CASE i <= committed
    <3>1. PICK j \in DOMAIN published : published[j].of = i
      BY <1>1, <2>1 DEF AnswerInv, CommittedAnswered, Answered
    <3>2. j \in DOMAIN published' /\ published'[j].of = i
      BY <1>1, <1>3, <3>1
    <3>3. QED
      BY <3>2 DEF Answered
  <2>2. CASE i > committed
    <3>1. i - committed \in 1..n /\ committed + (i - committed) = i
      BY <1>1, <2>2
    <3>2. published'[L + (i - committed)].of = i
      BY <1>4, <3>1
    <3>3. L + (i - committed) \in DOMAIN published'
      BY <1>1, <1>3, <3>1
    <3>4. QED
      BY <3>2, <3>3 DEF Answered
  <2>3. QED
    BY <1>1, <2>1, <2>2
<1>6. ASSUME NEW j \in DOMAIN published', NEW i \in 1..(published'[j].of - 1)
      PROVE  \E h \in 1..(j - 1) : published'[h].of = i
  <2>1. CASE j \in 1..L
    <3>1. PICK h \in 1..(j - 1) : published[h].of = i
      BY <1>1, <1>3, <2>1 DEF AnswerInv, AnsweredInOrder
    <3>2. h \in 1..L
      BY <1>1, <2>1
    <3>3. QED
      BY <1>3, <3>1, <3>2
  <2>2. CASE j \notin 1..L
    <3>1. PICK k \in 1..n : j = L + k
      <4>1. j - L \in 1..n /\ j = L + (j - L)
        BY <1>1, <1>3, <2>2
      <4>2. QED
        BY <4>1
    <3>2. published'[j].of = committed + k /\ k \in Nat
      BY <1>1, <1>4, <3>1
    <3>3. i \in 1..(committed + k - 1) /\ i \in Nat
      BY <1>1, <1>6, <3>2
    <3>4. CASE i <= committed
      <4>1. PICK h \in DOMAIN published : published[h].of = i
        BY <1>1, <3>3, <3>4 DEF AnswerInv, CommittedAnswered, Answered
      <4>2. h \in 1..L /\ h \in 1..(j - 1)
        BY <1>1, <3>1, <3>2, <4>1
      <4>3. QED
        BY <1>3, <4>1, <4>2
    <3>5. CASE i > committed
      <4>1. PICK l \in 1..n : i = committed + l /\ l < k
        <5>1. i - committed \in 1..n /\ i = committed + (i - committed) /\ i - committed < k
          BY <1>1, <3>1, <3>2, <3>3, <3>5
        <5>2. QED
          BY <5>1
      <4>2. L + l \in 1..(j - 1)
        BY <1>1, <3>1, <3>2, <4>1
      <4>3. published'[L + l].of = i
        BY <1>4, <4>1
      <4>4. QED
        BY <4>2, <4>3
    <3>6. i <= committed \/ i > committed
      BY <1>1, <3>3
    <3>7. QED
      BY <3>4, <3>5, <3>6
  <2>3. QED
    BY <2>1, <2>2
<1>7. QED
  BY <1>3, <1>4, <1>5, <1>6 DEF AnsweredInOrder

LEMMA InitAnswers == Init => AnswerInv
BY DEF Init, AnswerInv, CommittedAnswered, AnsweredInOrder

\* The steps that handle a message answer it or leave the outputs alone.
LEMMA HandleStep ==
  ASSUME TypeOK, Handle
  PROVE  /\ pc # "idle" /\ pos <= last
         /\ UNCHANGED <<topic, committed, published>>
         /\ \/ \E name, about : Answer(name, about)
            \/ pc' \in Awaits /\ outputs' = outputs
<1>1. CASE TakeMessage
  BY <1>1 DEF TakeMessage, Answer, kafka, Awaits
<1>2. CASE CheckRequester
  <2>1. AfterRequester \in Awaits
    BY DEF AfterRequester, Awaits
  <2>2. QED
    BY <1>2, <2>1, Handled DEF CheckRequester, Answer, kafka, Awaits
<1>3. CASE GetAdapter
  <2>1. (IF msg.kind \in Changing THEN msg.kind ELSE "ask") \in Awaits
    BY DEF Changing, Awaits
  <2>2. QED
    BY <1>3, <2>1, Handled DEF GetAdapter, Answer, kafka, Awaits
<1>4. CASE AskOracle
  BY <1>4, Handled DEF AskOracle, Answer, kafka, Awaits
<1>5. CASE Associate
  BY <1>5, Handled DEF Associate, Answer, kafka, Awaits
<1>6. CASE Disassociate
  BY <1>6, Handled DEF Disassociate, Answer, kafka, Awaits
<1>7. CASE CheckDestination
  BY <1>7, Handled DEF CheckDestination, Answer, kafka, Awaits
<1>8. QED
  BY <1>1, <1>2, <1>3, <1>4, <1>5, <1>6, <1>7 DEF Handle

\* Nor does what happens around the handler disturb its answers.
LEMMA EnvironmentStep ==
  ASSUME \/ \E m \in Messages : Produce(m)
         \/ \E f \in Fsps, s \in Statuses : ChangeParticipant(f, s)
         \/ \E p \in Parties : ChangeOracles(p)
         \/ UNCHANGED vars
  PROVE  UNCHANGED <<committed, published, memory>>
BY DEF Produce, ChangeParticipant, ChangeOracles, vars, kafka

LEMMA NextAnswers == TypeOK /\ AnswerInv /\ [Next]_vars => AnswerInv'
<1> SUFFICES ASSUME TypeOK, AnswerInv, [Next]_vars PROVE AnswerInv'
  OBVIOUS
<1>1. CASE UNCHANGED <<committed, published, memory>>
  BY <1>1 DEF memory, AnswerInv, CommittedAnswered, AnsweredInOrder, Answered
<1>2. CASE Handle
  <2>1. CASE pc' \in Awaits /\ outputs' = outputs
    BY <1>2, <2>1, HandleStep, QuietAnswers DEF AnswerInv, Awaits
  <2>2. QED
    BY <1>2, <2>1, HandleStep, AnswerAligned
<1>3. ASSUME NEW n \in 1..MaxBatch, Deliver(n)
      PROVE  AnswerInv'
  <2>1. UNCHANGED <<committed, published>> /\ pc' = "next" /\ outputs' = <<>>
    BY <1>3 DEF Deliver, kafka
  <2>2. QED
    BY <2>1, QuietAnswers
<1>4. CASE Send
  <2>1. /\ pc = "next" /\ pos > last /\ published' = published \o outputs /\ pc' = "sent"
        /\ UNCHANGED <<committed, last, outputs>>
    BY <1>4 DEF Send
  <2>2. Len(outputs) \in Nat /\ SubSeq(outputs, 1, Len(outputs)) = outputs
    BY LenProperties, SubSeqFull DEF TypeOK
  <2>3. last = committed + Len(outputs) /\ committed \in Nat
    <3>1. /\ pos \in Nat /\ last \in Nat /\ committed \in Nat
          /\ pos <= last + 1 /\ Len(outputs) = pos - committed - 1
      BY <2>1, LenProperties DEF TypeOK
    <3>2. QED
      BY <2>1, <2>2, <3>1
  <2>4. AnsweredInOrder' /\ \A i \in 1..(committed + Len(outputs)) : Answered(i)'
    <3>1. published' = published \o SubSeq(outputs, 1, Len(outputs)) /\ pc # "idle"
      BY <2>1, <2>2
    <3>2. Len(outputs) \in 0..Len(outputs)
      BY <2>2
    <3>3. QED
      BY <3>1, <3>2, PublishInOrder
  <2>5. \A i \in 1..last : Answered(i)'
    BY <2>3, <2>4
  <2>6. CommittedAnswered' /\ \A i \in (committed + 1)..last : Answered(i)'
    BY <2>1, <2>2, <2>3, <2>5 DEF CommittedAnswered
  <2>7. QED
    BY <2>1, <2>2, <2>3, <2>4, <2>6 DEF AnswerInv
<1>5. CASE Commit
  <2>1. pc = "sent" /\ committed' = last /\ pc' = "idle" /\ published' = published
    BY <1>5 DEF Commit, CallbackEnds
  <2>2. \A i \in 1..last : Answered(i)
    BY <2>1, LenProperties DEF AnswerInv, CommittedAnswered, TypeOK
  <2>3. QED
    BY <2>1, <2>2 DEF AnswerInv, CommittedAnswered, AnsweredInOrder, Answered
<1>6. CASE Throw
  <2>1. PICK n \in 0..Len(outputs) : published' = published \o SubSeq(outputs, 1, n)
    BY <1>6 DEF Throw
  <2>2. pc = "next" /\ committed' = committed /\ pc' = "idle"
    BY <1>6 DEF Throw, CallbackEnds
  <2>3. AnsweredInOrder' /\ \A i \in 1..(committed + n) : Answered(i)'
    BY <2>1, <2>2, PublishInOrder
  <2>4. CommittedAnswered'
    BY <2>2, <2>3, LenProperties DEF CommittedAnswered, TypeOK
  <2>5. QED
    BY <2>2, <2>3, <2>4 DEF AnswerInv
<1>7. CASE Crash
  BY <1>7 DEF Crash, CallbackEnds, kafka, AnswerInv, CommittedAnswered, AnsweredInOrder, Answered
<1>8. QED
  BY <1>1, <1>2, <1>3, <1>4, <1>5, <1>6, <1>7, EnvironmentStep DEF Next, Work

\* No message is committed without its answer having been published.
THEOREM CommittedAreAnswered == Spec => []CommittedAnswered
BY TypeCorrect, InitAnswers, NextAnswers, PTL DEF Spec, AnswerInv

\* The first answer to a message is published after those to all earlier ones,
\* across partial batches and redeliveries.
THEOREM AnswersInOrder == Spec => []AnsweredInOrder
BY TypeCorrect, InitAnswers, NextAnswers, PTL DEF Spec, AnswerInv

----------------------------------------------------------------------------
(* RepliesBounded *)

\* Whose answer the callback in progress, or one that was committed, has sent.
Settled(i) == i <= committed \/ (pc = "sent" /\ i <= last)

\* Each crash and each throw accounts for one answer to a message, and the
\* attempt that was, or is about to be, committed for one more.
RepliesInv ==
  \A i \in Nat : Cardinality(Replies(i)) <= retries + (IF Settled(i) THEN 1 ELSE 0)

\* There are finitely many answers.
LEMMA RepliesFinite ==
  ASSUME TypeOK, NEW i
  PROVE  IsFiniteSet(Replies(i)) /\ Cardinality(Replies(i)) \in Nat
<1>1. DOMAIN published = 1..Len(published) /\ Len(published) \in Nat
  BY LenProperties DEF TypeOK
<1>2. IsFiniteSet(1..Len(published))
  BY <1>1, FS_Interval
<1>3. Replies(i) \in SUBSET (1..Len(published))
  BY <1>1 DEF Replies
<1>4. QED
  BY <1>2, <1>3, FS_Subset, FS_CardinalityType

\* Sending the first n answers adds one to those of the n messages after the
\* last commit, and none to those of the others.
LEMMA PublishReplies ==
  ASSUME TypeOK, AnswerInv, pc # "idle", NEW n \in 0..Len(outputs),
         published' = published \o SubSeq(outputs, 1, n), NEW i \in Nat
  PROVE  /\ Cardinality(Replies(i)') \in Nat
         /\ Cardinality(Replies(i)') <=
              Cardinality(Replies(i)) + (IF i \in (committed + 1)..(committed + n) THEN 1 ELSE 0)
<1> DEFINE L == Len(published)
           k == i - committed
<1>1. L \in Nat /\ n \in Nat /\ committed \in Nat /\ DOMAIN published = 1..L
  BY LenProperties DEF TypeOK
<1>2. DOMAIN published' = 1..(L + n) /\ \A j \in 1..L : published'[j] = published[j]
  <2>1. SubSeq(outputs, 1, n) \in Seq(Events) /\ Len(SubSeq(outputs, 1, n)) = n
    BY <1>1, SubSeqProperties DEF TypeOK
  <2>2. QED
    BY <1>1, <2>1, ConcatProperties DEF TypeOK
<1>3. \A l \in 1..n : published'[L + l].of = committed + l
  BY PublishInOrder
<1>4. \A j \in Replies(i)' : j \in Replies(i) \/ (k \in 1..n /\ j = L + k)
  <2>1. ASSUME NEW j \in 1..(L + n), published'[j].of = i, j \notin 1..L
        PROVE  k \in 1..n /\ j = L + k
    <3>1. PICK l \in 1..n : j = L + l
      <4>1. j - L \in 1..n /\ j = L + (j - L)
        BY <1>1, <2>1
      <4>2. QED
        BY <4>1
    <3>2. i = committed + l
      BY <1>3, <2>1, <3>1
    <3>3. QED
      BY <1>1, <3>1, <3>2
  <2>2. QED
    BY <1>1, <1>2, <2>1 DEF Replies
<1>5. IsFiniteSet(Replies(i)) /\ Cardinality(Replies(i)) \in Nat
  BY RepliesFinite
<1>6. CASE i \in (committed + 1)..(committed + n)
  <2>1. Replies(i)' \in SUBSET (Replies(i) \cup {L + k})
    BY <1>4
  <2>2. /\ IsFiniteSet(Replies(i) \cup {L + k})
        /\ Cardinality(Replies(i) \cup {L + k}) \in {Cardinality(Replies(i)), Cardinality(Replies(i)) + 1}
    BY <1>5, FS_AddElement
  <2>3. /\ IsFiniteSet(Replies(i)')
        /\ Cardinality(Replies(i)') <= Cardinality(Replies(i) \cup {L + k})
    BY <2>1, <2>2, FS_Subset
  <2>4. Cardinality(Replies(i)') \in Nat
    BY <2>3, FS_CardinalityType
  <2>5. QED
    BY <1>5, <1>6, <2>2, <2>3, <2>4
<1>7. CASE i \notin (committed + 1)..(committed + n)
  <2>1. k \notin 1..n
    BY <1>1, <1>7
  <2>2. Replies(i)' \in SUBSET Replies(i)
    BY <1>4, <2>1
  <2>3. IsFiniteSet(Replies(i)') /\ Cardinality(Replies(i)') <= Cardinality(Replies(i))
    BY <1>5, <2>2, FS_Subset
  <2>4. QED
    BY <1>5, <1>7, <2>3, FS_CardinalityType
<1>8. QED
  BY <1>6, <1>7

LEMMA NextReplies == TypeOK /\ AnswerInv /\ RepliesInv /\ [Next]_vars => RepliesInv'
<1> SUFFICES ASSUME TypeOK, AnswerInv, RepliesInv, [Next]_vars, NEW i \in Nat
             PROVE  Cardinality(Replies(i)') <= retries' + (IF Settled(i)' THEN 1 ELSE 0)
  BY DEF RepliesInv
<1>0. /\ Cardinality(Replies(i)) <= retries + (IF Settled(i) THEN 1 ELSE 0)
      /\ Cardinality(Replies(i)) \in Nat
      /\ retries \in Nat /\ committed \in Nat /\ last \in Nat /\ pos \in Nat
  BY RepliesFinite, LenProperties, BoundAssumption DEF TypeOK, RepliesInv
<1>1. CASE UNCHANGED published
           /\ \/ retries' = retries /\ (Settled(i) => Settled(i)')
              \/ retries' = retries + 1
  BY <1>0, <1>1 DEF Replies
<1>2. CASE Handle
  <2>1. UNCHANGED <<published, committed, retries>> /\ pc \notin {"sent", "idle"}
    BY <1>2, HandleStep DEF Handle, TakeMessage, CheckRequester, GetAdapter, AskOracle, Associate,
       Disassociate, CheckDestination, Answer, kafka
  <2>2. QED
    BY <1>1, <2>1 DEF Settled
<1>3. CASE \E n \in 1..MaxBatch : Deliver(n)
  BY <1>1, <1>3 DEF Deliver, kafka, Settled
<1>4. CASE Send
  <2>1. /\ pc = "next" /\ pos > last /\ published' = published \o outputs /\ pc' = "sent"
        /\ UNCHANGED <<committed, last, retries>>
    BY <1>4 DEF Send
  <2>2. Len(outputs) \in Nat /\ SubSeq(outputs, 1, Len(outputs)) = outputs
    BY LenProperties, SubSeqFull DEF TypeOK
  <2>3. last = committed + Len(outputs)
    <3>1. pos <= last + 1 /\ Len(outputs) = pos - committed - 1
      BY <2>1 DEF TypeOK
    <3>2. QED
      BY <1>0, <2>1, <2>2, <3>1
  <2>4. /\ Cardinality(Replies(i)') \in Nat
        /\ Cardinality(Replies(i)') <=
             Cardinality(Replies(i)) + (IF i \in (committed + 1)..last THEN 1 ELSE 0)
    <3>1. pc # "idle" /\ Len(outputs) \in 0..Len(outputs)
          /\ published' = published \o SubSeq(outputs, 1, Len(outputs))
      BY <2>1, <2>2
    <3>2. QED
      BY <2>3, <3>1, PublishReplies
  <2>5. i \in (committed + 1)..last => ~Settled(i) /\ Settled(i)'
    BY <1>0, <2>1 DEF Settled
  <2>6. Settled(i) => Settled(i)'
    BY <2>1 DEF Settled
  <2>7. QED
    BY <1>0, <2>1, <2>4, <2>5, <2>6
<1>5. CASE Commit
  <2>1. /\ pc = "sent" /\ committed' = last /\ UNCHANGED <<published, retries>>
        /\ committed <= last
    BY <1>5 DEF Commit, AnswerInv
  <2>2. Settled(i) => i <= committed'
    BY <1>0, <2>1 DEF Settled
  <2>3. QED
    BY <1>1, <2>1, <2>2 DEF Settled
<1>6. CASE Throw
  <2>1. PICK n \in 0..Len(outputs) : published' = published \o SubSeq(outputs, 1, n)
    BY <1>6 DEF Throw
  <2>2. /\ pc = "next" /\ retries' = retries + 1 /\ committed' = committed
    BY <1>6 DEF Throw
  <2>3. /\ Cardinality(Replies(i)') \in Nat
        /\ Cardinality(Replies(i)') <=
             Cardinality(Replies(i)) + (IF i \in (committed + 1)..(committed + n) THEN 1 ELSE 0)
    BY <2>1, <2>2, PublishReplies
  <2>4. i \in (committed + 1)..(committed + n) => ~Settled(i)
    BY <1>0, <2>2 DEF Settled
  <2>5. Settled(i) => Settled(i)'
    BY <2>2 DEF Settled
  <2>6. QED
    BY <1>0, <2>2, <2>3, <2>4, <2>5
<1>7. CASE Crash
  BY <1>1, <1>7 DEF Crash, kafka
<1>8. CASE UNCHANGED <<published, committed, memory, retries>>
  BY <1>1, <1>8 DEF Settled, memory
<1>9. QED
  BY <1>2, <1>3, <1>4, <1>5, <1>6, <1>7, <1>8
     DEF Next, Work, vars, kafka, Produce, ChangeParticipant, ChangeOracles

\* A message is answered at most once more than there were crashes and callbacks
\* that threw, wherever in a batch or a send these fell.
THEOREM RepliesAreBounded == Spec => []RepliesBounded
<1>1. Init => RepliesInv
  <2> SUFFICES ASSUME Init, NEW i \in Nat
               PROVE  Cardinality(Replies(i)) <= retries + (IF Settled(i) THEN 1 ELSE 0)
    BY DEF RepliesInv
  <2>1. Replies(i) = {}
    BY DEF Init, Replies
  <2>2. Cardinality(Replies(i)) = 0
    BY <2>1, FS_EmptySet
  <2>3. QED
    BY <2>2 DEF Init
<1>2. TypeOK /\ RepliesInv => RepliesBounded
  <2> SUFFICES ASSUME TypeOK, RepliesInv, NEW i \in DOMAIN topic
               PROVE  Cardinality(Replies(i)) <= 1 + retries
    BY DEF RepliesBounded
  <2>1. i \in Nat /\ retries \in Nat
    BY LenProperties, BoundAssumption DEF TypeOK
  <2>2. Cardinality(Replies(i)) \in Nat
    BY RepliesFinite
  <2>3. QED
    BY <2>1, <2>2 DEF RepliesInv
<1>3. QED
  BY <1>1, <1>2, TypeCorrect, InitAnswers, NextAnswers, NextReplies, PTL DEF Spec

----------------------------------------------------------------------------
(* EventHandling implements AtLeastOnce *)

AnswersSent == [j \in DOMAIN published |-> published[j].of]

promised == <<Len(topic), committed, AnswersSent>>

\* A step that leaves topic, commits and output alone is a stutter of the promise.
LEMMA QuietPromise ==
  ASSUME UNCHANGED kafka
  PROVE  UNCHANGED promised
BY DEF kafka, promised, AnswersSent

\* Sending the first n answers is Reply(n), or a stutter when there are none.
LEMMA PublishPromise ==
  ASSUME TypeOK, AnswerInv, pc # "idle", NEW n \in 0..Len(outputs), UNCHANGED <<topic, committed>>,
         published' = published \o SubSeq(outputs, 1, n), committed + n <= Len(topic)
  PROVE  [Promise!Next]_promised
<1> DEFINE L == Len(published)
           R == [i \in 1..n |-> committed + i]
<1>1. L \in Nat /\ n \in Nat /\ committed \in Nat /\ Len(topic) \in Nat
      /\ DOMAIN published = 1..L
  BY LenProperties DEF TypeOK
<1>2. /\ \A i \in 1..n : published'[L + i].of = committed + i
      /\ Len(published') = L + n
  BY PublishInOrder
<1>3. /\ DOMAIN published' = 1..(L + n)
      /\ \A j \in 1..L : published'[j] = published[j]
  <2>1. SubSeq(outputs, 1, n) \in Seq(Events) /\ Len(SubSeq(outputs, 1, n)) = n
    BY <1>1, SubSeqProperties DEF TypeOK
  <2>2. QED
    BY <1>1, <2>1, ConcatProperties DEF TypeOK
<1>4. AnswersSent \in Seq(Nat) /\ Len(AnswersSent) = L
  <2>1. AnswersSent \in [1..L -> Nat]
    <3>1. published \in Seq(Events)
      BY DEF TypeOK
    <3>2. \A j \in 1..L : published[j] \in Events
      BY <3>1, ElementOfSeq
    <3>3. \A j \in 1..L : published[j].of \in Nat
      BY <3>2 DEF Events
    <3>4. QED
      BY <1>1, <3>3 DEF AnswersSent
  <2>2. QED
    BY <1>1, <2>1, IsASeq DEF AnswersSent
<1>5. R \in Seq(Nat) /\ Len(R) = n /\ \A i \in 1..n : R[i] = committed + i
  <2>1. R \in [1..n -> Nat]
    BY <1>1
  <2>2. QED
    BY <1>1, <2>1, IsASeq
<1>6. AnswersSent' = AnswersSent \o R
  <2>1. /\ AnswersSent \o R \in Seq(Nat) /\ Len(AnswersSent \o R) = L + n
        /\ \A j \in 1..L : (AnswersSent \o R)[j] = AnswersSent[j]
        /\ \A i \in 1..n : (AnswersSent \o R)[L + i] = R[i]
    <3>1. /\ AnswersSent \o R \in Seq(Nat) /\ Len(AnswersSent \o R) = L + n
          /\ \A j \in 1..(L + n) :
               (AnswersSent \o R)[j] = IF j <= L THEN AnswersSent[j] ELSE R[j - L]
      BY <1>4, <1>5, ConcatProperties
    <3>2. \A i \in 1..n : L + i \in 1..(L + n) /\ ~(L + i <= L) /\ (L + i) - L = i
      BY <1>1
    <3>3. \A j \in 1..L : j \in 1..(L + n) /\ j <= L
      BY <1>1
    <3>4. QED
      BY <3>1, <3>2, <3>3
  <2>2. AnswersSent \o R = [j \in 1..(L + n) |-> (AnswersSent \o R)[j]]
    BY <1>1, <2>1, LenProperties
  <2>3. AnswersSent' = [j \in 1..(L + n) |-> published'[j].of]
    BY <1>3 DEF AnswersSent
  <2>4. ASSUME NEW j \in 1..(L + n)
        PROVE  published'[j].of = (AnswersSent \o R)[j]
    <3>1. CASE j \in 1..L
      BY <1>1, <1>3, <2>1, <3>1 DEF AnswersSent
    <3>2. CASE j \notin 1..L
      <4>1. PICK i \in 1..n : j = L + i
        <5>1. j - L \in 1..n /\ j = L + (j - L)
          BY <1>1, <2>4, <3>2
        <5>2. QED
          BY <5>1
      <4>2. QED
        BY <1>2, <1>5, <2>1, <4>1
    <3>3. QED
      BY <3>1, <3>2
  <2>5. QED
    BY <2>2, <2>3, <2>4
<1>7. CASE n = 0
  <2>1. DOMAIN published' = DOMAIN published /\ AnswersSent' = AnswersSent
    BY <1>1, <1>3, <1>7 DEF AnswersSent
  <2>2. QED
    BY <2>1 DEF promised
<1>8. CASE n # 0
  <2>1. Promise!Reply(n)
    BY <1>6 DEF Promise!Reply, AnswersSent
  <2>2. n \in 1..(Len(topic) - committed)
    BY <1>1, <1>8
  <2>3. QED
    BY <2>1, <2>2 DEF Promise!Next
<1>9. QED
  BY <1>7, <1>8

LEMMA NextPromise == TypeOK /\ AnswerInv /\ [Next]_vars => [Promise!Next]_promised
<1> SUFFICES ASSUME TypeOK, AnswerInv, [Next]_vars PROVE [Promise!Next]_promised
  OBVIOUS
<1>0. committed \in Nat /\ last \in Nat /\ pos \in Nat /\ Len(topic) \in Nat /\ last <= Len(topic)
  BY LenProperties DEF TypeOK
<1>1. CASE UNCHANGED kafka
  BY <1>1, QuietPromise
<1>2. ASSUME NEW m \in Messages, Produce(m)
      PROVE  [Promise!Next]_promised
  <2>1. Len(topic') = Len(topic) + 1
    BY <1>2, AppendProperties DEF Produce, TypeOK
  <2>2. Promise!Arrive
    BY <1>2, <2>1 DEF Produce, Promise!Arrive
  <2>3. QED
    BY <2>2 DEF Promise!Next
<1>3. CASE Send
  <2>1. /\ pc = "next" /\ pos > last /\ published' = published \o outputs
        /\ UNCHANGED <<topic, committed>>
    BY <1>3 DEF Send
  <2>2. Len(outputs) \in Nat /\ SubSeq(outputs, 1, Len(outputs)) = outputs
    BY LenProperties, SubSeqFull DEF TypeOK
  <2>3. /\ Len(outputs) \in 0..Len(outputs) /\ pc # "idle"
        /\ published' = published \o SubSeq(outputs, 1, Len(outputs))
    BY <2>1, <2>2
  <2>4. pos <= last + 1 /\ Len(outputs) = pos - committed - 1
    BY <2>1 DEF TypeOK
  <2>5. committed + Len(outputs) <= Len(topic)
    BY <1>0, <2>1, <2>2, <2>4
  <2>6. QED
    BY <2>1, <2>3, <2>5, PublishPromise
<1>4. CASE Throw
  <2>1. PICK n \in 0..Len(outputs) : published' = published \o SubSeq(outputs, 1, n)
    BY <1>4 DEF Throw
  <2>2. pc # "idle" /\ UNCHANGED <<topic, committed>>
    BY <1>4 DEF Throw
  <2>3. pos <= last + 1 /\ Len(outputs) = pos - committed - 1 /\ n \in Nat /\ n <= Len(outputs)
    BY <2>2, LenProperties DEF TypeOK
  <2>4. committed + n <= Len(topic)
    BY <1>0, <2>3
  <2>5. QED
    BY <2>1, <2>2, <2>4, PublishPromise
<1>5. CASE Commit
  <2>1. pc = "sent" /\ committed' = last /\ UNCHANGED <<topic, published>>
    BY <1>5 DEF Commit
  <2>2. last >= committed /\ \A i \in (committed + 1)..last : Answered(i)
    BY <2>1 DEF AnswerInv
  <2>3. UNCHANGED <<Len(topic), AnswersSent>>
    BY <2>1 DEF AnswersSent
  <2>4. CASE last = committed
    BY <2>1, <2>3, <2>4 DEF promised
  <2>5. CASE last # committed
    <3>1. (committed + 1)..last \subseteq Range(AnswersSent)
      BY <2>2 DEF Answered, AnswersSent, Range
    <3>2. Promise!Finish(last)
      BY <1>0, <2>1, <2>2, <2>3, <3>1 DEF Promise!Finish, AnswersSent, Range, Promise!Range
    <3>3. last - committed \in 1..(Len(topic) - committed) /\ committed + (last - committed) = last
      BY <1>0, <2>2, <2>5
    <3>4. Promise!Next
      BY <3>2, <3>3 DEF Promise!Next
    <3>5. QED
      BY <3>4
  <2>6. QED
    BY <2>4, <2>5
<1>6. CASE Handle \/ Crash \/ \E n \in 1..MaxBatch : Deliver(n)
  <2>1. UNCHANGED kafka
    BY <1>6, HandleStep DEF Crash, Deliver, kafka
  <2>2. QED
    BY <1>1, <2>1
<1>7. (\E f \in Fsps, s \in Statuses : ChangeParticipant(f, s)) => UNCHANGED kafka
  BY DEF ChangeParticipant
<1>8. (\E p \in Parties : ChangeOracles(p)) => UNCHANGED kafka
  BY DEF ChangeOracles
<1>9. UNCHANGED vars => UNCHANGED kafka
  BY DEF vars
<1>10. QED
  BY <1>1, <1>2, <1>3, <1>4, <1>5, <1>6, <1>7, <1>8, <1>9 DEF Next, Work

\* Whatever is delivered again, crashes or throws, the event handler publishes
\* runs of answers that begin right after the last commit and commits only what
\* was answered.
THEOREM AtLeastOnceImplemented == Spec => ImplementsAtLeastOnce
<1>1. Init => Promise!Init
  <2>1. ASSUME Init PROVE AnswersSent = <<>>
    <3>1. DOMAIN published = {}
      BY <2>1 DEF Init
    <3>2. QED
      BY <3>1, <2>1 DEF AnswersSent, Init
  <2>2. QED
    BY <2>1 DEF Init, Promise!Init, AnswersSent
<1>2. QED
  BY <1>1, TypeCorrect, InitAnswers, NextAnswers, NextPromise, PTL
     DEF Spec, ImplementsAtLeastOnce, Promise!Spec, promised, AnswersSent

----------------------------------------------------------------------------
(* Vouched *)

\* While a message is handled, whoever the participants service or its client
\* would call "ok" is in okSeen, and so is the requester once it was checked.
VouchInv ==
  /\ pc \in Awaits => Ok(participants) \cup Ok(known) \subseteq okSeen
  /\ pc \in Awaits \ {"requester"} => msg.requester \in okSeen

\* Whom a check finds "ok", and whom the client caches as "ok", was vouched for.
LEMMA InfoVouched ==
  ASSUME TypeOK, VouchInv, pc \in Awaits, NEW f \in Fsps \cup {Null}, NEW v \in Verdicts,
         GetParticipantInfo(f, v)
  PROVE  (v = "ok" => f \in okSeen) /\ Ok(known') \subseteq okSeen
<1>1. \A g \in Fsps : participants[g] = "ok" \/ known[g] = "ok" => g \in okSeen
  BY DEF VouchInv, Ok
<1>2. v = "ok" => f \in okSeen
  BY <1>1, InfoType DEF GetParticipantInfo
<1>3. \A g \in Fsps : known'[g] = known[g] \/ (g = f /\ known'[g] = participants[f])
  BY DEF GetParticipantInfo, TypeOK
<1>4. QED
  BY <1>1, <1>2, <1>3 DEF Ok

\* What Vouched asks of a step.
VouchedStep ==
  Len(outputs') = Len(outputs) + 1 =>
    LET e == outputs'[Len(outputs')]
    IN  e.name \in Positive => {topic[e.of].requester, e.about} \subseteq okSeen

LEMMA AnswerVouched ==
  ASSUME TypeOK, NEW name, NEW about, Answer(name, about),
         name \in Positive => {msg.requester, about} \subseteq okSeen
  PROVE  VouchedStep
<1> DEFINE e == [of |-> pos, name |-> name, about |-> about]
<1>1. outputs' = Append(outputs, e) /\ Len(outputs) \in Nat
  BY LenProperties DEF Answer, TypeOK
<1>2. outputs'[Len(outputs')] = e
  BY <1>1
<1>3. QED
  BY <1>2 DEF VouchedStep, msg

LEMMA HandleVouched ==
  ASSUME TypeOK, HandlingInv, VouchInv, Handle
  PROVE  VouchedStep /\ VouchInv'
<1>0. ASSUME outputs' = outputs PROVE VouchedStep
  <2>1. Len(outputs) \in Nat
    BY LenProperties DEF TypeOK
  <2>2. QED
    BY <1>0, <2>1 DEF VouchedStep
<1>1. ASSUME NEW name, NEW about, Answer(name, about) PROVE VouchInv'
  BY <1>1 DEF Answer, VouchInv, Awaits
<1>2. CASE TakeMessage
  <2>1. CASE \E name, about : Answer(name, about) /\ name \in {"invalidPayload", "invalidType"}
    BY <1>1, <2>1, AnswerVouched DEF Positive, Responses
  <2>2. CASE pc' = "requester" /\ outputs' = outputs
    BY <1>0, <1>2, <2>2 DEF TakeMessage, VouchInv, world, Ok
  <2>3. QED
    BY <1>2, <2>1, <2>2 DEF TakeMessage
<1>3. CASE CheckRequester
  <2>1. msg.requester \in Fsps \cup {Null} /\ pc \in Awaits
    BY <1>3, Handled, MessageType DEF CheckRequester, Awaits
  <2>2. PICK v \in Verdicts :
          /\ GetParticipantInfo(msg.requester, v)
          /\ \/ v # "ok" /\ Answer("requesterError", v)
             \/ /\ v = "ok" /\ pc' = AfterRequester /\ fsp' = msg.destination
                /\ UNCHANGED <<kafka, pos, last, outputs, retries, changes>>
    BY <1>3 DEF CheckRequester
  <2>3. (v = "ok" => msg.requester \in okSeen) /\ Ok(known') \subseteq okSeen
    BY <2>1, <2>2, InfoVouched
  <2>4. CASE Answer("requesterError", v)
    BY <1>1, <2>4, AnswerVouched DEF Positive, Responses
  <2>5. CASE v = "ok" /\ UNCHANGED <<kafka, pos, last, outputs, retries, changes>>
    BY <1>0, <1>3, <2>1, <2>3, <2>5 DEF CheckRequester, VouchInv, msg, world, kafka, Ok
  <2>6. QED
    BY <2>2, <2>4, <2>5
<1>4. CASE GetAdapter
  <2>1. CASE \E name, about : Answer(name, about) /\ name \in {"noAdapter", "notFromOracle"}
    BY <1>1, <2>1, AnswerVouched DEF Positive, Responses
  <2>2. CASE UNCHANGED <<kafka, pos, last, fsp, outputs, retries, changes>>
    BY <1>0, <1>4, <2>2 DEF GetAdapter, VouchInv, Awaits, msg, world, kafka, Ok
  <2>3. QED
    BY <1>4, <2>1, <2>2 DEF GetAdapter
<1>5. CASE AskOracle
  <2>1. CASE Answer("notFromOracle", Null)
    BY <1>1, <2>1, AnswerVouched DEF Positive, Responses
  <2>2. CASE UNCHANGED <<kafka, pos, last, outputs, retries, changes>>
    BY <1>0, <1>5, <2>2 DEF AskOracle, VouchInv, Awaits, msg, world, kafka, Ok
  <2>3. QED
    BY <1>5, <2>1, <2>2 DEF AskOracle
<1>6. CASE Associate
  <2>1. PICK name : Answer(name, msg.requester)
    BY <1>6 DEF Associate
  <2>2. msg.requester \in okSeen
    BY <1>6 DEF Associate, VouchInv, Awaits
  <2>3. QED
    BY <1>1, <2>1, <2>2, AnswerVouched
<1>7. CASE Disassociate
  <2>1. PICK name : Answer(name, msg.requester)
    BY <1>7 DEF Disassociate
  <2>2. msg.requester \in okSeen
    BY <1>7 DEF Disassociate, VouchInv, Awaits
  <2>3. QED
    BY <1>1, <2>1, <2>2, AnswerVouched
<1>8. CASE CheckDestination
  <2>1. fsp \in Fsps \cup {Null} /\ pc \in Awaits /\ msg.requester \in okSeen
    BY <1>8 DEF CheckDestination, TypeOK, VouchInv, Awaits
  <2>2. PICK v \in Verdicts :
          /\ GetParticipantInfo(fsp, v)
          /\ \/ v # "ok" /\ Answer("destinationError", v)
             \/ v = "ok" /\ Answer(Handler(msg).reply, fsp)
    BY <1>8 DEF CheckDestination
  <2>3. v = "ok" => fsp \in okSeen
    BY <2>1, <2>2, InfoVouched
  <2>4. CASE Answer("destinationError", v)
    BY <1>1, <2>4, AnswerVouched DEF Positive, Responses
  <2>5. CASE v = "ok" /\ Answer(Handler(msg).reply, fsp)
    BY <1>1, <2>1, <2>3, <2>5, AnswerVouched
  <2>6. QED
    BY <2>2, <2>4, <2>5
<1>9. QED
  BY <1>2, <1>3, <1>4, <1>5, <1>6, <1>7, <1>8 DEF Handle

LEMMA NextVouched ==
  TypeOK /\ HandlingInv /\ VouchInv /\ [Next]_vars => VouchedStep /\ VouchInv'
<1> SUFFICES ASSUME TypeOK, HandlingInv, VouchInv, [Next]_vars PROVE VouchedStep /\ VouchInv'
  OBVIOUS
<1>0. Len(outputs) \in Nat
  BY LenProperties DEF TypeOK
<1>1. CASE outputs' \in {outputs, <<>>} /\ pc' \notin Awaits
  BY <1>0, <1>1 DEF VouchedStep, VouchInv
<1>2. ASSUME NEW m \in Messages, Produce(m)
      PROVE  VouchedStep /\ VouchInv'
  <2>1. \A i \in 1..Len(topic) : topic'[i] = topic[i]
    BY <1>2, AppendProperties DEF TypeOK, Produce
  <2>2. UNCHANGED <<pos, pc, outputs, known, participants, okSeen>>
    BY <1>2 DEF Produce, memory, world
  <2>3. pc \in Awaits => msg' = msg
    BY <2>1, <2>2, Handled DEF msg
  <2>4. QED
    BY <1>0, <2>2, <2>3 DEF VouchedStep, VouchInv, Ok
<1>3. ASSUME NEW f \in Fsps, NEW s \in Statuses, ChangeParticipant(f, s)
      PROVE  VouchedStep /\ VouchInv'
  <2>1. UNCHANGED <<topic, pos, pc, outputs, known>> /\ okSeen' = okSeen \cup Ok(participants')
    BY <1>3 DEF ChangeParticipant, kafka, memory
  <2>2. QED
    BY <1>0, <2>1 DEF VouchedStep, VouchInv, msg, Ok
<1>4. ASSUME NEW p \in Parties, ChangeOracles(p)
      PROVE  VouchedStep /\ VouchInv'
  <2>1. UNCHANGED <<topic, pos, pc, outputs, known, participants, okSeen>>
    BY <1>4 DEF ChangeOracles, kafka, memory
  <2>2. QED
    BY <1>0, <2>1 DEF VouchedStep, VouchInv, msg, Ok
<1>5. CASE UNCHANGED vars
  <2>1. UNCHANGED <<topic, pos, pc, outputs, known, participants, okSeen>>
    BY <1>5 DEF vars, kafka, memory, world
  <2>2. QED
    BY <1>0, <2>1 DEF VouchedStep, VouchInv, msg, Ok
<1>6. CASE Send \/ Commit \/ Throw \/ Crash \/ \E n \in 1..MaxBatch : Deliver(n)
  <2>1. outputs' \in {outputs, <<>>} /\ pc' \in {"sent", "idle", "next"}
    BY <1>6 DEF Send, Commit, Throw, Crash, Deliver, CallbackEnds
  <2>2. QED
    BY <1>1, <2>1 DEF Awaits
<1>7. QED
  BY <1>2, <1>3, <1>4, <1>5, <1>6, HandleVouched DEF Next, Work

\* A positive answer is given only on behalf of, and with, participants that
\* were approved and active while the message was handled, or when the client
\* cached what it held on them then.
THEOREM PositiveAnswersVouched == Spec => Vouched
<1>1. Init => VouchInv
  BY DEF Init, VouchInv, Awaits
<1>2. TypeOK /\ HandlingInv /\ VouchInv /\ [Next]_vars => [VouchedStep]_vars
  BY NextVouched
<1>3. QED
  BY <1>1, <1>2, InitType, NextType, NextVouched, PTL DEF Spec, Vouched, VouchedStep
=============================================================================
