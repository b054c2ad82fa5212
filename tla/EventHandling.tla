--------------------------- MODULE EventHandling ---------------------------
(***************************************************************************)
(* AccountLookupEventHandler and AccountLookupAggregate.handleEvent: one   *)
(* replica takes batches of messages from its partition of the request     *)
(* topic, handles them one after the other, publishes the resulting events *)
(* and lets the consumer commit.  Handling a message stops at each await:  *)
(* the participants service, the oracle registry and the oracle are asked  *)
(* in turn, and all of them change meanwhile.                              *)
(*                                                                         *)
(* The Kafka consumer is external: a batch is committed when the callback  *)
(* resolves; after a crash, or when the callback throws, the messages      *)
(* after the last commit are delivered again.  The participants service is *)
(* external, and so is its client, which keeps what it was told for a      *)
(* while (PARTICIPANTS_CACHE_TIMEOUT_MS).  Of an oracle only what its      *)
(* adapter promises is kept: a set of associations, and calls that may     *)
(* fail (BuiltinOracle has the rest).                                      *)
(***************************************************************************)
EXTENDS Naturals, FiniteSets, Sequences

CONSTANTS
  Fsps,
  Parties,
  Null,        \* an absent participant id
  Messages,    \* the messages producers may send
  MaxMessages, \* bound: messages in the topic
  MaxBatch,    \* messages in a batch, at most (the consumer's batch size)
  MaxRetries,  \* bound: crashes and callbacks that throw
  MaxChanges,  \* bound: changes made by the environment
  Faults       \* whether calls to participants, registry and oracle may fail

Kinds == {"partyQuery", "partyInfo", "participantQuery", "associate", "disassociate",
          "partyRejected", "participantRejected", "unknown", "malformed"}

\* The answers of the participants service, "ok" for approved and active.
Statuses == {"ok", "notFound", "mismatch", "notApproved", "notActive"}

\* requester stands for requesterFspId, and for ownerFspId in the messages
\* that associate and disassociate.
ASSUME MessageAssumption ==
  Messages \subseteq [kind : Kinds, requester : Fsps \cup {Null},
                      destination : Fsps \cup {Null}, party : Parties]
ASSUME NullAssumption == Null \notin Fsps
ASSUME BoundAssumption ==
  /\ {MaxMessages, MaxBatch, MaxRetries, MaxChanges} \subseteq Nat
  /\ Faults \in BOOLEAN

VARIABLES
  topic,        \* the messages of the partition
  committed,    \* how many of them the consumer group has committed
  pos,          \* the message being handled
  last,         \* the last message of the batch
  pc,           \* the await the handler is at
  fsp,          \* destinationFspId or ownerFspId, once it is known
  outputs,      \* outputEvents of the batch
  published,    \* the events that reached the output topic
  participants, \* the participants service
  known,        \* what the client of that service has cached, or Null
  served,       \* the parties for whose type and currency there is an adapter
  assoc,        \* the associations the oracle holds
  okSeen,       \* history: participants that were ok since handling began, or
                \* when the client cached what it still holds then
  retries, changes

kafka == <<topic, committed, published>>
memory == <<pos, last, pc, fsp, outputs, known>>
world == <<participants, served, assoc>>
vars == <<kafka, memory, world, okSeen, retries, changes>>

Awaits == {"requester", "adapter", "ask", "associate", "disassociate", "destination"}

msg == topic[pos]

Ok(s) == {f \in Fsps : s[f] = "ok"}

----------------------------------------------------------------------------
Init ==
  /\ topic = <<>> /\ committed = 0 /\ published = <<>>
  /\ pos = 0 /\ last = 0 /\ pc = "idle" /\ fsp = Null /\ outputs = <<>>
  /\ participants \in [Fsps -> {"ok", "notActive"}]
  /\ served \in {{}, Parties}
  /\ known = [f \in Fsps |-> Null]
  /\ assoc = {}
  /\ okSeen = {}
  /\ retries = 0 /\ changes = 0

\* A producer of the interoperability API sends a request.
Produce(m) ==
  /\ Len(topic) < MaxMessages
  /\ topic' = Append(topic, m)
  /\ UNCHANGED <<committed, published, memory, world, okSeen, retries, changes>>

\* The participants service changes a participant.
ChangeParticipant(f, s) ==
  /\ changes < MaxChanges
  /\ changes' = changes + 1
  /\ s # participants[f]
  /\ participants' = [participants EXCEPT ![f] = s]
  /\ okSeen' = okSeen \cup Ok(participants')
  /\ UNCHANGED <<kafka, memory, served, assoc, retries>>

\* An oracle is registered or removed.
ChangeOracles(p) ==
  /\ changes < MaxChanges
  /\ changes' = changes + 1
  /\ served' \in {served \cup {p}, served \ {p}} \ {served}
  /\ UNCHANGED <<kafka, memory, participants, assoc, okSeen, retries>>

----------------------------------------------------------------------------
(* The batch callback *)

\* Mutant of Deliver: the batch is committed when it is delivered.
DeliverCommitted(n) ==
  /\ pc = "idle"
  /\ n \in 1..MaxBatch
  /\ committed + n <= Len(topic)
  /\ committed' = committed + n
  /\ pos' = committed + 1
  /\ last' = committed + n
  /\ pc' = "next"
  /\ fsp' = Null
  /\ outputs' = <<>>
  /\ UNCHANGED <<topic, published, known, world, okSeen, retries, changes>>

Deliver(n) ==
  /\ pc = "idle"
  /\ n \in 1..MaxBatch
  /\ committed + n <= Len(topic)
  /\ pos' = committed + 1
  /\ last' = committed + n
  /\ pc' = "next"
  /\ fsp' = Null
  /\ outputs' = <<>>
  /\ UNCHANGED <<kafka, known, world, okSeen, retries, changes>>

\* Mutant of Answer: the event is put before those of earlier messages.
AnswerFirst(name, about) ==
  /\ outputs' = <<[of |-> pos, name |-> name, about |-> about]>> \o outputs
  /\ pos' = pos + 1
  /\ pc' = "next"
  /\ fsp' = Null
  /\ UNCHANGED <<kafka, last, retries, changes>>

\* The event a message is answered with carries the message's opaque state
\* ("of" names the message), and is sent when the batch ends.
Answer(name, about) ==
  /\ outputs' = Append(outputs, [of |-> pos, name |-> name, about |-> about])
  /\ pos' = pos + 1
  /\ pc' = "next"
  /\ fsp' = Null
  /\ UNCHANGED <<kafka, last, retries, changes>>

\* Mutant of TakeMessage: a message without payload is not answered but waited on.
TakeMessageStuck ==
  /\ pc = "next" /\ pos <= last
  /\ msg.kind # "malformed"
  /\ okSeen' = Ok(participants) \cup Ok(known)
  /\ pc' = "requester"
  /\ UNCHANGED <<kafka, world, pos, last, fsp, outputs, known, retries, changes>>

\* handleEvent takes the next message: one it cannot handle is answered at
\* once, for the others the participant that asks is checked first.
TakeMessage ==
  /\ pc = "next" /\ pos <= last
  /\ okSeen' = Ok(participants) \cup Ok(known)
  /\ \/ msg.kind = "malformed" /\ Answer("invalidPayload", Null)
     \/ msg.kind = "unknown" /\ Answer("invalidType", Null)
     \/ /\ msg.kind \notin {"malformed", "unknown"}
        /\ pc' = "requester"
        /\ UNCHANGED <<kafka, pos, last, fsp, outputs, retries, changes>>
  /\ UNCHANGED <<known, world>>

\* What the tests on a participant id come to.  The client answers from its
\* cache or asks the service, and then caches a participant it is given; the
\* adapter turns every failure into "no participant".
GetParticipantInfo(f, v) ==
  \/ f = Null /\ v = "invalid" /\ UNCHANGED known
  \/ f # Null /\ v # Null /\ v = known[f] /\ UNCHANGED known
  \/ /\ f # Null /\ v = participants[f]
     /\ known' = IF v = "notFound" THEN known ELSE [known EXCEPT ![f] = v]
  \/ f # Null /\ Faults /\ v = "notFound" /\ UNCHANGED known

Verdicts == Statuses \cup {"invalid"}

\* What the handlers of queries do between checking the requester and checking
\* the destination, and what they respond: whether the oracle is asked for the
\* participant, or the message names it.
PartyQueryReceived(m) == [asks |-> m.destination = Null, reply |-> "partyInfoRequested"]
PartyInfoAvailable(m) == [asks |-> FALSE, reply |-> "partyQueryResponse"]
ParticipantQueryReceived(m) == [asks |-> TRUE, reply |-> "participantQueryResponse"]
PartyRejected(m) == [asks |-> FALSE, reply |-> "partyRejectedResponse"]
ParticipantRejected(m) == [asks |-> FALSE, reply |-> "participantRejectedResponse"]

Handler(m) ==
  CASE m.kind = "partyQuery" -> PartyQueryReceived(m)
    [] m.kind = "partyInfo" -> PartyInfoAvailable(m)
    [] m.kind = "participantQuery" -> ParticipantQueryReceived(m)
    [] m.kind = "partyRejected" -> PartyRejected(m)
    [] m.kind = "participantRejected" -> ParticipantRejected(m)

Changing == {"associate", "disassociate"}

AfterRequester ==
  IF msg.kind \in Changing \/ Handler(msg).asks THEN "adapter" ELSE "destination"

\* validateRequesterParticipantInfoOrGetErrorEvent
CheckRequester ==
  /\ pc = "requester"
  /\ \E v \in Verdicts :
     /\ GetParticipantInfo(msg.requester, v)
     /\ \/ v # "ok" /\ Answer("requesterError", v)
        \/ /\ v = "ok"
           /\ pc' = AfterRequester
           /\ fsp' = msg.destination
           /\ UNCHANGED <<kafka, pos, last, outputs, retries, changes>>
  /\ UNCHANGED <<world, okSeen>>

\* _getOracleAdapter
GetAdapter ==
  /\ pc = "adapter"
  /\ \/ /\ msg.party \in served
        /\ pc' = IF msg.kind \in Changing THEN msg.kind ELSE "ask"
        /\ UNCHANGED <<kafka, pos, last, fsp, outputs, retries, changes>>
     \/ /\ msg.party \notin served \/ Faults
        /\ Answer(IF msg.kind \in Changing
                  THEN "noAdapter" ELSE "notFromOracle", Null)
  /\ UNCHANGED <<known, world, okSeen>>

\* _getParticipantIdFromOracle, once it has its adapter.  (A built-in oracle may
\* also answer from a stale cache, see BuiltinOracle; Vouched is about the checks
\* of whatever participant it names.)
AskOracle ==
  /\ pc = "ask"
  /\ \/ \E a \in assoc :
          /\ a.party = msg.party
          /\ fsp' = a.fsp
          /\ pc' = "destination"
          /\ UNCHANGED <<kafka, pos, last, outputs, retries, changes>>
     \/ /\ Faults \/ ~\E a \in assoc : a.party = msg.party
        /\ Answer("notFromOracle", Null)
  /\ UNCHANGED <<known, world, okSeen>>

Pair(m) == [party |-> m.party, fsp |-> m.requester]

\* associateParticipant: an association that is there already is an error, and
\* a call that fails may have stored it.
Associate ==
  /\ pc = "associate"
  /\ \/ /\ Pair(msg) \notin assoc
        /\ assoc' = assoc \cup {Pair(msg)}
        /\ \/ Answer("created", msg.requester)
           \/ Faults /\ Answer("notAssociated", msg.requester)
     \/ /\ Pair(msg) \in assoc \/ Faults
        /\ Answer("notAssociated", msg.requester)
        /\ UNCHANGED assoc
  /\ UNCHANGED <<known, participants, served, okSeen>>

\* disassociateParticipant: it is no error when there is nothing to remove.
Disassociate ==
  /\ pc = "disassociate"
  /\ \/ /\ assoc' = assoc \ {Pair(msg)}
        /\ \/ Answer("removed", msg.requester)
           \/ Faults /\ Answer("notDisassociated", msg.requester)
     \/ Faults /\ Answer("notDisassociated", msg.requester) /\ UNCHANGED assoc
  /\ UNCHANGED <<known, participants, served, okSeen>>

\* Mutant of CheckDestination: the destination is not validated.
CheckDestinationSkipped ==
  /\ pc = "destination"
  /\ Answer(Handler(msg).reply, fsp)
  /\ UNCHANGED <<known, world, okSeen>>

\* validateDestinationParticipantInfoOrGetErrorEvent, and the response
CheckDestination ==
  /\ pc = "destination"
  /\ \E v \in Verdicts :
     /\ GetParticipantInfo(fsp, v)
     /\ \/ v # "ok" /\ Answer("destinationError", v)
        \/ v = "ok" /\ Answer(Handler(msg).reply, fsp)
  /\ UNCHANGED <<world, okSeen>>

Handle == TakeMessage \/ CheckRequester \/ GetAdapter \/ AskOracle
            \/ Associate \/ Disassociate \/ CheckDestination

\* Mutant of Send: the send is not awaited, and may be lost.
SendNotAwaited ==
  /\ pc = "next" /\ pos > last
  /\ published' \in {published, published \o outputs}
  /\ pc' = "sent"
  /\ UNCHANGED <<topic, committed, pos, last, fsp, outputs, known, world, okSeen, retries, changes>>

\* The finally block: what was answered is sent, then the callback resolves.
Send ==
  /\ pc = "next" /\ pos > last
  /\ published' = published \o outputs
  /\ pc' = "sent"
  /\ UNCHANGED <<topic, committed, pos, last, fsp, outputs, known, world, okSeen, retries, changes>>

\* The callback has ended and its variables are gone.
CallbackEnds ==
  /\ pos' = 0 /\ last' = 0 /\ pc' = "idle" /\ fsp' = Null /\ outputs' = <<>>
  /\ okSeen' = {}

\* Mutant of Commit: the offset is off by one.
CommitOneTooMany ==
  /\ pc = "sent"
  /\ committed' = last + 1
  /\ CallbackEnds
  /\ UNCHANGED <<topic, published, known, world, retries, changes>>

\* Mutant of Commit: the offset is not stored.
CommitLost ==
  /\ pc = "sent"
  /\ CallbackEnds
  /\ UNCHANGED <<kafka, known, world, retries, changes>>

Commit ==
  /\ pc = "sent"
  /\ committed' = last
  /\ CallbackEnds
  /\ UNCHANGED <<topic, published, known, world, retries, changes>>

\* The callback throws: something other than the aggregate fails between two
\* messages (tracing, metrics) and the finally block sends what was answered
\* so far, or the send itself fails when some of it, or all, has been sent.
Throw ==
  /\ pc = "next"
  /\ retries < MaxRetries
  /\ retries' = retries + 1
  /\ \E n \in 0..Len(outputs) : published' = published \o SubSeq(outputs, 1, n)
  /\ CallbackEnds
  /\ UNCHANGED <<topic, committed, known, world, changes>>

\* Mutant of Crash: the new process begins at the earliest offset.
CrashToEarliest ==
  /\ pc # "idle"
  /\ retries < MaxRetries
  /\ retries' = retries + 1
  /\ CallbackEnds
  /\ known' = [f \in Fsps |-> Null]
  /\ committed' = 0
  /\ UNCHANGED <<topic, published, world, changes>>

\* The process ends; a new one goes on after the last commit.
Crash ==
  /\ pc # "idle"
  /\ retries < MaxRetries
  /\ retries' = retries + 1
  /\ CallbackEnds
  /\ known' = [f \in Fsps |-> Null]
  /\ UNCHANGED <<kafka, world, changes>>

----------------------------------------------------------------------------
Work == (\E n \in 1..MaxBatch : Deliver(n)) \/ Handle \/ Send \/ Commit

Next ==
  \/ \E m \in Messages : Produce(m)
  \/ \E f \in Fsps, s \in Statuses : ChangeParticipant(f, s)
  \/ \E p \in Parties : ChangeOracles(p)
  \/ Work
  \/ Throw
  \/ Crash

Spec == Init /\ [][Next]_vars

\* The consumer polls, awaited calls end one way or the other, and a replica
\* that crashed is restarted.
FairSpec == Spec /\ WF_vars(Work)

----------------------------------------------------------------------------
(* Properties *)

Responses == {"partyInfoRequested", "partyQueryResponse", "participantQueryResponse",
              "partyRejectedResponse", "participantRejectedResponse"}

Names == Responses \cup
         {"invalidPayload", "invalidType", "requesterError", "destinationError", "noAdapter",
          "notFromOracle", "created", "notAssociated", "removed", "notDisassociated"}

Events == [of : Nat, name : Names, about : Fsps \cup {Null, "invalid"} \cup Statuses]

\* Every variable has its type, and the batch is a part of the topic that is
\* not committed yet, answered up to the message being handled.
TypeOK ==
  /\ topic \in Seq(Messages) /\ committed \in 0..Len(topic) /\ published \in Seq(Events)
  /\ pos \in Nat /\ last \in 0..Len(topic) /\ pc \in {"idle", "next", "sent"} \cup Awaits
  /\ fsp \in Fsps \cup {Null} /\ outputs \in Seq(Events)
  /\ participants \in [Fsps -> Statuses]
  /\ known \in [Fsps -> (Statuses \ {"notFound"}) \cup {Null}]
  /\ served \subseteq Parties
  /\ assoc \subseteq [party : Parties, fsp : Fsps]
  /\ okSeen \subseteq Fsps /\ retries \in 0..MaxRetries /\ changes \in 0..MaxChanges
  /\ pc # "idle" => /\ committed < pos /\ pos <= last + 1
                    /\ Len(outputs) = pos - committed - 1
  /\ pc \in Awaits => pos <= last

Answered(i) == \E j \in DOMAIN published : published[j].of = i

\* The answers to a message, by their places in the output topic.
Replies(i) == {j \in DOMAIN published : published[j].of = i}

\* No committed message is without an answer: whatever crashed, threw or
\* failed on the way, the event a request waits for was published before its
\* offset was committed.
CommittedAnswered == \A i \in 1..committed : Answered(i)

\* Requests are answered in the order of the topic: by the time the answer to
\* a message is published for the first time, all earlier messages have been
\* answered, across partial batches and redeliveries.
AnsweredInOrder ==
  \A j \in DOMAIN published : \A i \in 1..(published[j].of - 1) :
    \E h \in 1..(j - 1) : published[h].of = i

\* A message is answered again only because of a crash or a callback that
\* threw, once for each.
RepliesBounded == \A i \in DOMAIN topic : Cardinality(Replies(i)) <= 1 + retries

Positive == Responses \cup {"created", "removed"}

\* A request is answered positively only on behalf of, and with, participants
\* that were approved and active at some time while it was being handled, or
\* when the client cached what it held on them as handling began, however they
\* change between the checks.
Vouched ==
  [][Len(outputs') = Len(outputs) + 1 =>
       LET e == outputs'[Len(outputs')]
       IN  e.name \in Positive => {topic[e.of].requester, e.about} \subseteq okSeen]_vars

\* The messages that change the association of a pair, in a world where
\* checks and calls do not fail.
ChangesOf(a) == {i \in DOMAIN topic :
  /\ topic[i].kind \in Changing
  /\ Pair(topic[i]) = a
  /\ participants[a.fsp] = "ok" /\ a.party \in served}

\* Although messages are handled again after a crash, the oracle ends up as
\* if each had been handled exactly once: when all are committed, and neither
\* participants nor oracles have changed meanwhile, a pair is associated just
\* when the last message about it associates it.
ExactlyOnceEffect ==
  (committed = Len(topic) /\ pc = "idle" /\ changes = 0) =>
    \A a \in [party : Parties, fsp : Fsps] :
      a \in assoc <=> \E i \in ChangesOf(a) :
                        topic[i].kind = "associate" /\ \A j \in ChangesOf(a) : j <= i

\* The handler implements AtLeastOnce, which knows nothing of batches, awaits
\* and retries: what it publishes is, from step to step, runs of answers that
\* begin right after the last commit, and it commits nothing but a run that was
\* published to its end.
Promise == INSTANCE AtLeastOnce WITH
  requests <- Len(topic),
  finished <- committed,
  answers <- [j \in DOMAIN published |-> published[j].of]

ImplementsAtLeastOnce == Promise!Spec

\* Every message is answered at last, if crashes and failing callbacks do not
\* go on for ever.
AllAnswered == \A i \in 1..MaxMessages : [](i <= Len(topic) => <>Answered(i))
=============================================================================
