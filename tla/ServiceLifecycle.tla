-------------------------- MODULE ServiceLifecycle --------------------------
(***************************************************************************)
(* Service.start, Service.stop, the start-up timer and the handlers of     *)
(* signals and uncaught exceptions, together with what goes on meanwhile:  *)
(* the batch callback and a look-up over HTTP, which both use the parts    *)
(* that start opens one after the other and stop closes in another order.  *)
(*                                                                         *)
(* start and every stop are asynchronous functions of one process: each    *)
(* goes on from await to await, in any interleaving.  An await may fail    *)
(* (its function rejects) or hang (it never resolves).  A rejection that   *)
(* nobody catches, and an exception, end the process; the platform starts  *)
(* it again.  The Kafka broker may be down for a time; the code is not     *)
(* told of it once it is connected, and /health goes on answering OK.      *)
(* (A database that is down makes queries fail, which they may do at any   *)
(* time here, and start, which is a fault.)                                *)
(*                                                                         *)
(* The Kafka client, the platform and the caller are external.  stop() of  *)
(* the consumer is taken to resolve once the callback in progress has, as  *)
(* handler.destroy relies on when it goes on to close the databases.       *)
(***************************************************************************)
EXTENDS Naturals, Sequences, FiniteSetsExt, LookupRoute

CONSTANTS
  Signals,     \* SIGINT and SIGTERM; each can be handled while another is
  Oracles,     \* the types of oracle that may be registered: "builtin", "remote-http"
  MaxMessages, \* bound: requests in the topic
  MaxSignals,  \* bound: signals sent
  MaxFaults    \* bound: crashes, outages, awaits that fail, hang, or make start slow

ASSUME OracleAssumption == Oracles \subseteq {"builtin", "remote-http"}
ASSUME BoundAssumption == {MaxMessages, MaxSignals, MaxFaults} \subseteq Nat

VARIABLES
  at,        \* the await start is at; 0 when there is no process, 9 after the last
  hung,      \* whether that await never resolves
  timer,     \* whether the start-up timer is armed
  open,      \* the parts that start has connected, or made listen, and no stop closed
  stop,      \* the await the stop of each signal is at, or 0
  stuck,     \* the signals whose stop hangs
  batch,     \* the callback: "none", "handling", "sending", "sent"
  outcome,   \* what the message of the batch is answered
  answered,  \* the messages an answer was published to
  committed, \* how many messages the consumer has committed
  call,      \* the look-up of a client: the await it is at, or "null" when that
             \* was its result; history: if the association was held all along
  held,      \* whether the party's oracle holds an association of it
  early,     \* history: a signal was handled before start had ended
  outage,    \* whether the broker cannot be reached for the time being
  signals, faults

process == <<at, hung, timer, open, stop, stuck, early>>
kafka == <<batch, outcome, answered, committed>>
client == <<call, held>>
vars == <<process, kafka, client, outage, signals, faults>>

\* The awaits of start and of stop (with those of handler.start and
\* handler.destroy) in their order, and the parts that start opens.
StartOrder == <<"logger", "authorization", "tokenHelper", "finder", "adapters",
                "producer", "consumer", "express">>
StopOrder == <<"consumerStop", "finder", "adapters", "consumerDestroy",
               "producer", "tokenHelper">>
Parts == {"finder", "adapters", "producer", "consumer", "express"}

Up == at > 0
Starting == at \in DOMAIN StartOrder
Started == at > Len(StartOrder)
Stopping == \E s \in Signals : stop[s] > 0

\* The parts and awaits that need the broker: those of Kafka clients.
NeedsBroker(x) == x \notin {"finder", "adapters", "express"}
Cut(x) == outage /\ NeedsBroker(x)

\* A part that was connected and has its server.
Connected(x) == x \in open /\ ~Cut(x)

----------------------------------------------------------------------------
NoCall == [at |-> "idle", held |-> FALSE]

Init ==
  /\ at = 0 /\ hung = FALSE /\ timer = FALSE /\ open = {}
  /\ stop = [s \in Signals |-> 0] /\ stuck = {}
  /\ batch = "none" /\ outcome = "none" /\ answered = {} /\ committed = 0
  /\ call = NoCall /\ held \in BOOLEAN
  /\ early = FALSE /\ outage = FALSE /\ signals = 0 /\ faults = 0

InService == {"token", "finder", "oracle"}

\* The client's fetch fails: nobody listens, or it has waited long enough.
FetchFails == IF call.at \in InService THEN NoCall ELSE call

\* The process ends, in whatever way: exit, abort, or an uncaught exception.
Exit ==
  /\ at' = 0 /\ hung' = FALSE /\ timer' = FALSE /\ open' = {}
  /\ stop' = [s \in Signals |-> 0] /\ stuck' = {}
  /\ early' = FALSE
  /\ batch' = "none" /\ outcome' = "none"
  /\ call' = FetchFails
  /\ UNCHANGED <<answered, committed, held>>

Fault == faults < MaxFaults /\ faults' = faults + 1

----------------------------------------------------------------------------
(* start *)

\* The platform runs the service, and start arms its timer.
Boot ==
  /\ ~Up
  /\ at' = 1 /\ timer' = TRUE
  /\ UNCHANGED <<hung, open, stop, stuck, early, kafka, client, outage, signals, faults>>

\* Mutant of ClearTimeout: the timer is left armed.
ClearTimeoutForgotten == UNCHANGED timer

ClearTimeout == timer' = FALSE

\* The part that is open once the await a of start has resolved.
Opens(a) == {a} \cap Parts

\* An await of start resolves, and start goes on to its next one, or ends.
StartStep ==
  /\ Starting /\ ~hung
  /\ ~Cut(StartOrder[at])
  /\ open' = open \cup Opens(StartOrder[at])
  /\ at' = at + 1
  /\ IF Started' THEN ClearTimeout ELSE UNCHANGED timer
  /\ UNCHANGED <<hung, stop, stuck, early, kafka, client, outage, signals, faults>>

\* One of them rejects, or start takes longer than its timer is set to: a fault,
\* or because the broker is down, or because a stop closes what it connects.
\* index.ts does not catch the rejection: it ends as an uncaught exception.
StartFails ==
  /\ Starting /\ ~hung
  /\ Fault \/ ((Stopping \/ Cut(StartOrder[at])) /\ UNCHANGED faults)
  /\ Exit
  /\ UNCHANGED <<outage, signals>>

StartHangs ==
  /\ Starting /\ ~hung
  /\ Fault
  /\ hung' = TRUE
  /\ UNCHANGED <<at, timer, open, stop, stuck, early, kafka, client, outage, signals>>

\* SERVICE_START_TIMEOUT_MS are over and the timer was not cleared: it throws,
\* which nobody catches.
TimerFires ==
  /\ Up /\ timer
  /\ hung \/ ~Starting
  /\ Exit
  /\ UNCHANGED <<outage, signals, faults>>

----------------------------------------------------------------------------
(* stop *)

\* stop leaves out the parts that start has not created yet.  The consumer and
\* the producer exist once the logger is there, the token helper when its init
\* is called; the event handler, of which the first three awaits are, exists when
\* its start is called.
Exists(x) ==
  \/ x \in {"consumerStop", "finder", "adapters"} /\ at >= 4
  \/ x \in {"consumerDestroy", "producer"} /\ at >= 2
  \/ x = "tokenHelper" /\ at >= 3

\* Where a stop goes on after its await i: at the next part that exists, or
\* nowhere.
StopAfter(i) ==
  LET Left == {j \in (i + 1)..Len(StopOrder) : Exists(StopOrder[j])}
  IN  IF Left = {} THEN 0 ELSE Min(Left)

\* The stop of s has come to its await i; at its end the server is told to close, and
\* the process exits in the same turn.
StopAt(s, i) ==
  IF i = 0 THEN Exit
  ELSE /\ stop' = [stop EXCEPT ![s] = i]
       /\ UNCHANGED <<at, hung, timer, stuck, kafka, client>>

\* A signal is handled: stop is called and runs to its first await, whatever
\* start or the stop of another signal are at.
Signal(s) ==
  /\ Up /\ stop[s] = 0
  /\ signals < MaxSignals
  /\ signals' = signals + 1
  /\ StopAt(s, StopAfter(0))
  /\ StopAfter(0) # 0 => early' = (early \/ Starting) /\ UNCHANGED open
  /\ UNCHANGED <<outage, faults>>

\* Mutant of Closed: the databases are closed before the consumer stops.
ClosedDatabasesFirst(x) ==
  CASE x = "consumerStop" -> {"finder", "adapters"}
    [] x \in {"finder", "consumerDestroy"} -> {"consumer"}
    [] OTHER -> {x}

\* What is closed when an await of stop has resolved.
Closed(x) == IF x \in {"consumerStop", "consumerDestroy"} THEN {"consumer"} ELSE {x}

\* An await of a stop resolves, and the stop goes on to its next one.
StopStep(s) ==
  /\ stop[s] > 0 /\ s \notin stuck
  /\ StopOrder[stop[s]] = "consumerStop" => batch = "none"
  /\ StopAt(s, StopAfter(stop[s]))
  /\ StopAfter(stop[s]) # 0 =>
       open' = open \ Closed(StopOrder[stop[s]]) /\ UNCHANGED early
  /\ UNCHANGED <<outage, signals, faults>>

\* It rejects, and the signal's handler with it; or it takes its five seconds.
StopFails(s) ==
  /\ stop[s] > 0 /\ s \notin stuck
  /\ Fault
  /\ Exit
  /\ UNCHANGED <<outage, signals>>

StopHangs(s) ==
  /\ stop[s] > 0 /\ s \notin stuck
  /\ Fault
  /\ stuck' = stuck \cup {s}
  /\ UNCHANGED <<at, hung, timer, open, stop, early, kafka, client, outage, signals>>

\* Mutant of AbortFires: aborts what has made a clean exit.
AbortFiresInverted(s) ==
  /\ s \in stuck /\ ~Up
  /\ Exit
  /\ UNCHANGED <<outage, signals, faults>>

\* The five seconds given to a stop are over, and it has not made its exit.
AbortFires(s) ==
  /\ s \in stuck
  /\ Exit
  /\ UNCHANGED <<outage, signals, faults>>

\* Anything else that nobody catches, or that kills the process.
Crash ==
  /\ Started /\ ~Stopping
  /\ Fault
  /\ Exit
  /\ UNCHANGED <<outage, signals>>

----------------------------------------------------------------------------
(* An outage of the broker may begin before a process and outlast it *)

GoesDown ==
  /\ ~outage
  /\ Fault
  /\ outage' = TRUE
  /\ UNCHANGED <<process, kafka, client, signals>>

\* The clients connect again by themselves.
ComesUp ==
  /\ outage
  /\ outage' = FALSE
  /\ UNCHANGED <<process, kafka, client, signals, faults>>

----------------------------------------------------------------------------
(* The batch callback, one message at a time *)

\* The consumer delivers the first message that is not committed.  (It may do so
\* a little before startAndWaitForRebalance has resolved; to the callback that
\* makes no difference.)
Deliver ==
  /\ Connected("consumer") /\ batch = "none"
  /\ committed < MaxMessages
  /\ batch' = "handling"
  /\ UNCHANGED <<process, outcome, answered, committed, client, outage, signals, faults>>

Databases == {"finder", "adapters"}

\* Mutant of Handle: a query that fails makes the callback throw.
HandleUncaught ==
  /\ batch = "handling"
  /\ \/ /\ outcome' = IF Databases \subseteq open THEN "good" ELSE "spoiled"
        /\ batch' = "sending"
     \/ batch' = "none" /\ UNCHANGED outcome
  /\ UNCHANGED <<process, answered, committed, client, outage, signals, faults>>

\* handleEvent answers in any case: with an error when its queries fail
\* (which is as good an answer as can be given), and when the databases are closed.
Handle ==
  /\ batch = "handling"
  /\ outcome' = IF Databases \subseteq open THEN "good" ELSE "spoiled"
  /\ batch' = "sending"
  /\ UNCHANGED <<process, answered, committed, client, outage, signals, faults>>

\* Mutant of Send: a failing send is not noticed.
SendUnchecked ==
  /\ batch = "sending"
  /\ answered' = IF Connected("producer") THEN answered \cup {committed + 1} ELSE answered
  /\ batch' = "sent" /\ outcome' = "none"
  /\ UNCHANGED <<process, committed, client, outage, signals, faults>>

\* The answer is sent; without a producer, or a broker, the callback throws.
Send ==
  /\ batch = "sending"
  /\ \/ /\ Connected("producer")
        /\ answered' = answered \cup {committed + 1}
        /\ batch' = "sent"
     \/ ~Connected("producer") /\ batch' = "none" /\ UNCHANGED answered
  /\ outcome' = "none"
  /\ UNCHANGED <<process, committed, client, outage, signals, faults>>

\* Mutant of Commit: the offset is off by one.
CommitOneTooMany ==
  /\ batch = "sent"
  /\ committed' = IF Connected("consumer") THEN committed + 2 ELSE committed
  /\ batch' = "none"
  /\ UNCHANGED <<process, outcome, answered, client, outage, signals, faults>>

\* The callback has resolved, and a consumer that is still there commits; a
\* commit that does not reach the broker is lost.
Commit ==
  /\ batch = "sent"
  /\ committed' = IF Connected("consumer") THEN committed + 1 ELSE committed
  /\ batch' = "none"
  /\ UNCHANGED <<process, outcome, answered, client, outage, signals, faults>>

----------------------------------------------------------------------------
(* A look-up over HTTP, and the client's participantLookUp *)

\* A response reaches the client, which turns it into its own result.
Returns(resp) ==
  IF ClientResult(resp) = "null" THEN [call EXCEPT !.at = "null"] ELSE NoCall

Request ==
  /\ call.at \notin InService
  /\ call' = IF "express" \in open THEN [at |-> "token", held |-> held] ELSE NoCall
  /\ UNCHANGED <<process, kafka, held, outage, signals, faults>>

\* The token is verified, then the privilege and the parameters are checked.
CheckToken ==
  /\ call.at = "token"
  /\ \E t \in Tokens :
       call' = IF t = "valid" THEN [call EXCEPT !.at = "finder"] ELSE Returns(Refusal(t))
  /\ UNCHANGED <<process, kafka, held, outage, signals, faults>>

\* _getOracleAdapter: the finder's query, and the adapter of what it finds.  It
\* throws when there is none, when the query fails, and on a closed client.
FindOracle ==
  /\ call.at = "finder"
  /\ \/ "finder" \in open /\ call' = [call EXCEPT !.at = "oracle"]
     \/ call' = Returns(RouteResponse(Outcome("throws")))
  /\ UNCHANGED <<process, kafka, held, outage, signals, faults>>

\* How getParticipantFspId of an adapter may end.  A built-in oracle answers
\* from its cache, stale or not, or asks its database, and throws when that is
\* closed; a remote oracle answers an unknown party with 404, at which axios
\* rejects.
OracleAnswers(type) ==
  CASE type = "builtin" ->
         {"fsp", "throws"} \cup (IF "adapters" \in open /\ ~held THEN {"nothing"} ELSE {})
    [] type = "remote-http" -> {"throws", IF held THEN "fsp" ELSE "throws"}

AskOracle ==
  /\ call.at = "oracle"
  /\ \E type \in Oracles : \E a \in OracleAnswers(type) :
       call' = Returns(RouteResponse(Outcome(a)))
  /\ UNCHANGED <<process, kafka, held, outage, signals, faults>>

\* The client waits for five seconds, by default, and then gives up.
ClientTimesOut ==
  /\ call.at \in InService
  /\ call' = FetchFails
  /\ UNCHANGED <<process, kafka, held, outage, signals, faults>>

\* The party is associated or disassociated, at another replica for instance.
ChangeAssociation ==
  /\ held' = ~held
  /\ call' = [call EXCEPT !.held = @ /\ held']
  /\ UNCHANGED <<process, kafka, outage, signals, faults>>

----------------------------------------------------------------------------
Start == Boot \/ StartStep
Callback == Handle \/ Send \/ Commit
Serve == CheckToken \/ FindOracle \/ AskOracle

Next ==
  \/ Start \/ StartFails \/ StartHangs \/ TimerFires \/ Crash
  \/ \E s \in Signals : Signal(s) \/ StopStep(s) \/ StopFails(s) \/ StopHangs(s) \/ AbortFires(s)
  \/ GoesDown \/ ComesUp
  \/ Deliver \/ Callback
  \/ Request \/ Serve \/ ClientTimesOut \/ ChangeAssociation

Spec == Init /\ [][Next]_vars

\* Awaits that neither fail nor hang resolve, timers fire when their time is
\* over, a broker that is down comes up, and the platform restarts the service.
Fairness ==
  /\ WF_vars(Start) /\ WF_vars(TimerFires) /\ WF_vars(ComesUp)
  /\ WF_vars(Deliver \/ Callback)
  /\ \A s \in Signals : WF_vars(StopStep(s) \/ AbortFires(s))

FairSpec == Spec /\ Fairness

----------------------------------------------------------------------------
(* Properties *)

\* Every variable has its type, and nothing of a process outlives it.
TypeOK ==
  /\ at \in 0..(Len(StartOrder) + 1) /\ hung \in BOOLEAN /\ timer \in BOOLEAN
  /\ open \subseteq Parts /\ early \in BOOLEAN
  /\ stop \in [Signals -> 0..Len(StopOrder)] /\ stuck \subseteq {s \in Signals : stop[s] > 0}
  /\ batch \in {"none", "handling", "sending", "sent"}
  /\ outcome \in {"none", "good", "spoiled"}
  /\ answered \subseteq 1..MaxMessages /\ committed \in 0..MaxMessages
  /\ call \in [at : InService \cup {"idle", "null"}, held : BOOLEAN]
  /\ held \in BOOLEAN /\ outage \in BOOLEAN
  /\ signals \in 0..MaxSignals /\ faults \in 0..MaxFaults
  /\ ~Up => open = {} /\ ~timer /\ ~hung /\ batch = "none" /\ ~Stopping
  /\ batch # "none" => committed < MaxMessages

\* The answer a message is about to be given is not an error that the tear-down
\* of the service has caused, unless the signal came while the service was still
\* starting: the consumer is stopped before the databases are closed.
TearDownSpoilsNoAnswer == outcome = "spoiled" => early

\* A message whose offset is committed has been answered, although the process
\* may end, or close its producer, between any two steps of the callback.
NothingLost == \A m \in 1..committed : m \in answered

\* The client's null means that the party has no participant: a look-up during
\* which the association was held throughout never ends with null, whatever is
\* closed, or ends, before it is answered.
NullMeansNotHeld == call.at = "null" => ~call.held

\* A process that was sent a signal ends, although a part hangs when it is
\* closed, or start is still in progress.
SignalsEndIt == \A s \in Signals : stop[s] > 0 ~> ~Up

\* If signals and faults do not go on for ever, the service is up and ready at
\* last: its own timers do not end a process that has started.
ReadyAtLast == <>[](Started /\ open = Parts /\ ~outage)

\* And then no message is left behind: whatever the callback was at when the
\* broker went down, a part was closed, or the process ended, each message is
\* answered and committed at last, although nothing but the consumer's next
\* delivery takes up what was cut off, and /health is OK all the while.
AnsweredAtLast == \A m \in 1..MaxMessages : <>(m \in answered /\ m <= committed)
=============================================================================
