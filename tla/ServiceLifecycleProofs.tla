----------------------- MODULE ServiceLifecycleProofs -----------------------
(***************************************************************************)
(* Theorems about the life cycle of the service, for any number of         *)
(* messages, signals and faults: types, that no message is lost, that a    *)
(* look-up's null can be believed, and that tear-down spoils no answer.    *)
(***************************************************************************)
EXTENDS ServiceLifecycle, TLAPS

LEMMA Orders ==
  /\ Len(StartOrder) = 8 /\ DOMAIN StartOrder = 1..8
  /\ Len(StopOrder) = 6 /\ DOMAIN StopOrder = 1..6
BY DEF StartOrder, StopOrder

\* A set of awaits of stop has a first one.
LEMMA MinOfAwaits ==
  ASSUME NEW S \in SUBSET (1..6), S # {}
  PROVE  Min(S) \in S /\ \A j \in S : Min(S) <= j
<1>1. \E i \in S : \A j \in S : i <= j
  <2>1. CASE 1 \in S
    BY <2>1
  <2>2. CASE 1 \notin S /\ 2 \in S
    BY <2>2
  <2>3. CASE 1 \notin S /\ 2 \notin S /\ 3 \in S
    BY <2>3
  <2>4. CASE 1 \notin S /\ 2 \notin S /\ 3 \notin S /\ 4 \in S
    BY <2>4
  <2>5. CASE 1 \notin S /\ 2 \notin S /\ 3 \notin S /\ 4 \notin S /\ 5 \in S
    BY <2>5
  <2>6. CASE 1 \notin S /\ 2 \notin S /\ 3 \notin S /\ 4 \notin S /\ 5 \notin S
    <3>1. \A i \in S : i = 6
      BY <2>6
    <3>2. PICK i \in S : TRUE
      OBVIOUS
    <3>3. QED
      BY <3>1, <3>2
  <2>7. QED
    BY <2>1, <2>2, <2>3, <2>4, <2>5, <2>6
<1>2. QED
  BY <1>1 DEF Min

LEMMA StopAfterIsMin ==
  ASSUME NEW i \in 0..6
  PROVE  /\ StopAfter(i) \in 0..6
         /\ \A j \in (i + 1)..6 : Exists(StopOrder[j]) => StopAfter(i) \in (i + 1)..j
<1> DEFINE Left == {j \in (i + 1)..Len(StopOrder) : Exists(StopOrder[j])}
<1>1. Left \in SUBSET (1..6) /\ Left \subseteq (i + 1)..6
  BY Orders
<1>2. StopAfter(i) = IF Left = {} THEN 0 ELSE Min(Left)
  BY DEF StopAfter
<1>3. \A j \in (i + 1)..6 : Exists(StopOrder[j]) => j \in Left
  BY Orders
<1> HIDE DEF Left
<1>4. Left # {} => Min(Left) \in Left /\ \A j \in Left : Min(Left) <= j
  BY <1>1, MinOfAwaits
<1>5. CASE Left = {}
  BY <1>2, <1>3, <1>5
<1>6. CASE Left # {}
  <2>1. StopAfter(i) \in Left /\ \A j \in Left : StopAfter(i) <= j
    BY <1>2, <1>4, <1>6
  <2>2. StopAfter(i) \in (i + 1)..6
    BY <1>1, <2>1
  <2>3. \A j \in (i + 1)..6 : Exists(StopOrder[j]) => StopAfter(i) <= j
    BY <1>3, <2>1
  <2>4. QED
    BY <2>2, <2>3
<1>7. QED
  BY <1>5, <1>6

LEMMA StopAfterType ==
  ASSUME NEW i \in 0..6
  PROVE  StopAfter(i) \in 0..6
BY StopAfterIsMin

\* The stop of a service that has started begins at the consumer.
LEMMA StopOfStarted ==
  ASSUME at = 9
  PROVE  StopAfter(0) = 1
<1>1. Exists(StopOrder[1])
  BY DEF Exists, StopOrder
<1>2. 0 \in 0..6 /\ 1 \in (0 + 1)..6
  OBVIOUS
<1>3. StopAfter(0) \in (0 + 1)..1
  BY <1>1, <1>2, StopAfterIsMin
<1>4. QED
  BY <1>3

LEMMA InitType == Init => TypeOK
<1> SUFFICES ASSUME Init PROVE TypeOK
  OBVIOUS
<1>1. stop \in [Signals -> 0..6] /\ ~Stopping /\ stuck = {}
  BY DEF Init, Stopping
<1>2. call \in [at : InService \cup {"idle", "null"}, held : BOOLEAN]
  BY DEF Init, NoCall
<1>3. /\ at \in 0..9 /\ committed \in 0..MaxMessages
      /\ signals \in 0..MaxSignals /\ faults \in 0..MaxFaults
  BY BoundAssumption DEF Init
<1>4. /\ stuck \subseteq {s \in Signals : stop[s] > 0}
      /\ open = {} /\ answered = {} /\ batch = "none" /\ outcome = "none"
      /\ timer \in BOOLEAN /\ ~timer /\ hung \in BOOLEAN /\ ~hung
      /\ early \in BOOLEAN /\ held \in BOOLEAN /\ outage \in BOOLEAN
  BY <1>1 DEF Init
<1>5. /\ stop \in [Signals -> 0..Len(StopOrder)] /\ at \in 0..(Len(StartOrder) + 1)
      /\ stuck \subseteq {s \in Signals : stop[s] > 0} /\ open \subseteq Parts
  BY <1>1, <1>2, <1>3, <1>4, Orders
<1>6. QED
  BY <1>1, <1>2, <1>3, <1>4, <1>5 DEF TypeOK

\* The end of the process resets what belongs to it.
LEMMA ExitType ==
  ASSUME TypeOK, Exit, outage' = outage,
         signals' \in 0..MaxSignals, faults' \in 0..MaxFaults
  PROVE  TypeOK'
<1>1. /\ call' \in [at : InService \cup {"idle", "null"}, held : BOOLEAN]
  BY DEF TypeOK, Exit, FetchFails, NoCall
<1>2. at' = 0 /\ \A s \in Signals : stop'[s] = 0
  BY DEF Exit
<1>3. stop' \in [Signals -> 0..6] /\ ~Stopping'
  BY DEF Exit, Stopping
<1>4. /\ stuck' = {} /\ open' = {} /\ batch' = "none" /\ outcome' = "none"
      /\ timer' \in BOOLEAN /\ ~timer' /\ hung' \in BOOLEAN /\ ~hung' /\ early' \in BOOLEAN
      /\ held' \in BOOLEAN /\ outage' \in BOOLEAN
      /\ answered' \subseteq 1..MaxMessages /\ committed' \in 0..MaxMessages
  BY DEF Exit, TypeOK
<1>5. /\ stop' \in [Signals -> 0..Len(StopOrder)] /\ at' \in 0..(Len(StartOrder) + 1)
      /\ stuck' \subseteq {s \in Signals : stop'[s] > 0} /\ open' \subseteq Parts
  BY <1>1, <1>2, <1>3, <1>4, Orders
<1>6. QED
  BY <1>1, <1>2, <1>3, <1>4, <1>5 DEF TypeOK

LEMMA FaultType ==
  ASSUME TypeOK, Fault
  PROVE  faults' \in 0..MaxFaults
BY BoundAssumption DEF TypeOK, Fault

\* The client's results that matter are "null" and all others.
LEMMA ReturnsType ==
  ASSUME TypeOK, NEW resp
  PROVE  Returns(resp) \in [at : InService \cup {"idle", "null"}, held : BOOLEAN]
BY DEF TypeOK, Returns, NoCall

LEMMA NextType == TypeOK /\ [Next]_vars => TypeOK'
<1> SUFFICES ASSUME TypeOK, [Next]_vars PROVE TypeOK'
  OBVIOUS
<1>0. /\ at \in 0..9 /\ stop \in [Signals -> 0..6]
      /\ signals \in 0..MaxSignals /\ faults \in 0..MaxFaults
      /\ MaxSignals \in Nat /\ MaxFaults \in Nat /\ MaxMessages \in Nat
  BY Orders, BoundAssumption DEF TypeOK
<1>1. CASE Boot
  BY <1>1, Orders DEF TypeOK, Boot, kafka, client, Up, Stopping
<1>2. CASE StartStep
  <2>1. at' \in 1..9 /\ Up' /\ Up
    BY <1>0, <1>2, Orders DEF StartStep, Starting, Up
  <2>a. timer' \in BOOLEAN
    BY <1>2 DEF TypeOK, StartStep, ClearTimeout
  <2>b. open' \subseteq Parts
    BY <1>2 DEF TypeOK, StartStep, Opens
  <2>2. QED
    BY <1>2, <2>1, <2>a, <2>b, Orders DEF TypeOK, StartStep, kafka, client
<1>3. CASE StartFails
  BY <1>0, <1>3, ExitType, FaultType DEF StartFails
<1>4. CASE StartHangs
  <2>1. Up /\ Up'
    BY <1>0, <1>4, Orders DEF StartHangs, Starting, Up
  <2>2. QED
    BY <1>4, <2>1, FaultType DEF TypeOK, StartHangs, kafka, client
<1>5. CASE TimerFires \/ Crash
  BY <1>0, <1>5, ExitType, FaultType DEF TimerFires, Crash
<1>6. ASSUME NEW s \in Signals, Signal(s)
      PROVE  TypeOK'
  <2>1. signals' \in 0..MaxSignals /\ UNCHANGED <<outage, faults>> /\ Up
    BY <1>0, <1>6 DEF Signal
  <2>2. CASE StopAfter(0) = 0
    BY <1>0, <1>6, <2>1, <2>2, ExitType DEF Signal, StopAt
  <2>3. CASE StopAfter(0) # 0
    <3>1. /\ stop' = [stop EXCEPT ![s] = StopAfter(0)]
          /\ UNCHANGED <<at, hung, timer, open, stuck, kafka, client>>
          /\ early' \in BOOLEAN
      BY <1>6, <2>3 DEF Signal, StopAt, TypeOK, Starting
    <3>2. /\ stop' \in [Signals -> 0..6] /\ stop[s] = 0
          /\ \A t \in Signals : t # s => stop'[t] = stop[t]
      BY <1>0, <1>6, <3>1, StopAfterType DEF Signal
    <3>3. stuck \subseteq {t \in Signals : stop'[t] > 0}
      BY <1>0, <3>2 DEF TypeOK
    <3>4. Up'
      BY <2>1, <3>1 DEF Up
    <3>5. QED
      BY <2>1, <3>1, <3>2, <3>3, <3>4, Orders DEF TypeOK, kafka, client
  <2>4. QED
    BY <2>2, <2>3
<1>7. ASSUME NEW s \in Signals, StopStep(s)
      PROVE  TypeOK'
  <2>1. UNCHANGED <<outage, signals, faults>> /\ stop[s] \in 1..6 /\ Stopping /\ Up
    BY <1>0, <1>7 DEF StopStep, Stopping, TypeOK
  <2>2. CASE StopAfter(stop[s]) = 0
    BY <1>0, <1>7, <2>1, <2>2, ExitType DEF StopStep, StopAt
  <2>3. CASE StopAfter(stop[s]) # 0
    <3>1. /\ stop' = [stop EXCEPT ![s] = StopAfter(stop[s])]
          /\ UNCHANGED <<at, hung, timer, stuck, kafka, client, early>>
          /\ open' \subseteq open
      BY <1>7, <2>3 DEF StopStep, StopAt
    <3>2. StopAfter(stop[s]) \in 1..6
      BY <1>0, <2>1, <2>3, StopAfterType
    <3>3. /\ stop' \in [Signals -> 0..6]
          /\ \A t \in Signals : stop[t] > 0 => stop'[t] > 0
      BY <1>0, <3>1, <3>2
    <3>4. stuck \subseteq {t \in Signals : stop'[t] > 0}
      BY <3>3 DEF TypeOK
    <3>5. Up'
      BY <2>1, <3>1 DEF Up
    <3>6. QED
      BY <2>1, <3>1, <3>3, <3>4, <3>5, Orders DEF TypeOK, kafka, client
  <2>4. QED
    BY <2>2, <2>3
<1>8. ASSUME NEW s \in Signals, StopFails(s) \/ AbortFires(s)
      PROVE  TypeOK'
  BY <1>0, <1>8, ExitType, FaultType DEF StopFails, AbortFires
<1>9. ASSUME NEW s \in Signals, StopHangs(s)
      PROVE  TypeOK'
  <2>1. Up' = Up /\ Stopping' = Stopping
    BY <1>9 DEF StopHangs, Up, Stopping
  <2>2. QED
    BY <1>9, <2>1, FaultType DEF TypeOK, StopHangs, kafka, client
<1>10. CASE Deliver \/ Callback
  <2>1. UNCHANGED <<process, client, outage, signals, faults>>
    BY <1>10 DEF Deliver, Callback, Handle, Send, Commit
  <2>2. Up' = Up /\ Stopping' = Stopping
    BY <2>1 DEF process, Up, Stopping
  <2>3. /\ batch' \in {"none", "handling", "sending", "sent"}
        /\ outcome' \in {"none", "good", "spoiled"}
        /\ answered' \subseteq 1..MaxMessages /\ committed' \in 0..MaxMessages
        /\ batch' # "none" => committed' < MaxMessages
    <3>1. CASE Deliver
      BY <1>0, <3>1 DEF TypeOK, Deliver
    <3>2. CASE Handle
      BY <1>0, <3>2 DEF TypeOK, Handle
    <3>3. CASE Send
      <4>1. committed < MaxMessages /\ committed + 1 \in 1..MaxMessages
        BY <1>0, <3>3 DEF TypeOK, Send
      <4>2. answered' \subseteq answered \cup {committed + 1} /\ committed' = committed
            /\ batch' \in {"none", "sent"} /\ outcome' = "none"
        BY <3>3 DEF Send
      <4>3. QED
        BY <4>1, <4>2 DEF TypeOK
    <3>4. CASE Commit
      BY <1>0, <3>4 DEF TypeOK, Commit
    <3>5. QED
      BY <1>10, <3>1, <3>2, <3>3, <3>4 DEF Callback
  <2>4. ~Up => batch' = "none"
    BY <1>10 DEF TypeOK, Deliver, Connected, Callback, Handle, Send, Commit
  <2>5. QED
    BY <2>1, <2>2, <2>3, <2>4 DEF TypeOK, process, client
<1>11. CASE Request \/ Serve \/ ClientTimesOut
  <2>1. UNCHANGED <<process, kafka, held, outage, signals, faults>>
    BY <1>11 DEF Request, Serve, CheckToken, FindOracle, AskOracle, ClientTimesOut
  <2>2. call' \in [at : InService \cup {"idle", "null"}, held : BOOLEAN]
    <3>1. \A l \in InService : [call EXCEPT !.at = l] \in
                                  [at : InService \cup {"idle", "null"}, held : BOOLEAN]
      BY DEF TypeOK
    <3>2. CASE Request
      BY <3>2 DEF TypeOK, Request, NoCall, InService
    <3>3. CASE CheckToken \/ FindOracle
      BY <3>1, <3>3, ReturnsType DEF CheckToken, FindOracle, InService
    <3>4. CASE AskOracle
      BY <3>4, ReturnsType DEF AskOracle
    <3>5. CASE ClientTimesOut
      BY <3>5 DEF TypeOK, ClientTimesOut, FetchFails, NoCall
    <3>6. QED
      BY <1>11, <3>2, <3>3, <3>4, <3>5 DEF Serve
  <2>3. QED
    BY <2>1, <2>2 DEF TypeOK, process, kafka, Up, Stopping
<1>12. CASE ChangeAssociation
  BY <1>12 DEF TypeOK, ChangeAssociation, process, kafka, Up, Stopping
<1>13. CASE GoesDown \/ ComesUp
  <2>1. UNCHANGED <<process, kafka, client, signals>> /\ outage' \in BOOLEAN
    BY <1>13 DEF GoesDown, ComesUp
  <2>2. faults' \in 0..MaxFaults
    BY <1>13, FaultType DEF GoesDown, ComesUp, TypeOK
  <2>3. QED
    BY <2>1, <2>2 DEF TypeOK, process, kafka, client, Up, Stopping
<1>14. CASE UNCHANGED vars
  BY <1>14 DEF TypeOK, vars, process, kafka, client, Up, Stopping
<1>15. QED
  BY <1>1, <1>2, <1>3, <1>4, <1>5, <1>6, <1>7, <1>8, <1>9, <1>10, <1>11, <1>12, <1>13, <1>14
     DEF Next, Start

\* Every variable of the life cycle has its type, for any numbers of messages,
\* signals and faults, and nothing of a process outlives it.
THEOREM TypeCorrect == Spec => []TypeOK
BY InitType, NextType, PTL DEF Spec

----------------------------------------------------------------------------
\* What has been sent is what will be committed.
SentInv == batch = "sent" => committed + 1 \in answered

\* A message whose offset is committed has been answered, although the process
\* may end, or its producer be closed, between any two steps of the callback.
THEOREM NothingIsLost == Spec => []NothingLost
<1>1. Init => SentInv /\ NothingLost
  BY DEF Init, SentInv, NothingLost
<1>2. TypeOK /\ SentInv /\ NothingLost /\ [Next]_vars => SentInv' /\ NothingLost'
  <2> SUFFICES ASSUME TypeOK, SentInv, NothingLost, [Next]_vars
               PROVE  SentInv' /\ NothingLost'
    OBVIOUS
  <2>0. committed \in Nat
    BY BoundAssumption DEF TypeOK
  <2>1. CASE UNCHANGED <<answered, committed>> /\ batch' \in {"none", batch, "handling", "sending"}
    BY <2>1 DEF SentInv, NothingLost
  <2>2. CASE Send
    BY <2>0, <2>2 DEF Send, SentInv, NothingLost
  <2>3. CASE Commit
    <3>1. \A m \in 1..(committed + 1) : m \in 1..committed \/ m = committed + 1
      BY <2>0
    <3>2. QED
      BY <2>3, <3>1 DEF Commit, SentInv, NothingLost
  <2>4. CASE Start \/ StartFails \/ StartHangs \/ TimerFires \/ Crash
    BY <2>1, <2>4 DEF Start, Boot, StartStep, StartFails, StartHangs, TimerFires, Crash, Exit, kafka
  <2>5. ASSUME NEW t \in Signals,
               Signal(t) \/ StopStep(t) \/ StopFails(t) \/ StopHangs(t) \/ AbortFires(t)
        PROVE  UNCHANGED <<answered, committed>> /\ batch' \in {"none", batch}
    BY <2>5 DEF Signal, StopStep, StopFails, StopHangs, AbortFires, StopAt, Exit, kafka
  <2>6. CASE Request \/ Serve \/ ClientTimesOut \/ ChangeAssociation
    BY <2>1, <2>6 DEF Request, Serve, CheckToken, FindOracle, AskOracle, ClientTimesOut,
         ChangeAssociation, kafka
  <2>7. CASE Deliver \/ Handle \/ GoesDown \/ ComesUp \/ UNCHANGED vars
    BY <2>1, <2>7 DEF Deliver, Handle, GoesDown, ComesUp, vars, kafka
  <2>8. QED
    BY <2>1, <2>2, <2>3, <2>4, <2>5, <2>6, <2>7 DEF Next, Callback
<1>3. QED
  BY <1>1, <1>2, TypeCorrect, PTL DEF Spec

----------------------------------------------------------------------------
\* What the look-up in progress remembers of the association is still so.
HeldInv == call.at \in InService /\ call.held => held

\* The client makes null of a 404 only, and the route makes a 404 only of an
\* oracle's answer that has no participant.
LEMMA NullFromNothing ==
  /\ \A t \in Tokens : ClientResult(Refusal(t)) # "null"
  /\ \A a \in Answers : a # "nothing" => ClientResult(RouteResponse(Outcome(a))) # "null"
<1>1. ASSUME NEW t \in Tokens PROVE ClientResult(Refusal(t)) # "null"
  BY DEF Tokens, Refusal, Response, ClientResult
<1>2. ASSUME NEW a \in Answers, a # "nothing"
      PROVE  ClientResult(RouteResponse(Outcome(a))) # "null"
  <2>1. CASE a = "fsp"
    BY <2>1 DEF Outcome, RouteResponse, Response, ClientResult
  <2>2. CASE a = "throws"
    BY <2>2 DEF Outcome, RouteResponse, Response, ClientResult
  <2>3. QED
    BY <1>2, <2>1, <2>2 DEF Answers
<1>3. QED
  BY <1>1, <1>2

\* A look-up during which the association was held throughout never ends with
\* null, whatever is closed, hangs, times out or ends before it is answered.
THEOREM NullIsTrue == Spec => []NullMeansNotHeld
<1>1. Init => HeldInv /\ NullMeansNotHeld
  BY DEF Init, HeldInv, NullMeansNotHeld, NoCall, InService
<1>2. TypeOK /\ HeldInv /\ NullMeansNotHeld /\ [Next]_vars => HeldInv' /\ NullMeansNotHeld'
  <2> SUFFICES ASSUME TypeOK, HeldInv, NullMeansNotHeld, [Next]_vars
               PROVE  HeldInv' /\ NullMeansNotHeld'
    OBVIOUS
  <2>0. call \in [at : InService \cup {"idle", "null"}, held : BOOLEAN] /\ held \in BOOLEAN
    BY DEF TypeOK
  <2>a. CASE held' = held /\ call' \in {call, NoCall}
    BY <2>a DEF HeldInv, NullMeansNotHeld, NoCall, InService
  <2>1. CASE Request
    BY <2>1 DEF Request, NoCall, HeldInv, NullMeansNotHeld, InService
  <2>2. CASE CheckToken
    <3>1. \A t \in Tokens : Returns(Refusal(t)) = NoCall
      BY NullFromNothing DEF Returns
    <3>2. held' = held /\ (call' = NoCall \/ call' = [call EXCEPT !.at = "finder"])
          /\ call.at = "token"
      BY <2>2, <3>1 DEF CheckToken
    <3>3. QED
      BY <2>0, <2>a, <3>2 DEF HeldInv, NullMeansNotHeld, InService
  <2>3. CASE FindOracle
    <3>1. Returns(RouteResponse(Outcome("throws"))) = NoCall
      BY NullFromNothing DEF Returns, Answers
    <3>2. held' = held /\ (call' = NoCall \/ call' = [call EXCEPT !.at = "oracle"])
          /\ call.at = "finder"
      BY <2>3, <3>1 DEF FindOracle
    <3>3. QED
      BY <2>0, <2>a, <3>2 DEF HeldInv, NullMeansNotHeld, InService
  <2>4. CASE AskOracle
    <3>0. PICK type \in Oracles : \E a \in OracleAnswers(type) :
            call' = Returns(RouteResponse(Outcome(a)))
      BY <2>4 DEF AskOracle
    <3>1. PICK a \in OracleAnswers(type) : call' = Returns(RouteResponse(Outcome(a)))
      BY <3>0
    <3>2. a \in Answers /\ (a = "nothing" => ~held)
      BY OracleAssumption DEF OracleAnswers, Answers
    <3>3. held' = held /\ call.at = "oracle"
      BY <2>4 DEF AskOracle
    <3>4. CASE a # "nothing"
      BY <2>a, <3>1, <3>2, <3>3, <3>4, NullFromNothing DEF Returns
    <3>5. CASE a = "nothing"
      <4>1. ~call.held
        BY <3>2, <3>3, <3>5 DEF HeldInv, InService
      <4>2. call' = [call EXCEPT !.at = "null"] \/ call' = NoCall
        BY <3>1 DEF Returns
      <4>3. QED
        BY <2>0, <2>a, <3>3, <4>1, <4>2 DEF HeldInv, NullMeansNotHeld
    <3>6. QED
      BY <3>4, <3>5
  <2>5. CASE ChangeAssociation
    BY <2>0, <2>5 DEF ChangeAssociation, HeldInv, NullMeansNotHeld
  <2>6. CASE ClientTimesOut
    BY <2>a, <2>6 DEF ClientTimesOut, FetchFails
  <2>7. CASE Start \/ StartFails \/ StartHangs \/ TimerFires \/ Crash
    BY <2>a, <2>7 DEF Start, Boot, StartStep, StartFails, StartHangs, TimerFires, Crash, Exit,
         FetchFails, client
  <2>8. ASSUME NEW t \in Signals,
               Signal(t) \/ StopStep(t) \/ StopFails(t) \/ StopHangs(t) \/ AbortFires(t)
        PROVE  held' = held /\ call' \in {call, NoCall}
    BY <2>8 DEF Signal, StopStep, StopFails, StopHangs, AbortFires, StopAt, Exit, FetchFails, client
  <2>9. CASE Deliver \/ Callback \/ GoesDown \/ ComesUp \/ UNCHANGED vars
    BY <2>a, <2>9 DEF Deliver, Callback, Handle, Send, Commit, GoesDown, ComesUp, vars, client
  <2>10. QED
    BY <2>a, <2>1, <2>2, <2>3, <2>4, <2>5, <2>6, <2>7, <2>8, <2>9 DEF Next, Serve
<1>3. QED
  BY <1>1, <1>2, TypeCorrect, PTL DEF Spec

----------------------------------------------------------------------------
\* What start has opened by the time it is at its await n.
OpenedBefore(n) == {StartOrder[i] : i \in 1..(n - 1)} \cap Parts

\* Until a signal comes, what is open is what start has come to.
OpenInv == ~Stopping => open = OpenedBefore(at)

LEMMA OpenedOneMore ==
  ASSUME NEW n \in 1..8
  PROVE  OpenedBefore(n + 1) = OpenedBefore(n) \cup Opens(StartOrder[n])
<1>1. 1..(n + 1 - 1) = 1..(n - 1) \cup {n}
  OBVIOUS
<1>2. QED
  BY <1>1 DEF OpenedBefore, Opens

LEMMA OpenedWhen ==
  ASSUME NEW n \in 0..9
  PROVE  /\ OpenedBefore(0) = {} /\ OpenedBefore(1) = {} /\ OpenedBefore(9) = Parts
         /\ "express" \in OpenedBefore(n) => n = 9
         /\ "consumer" \in OpenedBefore(n) => {"finder", "adapters"} \subseteq OpenedBefore(n)
<1>1. OpenedBefore(0) = {} /\ OpenedBefore(1) = {}
  BY DEF OpenedBefore
<1>2. /\ StartOrder[4] = "finder" /\ StartOrder[5] = "adapters" /\ StartOrder[6] = "producer"
      /\ StartOrder[7] = "consumer" /\ StartOrder[8] = "express"
      /\ \A i \in 1..8 : StartOrder[i] = "express" => i = 8
      /\ \A i \in 1..8 : StartOrder[i] = "consumer" => i = 7
  BY DEF StartOrder
<1>3. Parts \subseteq OpenedBefore(9)
  <2>1. {4, 5, 6, 7, 8} \subseteq 1..(9 - 1)
    OBVIOUS
  <2>2. QED
    BY <1>2, <2>1 DEF OpenedBefore, Parts
<1>4. OpenedBefore(9) = Parts
  BY <1>3 DEF OpenedBefore
<1>5. "express" \in OpenedBefore(n) => n = 9
  <2>1. ASSUME "express" \in OpenedBefore(n) PROVE n = 9
    <3>1. PICK i \in 1..(n - 1) : StartOrder[i] = "express"
      BY <2>1 DEF OpenedBefore
    <3>2. QED
      BY <1>2, <3>1
  <2>2. QED
    BY <2>1
<1>6. "consumer" \in OpenedBefore(n) => {"finder", "adapters"} \subseteq OpenedBefore(n)
  <2>1. ASSUME "consumer" \in OpenedBefore(n)
        PROVE  "finder" \in OpenedBefore(n) /\ "adapters" \in OpenedBefore(n)
    <3>1. PICK i \in 1..(n - 1) : StartOrder[i] = "consumer"
      BY <2>1 DEF OpenedBefore
    <3>2. 4 \in 1..(n - 1) /\ 5 \in 1..(n - 1)
      BY <1>2, <3>1
    <3>3. QED
      BY <1>2, <3>2 DEF OpenedBefore, Parts
  <2>2. QED
    BY <2>1
<1>7. QED
  BY <1>1, <1>4, <1>5, <1>6

\* The steps that neither open nor close a part, and leave start and the stops
\* where they are.
LEMMA QuietSteps ==
  ASSUME \/ StartHangs \/ Deliver \/ Callback \/ Request \/ Serve \/ ClientTimesOut
         \/ ChangeAssociation \/ GoesDown \/ ComesUp \/ UNCHANGED vars
         \/ \E s \in Signals : StopHangs(s)
  PROVE  UNCHANGED <<at, open, stop, early>>
BY DEF StartHangs, Deliver, Callback, Handle, Send, Commit, Request, Serve, CheckToken,
       FindOracle, AskOracle, ClientTimesOut, ChangeAssociation, GoesDown, ComesUp,
       StopHangs, vars, process

\* The other steps but Boot, StartStep, Signal and StopStep are the end of the
\* process.
LEMMA EndingSteps ==
  ASSUME \/ StartFails \/ TimerFires \/ Crash
         \/ \E s \in Signals : StopFails(s) \/ AbortFires(s)
  PROVE  Exit
BY DEF StartFails, TimerFires, Crash, StopFails, AbortFires

LEMMA OpenStep == TypeOK /\ OpenInv /\ [Next]_vars => OpenInv'
<1> SUFFICES ASSUME TypeOK, OpenInv, [Next]_vars PROVE OpenInv'
  OBVIOUS
<1>0. at \in 0..9 /\ stop \in [Signals -> 0..6]
  BY Orders DEF TypeOK
<1>1. CASE Exit
  BY <1>1, OpenedWhen DEF Exit, OpenInv
<1>2. CASE UNCHANGED <<at, open, stop, early>>
  BY <1>2 DEF OpenInv, Stopping
<1>3. CASE Boot
  BY <1>0, <1>3, OpenedWhen DEF TypeOK, Boot, OpenInv, Up, Stopping
<1>4. CASE StartStep
  <2>1. at \in 1..8 /\ at' = at + 1 /\ open' = open \cup Opens(StartOrder[at]) /\ stop' = stop
    BY <1>4, Orders DEF StartStep, Starting
  <2>2. QED
    BY <2>1, OpenedOneMore DEF OpenInv, Stopping
<1>5. ASSUME NEW s \in Signals, \E i \in 1..6 : stop' = [stop EXCEPT ![s] = i]
      PROVE  OpenInv'
  BY <1>0, <1>5 DEF OpenInv, Stopping
<1>6. ASSUME NEW s \in Signals, Signal(s)
      PROVE  OpenInv'
  <2>1. StopAfter(0) \in 0..6
    BY StopAfterType
  <2>2. QED
    BY <1>1, <1>5, <1>6, <2>1 DEF Signal, StopAt
<1>7. ASSUME NEW s \in Signals, StopStep(s)
      PROVE  OpenInv'
  <2>1. StopAfter(stop[s]) \in 0..6
    BY <1>0, StopAfterType
  <2>2. QED
    BY <1>1, <1>5, <1>7, <2>1 DEF StopStep, StopAt
<1>8. QED
  BY <1>1, <1>2, <1>3, <1>4, <1>6, <1>7, QuietSteps, EndingSteps DEF Next, Start

\* Unless a signal came during start: stops run on a service that has started,
\* and while the consumer may deliver, or a message is being handled, the
\* databases are open and no stop has got beyond its first await.
OrderInv ==
  ~early =>
    /\ Stopping => at = 9
    /\ "consumer" \in open \/ batch # "none" =>
         {"finder", "adapters"} \subseteq open /\ \A s \in Signals : stop[s] <= 1

LEMMA OrderStep == TypeOK /\ OpenInv /\ OrderInv /\ [Next]_vars => OrderInv'
<1> SUFFICES ASSUME TypeOK, OpenInv, OrderInv, [Next]_vars PROVE OrderInv'
  OBVIOUS
<1>0. at \in 0..9 /\ stop \in [Signals -> 0..6] /\ early \in BOOLEAN
  BY Orders DEF TypeOK
<1>1. CASE Exit
  BY <1>1 DEF Exit, OrderInv, Stopping
<1>2. CASE /\ UNCHANGED <<at, open, stop, early>>
           /\ batch' # "none" => batch # "none" \/ "consumer" \in open
  BY <1>2 DEF OrderInv, Stopping
<1>3. CASE Boot
  BY <1>0, <1>3 DEF TypeOK, Boot, OrderInv, Up, Stopping, kafka
<1>4. CASE StartStep
  <2>1. /\ at \in 1..8 /\ at' = at + 1 /\ open' = open \cup Opens(StartOrder[at])
        /\ UNCHANGED <<stop, early, batch>>
    BY <1>4, Orders DEF StartStep, Starting, kafka
  <2>2. CASE early
    BY <2>1, <2>2 DEF OrderInv
  <2>3. CASE ~early
    <3>1. ~Stopping /\ ~Stopping'
      BY <2>1, <2>3 DEF OrderInv, Stopping
    <3>2. \A s \in Signals : stop'[s] <= 1
      BY <1>0, <2>1, <3>1 DEF Stopping
    <3>3. open' = OpenedBefore(at') /\ at' \in 0..9
      BY <2>1, <3>1, OpenedOneMore DEF OpenInv
    <3>4. "consumer" \in open' => {"finder", "adapters"} \subseteq open'
      BY <3>3, OpenedWhen
    <3>5. batch # "none" => {"finder", "adapters"} \subseteq open'
      BY <2>1, <2>3 DEF OrderInv
    <3>6. QED
      BY <2>1, <3>1, <3>2, <3>4, <3>5 DEF OrderInv
  <2>4. QED
    BY <2>2, <2>3
<1>5. ASSUME NEW s \in Signals, Signal(s)
      PROVE  OrderInv'
  <2>1. CASE StopAfter(0) = 0
    BY <1>1, <1>5, <2>1 DEF Signal, StopAt
  <2>2. CASE StopAfter(0) # 0
    <3>1. /\ stop' = [stop EXCEPT ![s] = StopAfter(0)]
          /\ UNCHANGED <<at, open, batch>>
          /\ early' = (early \/ Starting) /\ Up
      BY <1>5, <2>2 DEF Signal, StopAt, kafka
    <3>2. CASE ~early'
      <4>0. ~early /\ ~Starting
        BY <3>1, <3>2, Zenon
      <4>1. ~early /\ at = 9
        BY <1>0, <3>1, <4>0, Orders DEF Starting, Up
      <4>2. stop' = [stop EXCEPT ![s] = 1]
        BY <3>1, <4>1, StopOfStarted
      <4>3. QED
        BY <1>0, <3>1, <4>1, <4>2 DEF OrderInv
    <3>3. CASE early'
      BY <3>3 DEF OrderInv
    <3>4. QED
      BY <3>2, <3>3
  <2>3. QED
    BY <2>1, <2>2
<1>6. ASSUME NEW s \in Signals, StopStep(s)
      PROVE  OrderInv'
  <2>1. CASE StopAfter(stop[s]) = 0
    BY <1>1, <1>6, <2>1 DEF StopStep, StopAt
  <2>2. CASE StopAfter(stop[s]) # 0
    <3>1. /\ UNCHANGED <<at, batch, early>>
          /\ open' = open \ Closed(StopOrder[stop[s]])
          /\ stop[s] \in 1..6
          /\ StopOrder[stop[s]] = "consumerStop" => batch = "none"
          /\ Stopping
      BY <1>0, <1>6, <2>2 DEF StopStep, StopAt, kafka, Stopping
    <3>2. CASE stop[s] = 1
      <4>1. batch = "none" /\ "consumer" \notin open'
        BY <3>1, <3>2 DEF StopOrder, Closed
      <4>2. QED
        BY <3>1, <4>1 DEF OrderInv
    <3>3. CASE stop[s] > 1
      <4>1. ~early => "consumer" \notin open /\ batch = "none"
        BY <1>0, <3>3 DEF OrderInv
      <4>2. QED
        BY <3>1, <4>1 DEF OrderInv
    <3>4. QED
      BY <3>1, <3>2, <3>3
  <2>3. QED
    BY <2>1, <2>2
<1>7. CASE Deliver \/ Callback
  <2>1. batch' # "none" => batch # "none" \/ "consumer" \in open
    BY <1>7 DEF Deliver, Connected, Callback, Handle, Send, Commit
  <2>2. QED
    BY <1>2, <1>7, <2>1, QuietSteps
<1>8. CASE \/ StartHangs \/ Request \/ Serve \/ ClientTimesOut
           \/ ChangeAssociation \/ GoesDown \/ ComesUp \/ UNCHANGED vars
           \/ \E s \in Signals : StopHangs(s)
  <2>1. batch' = batch
    BY <1>8 DEF StartHangs, Request, Serve, CheckToken, FindOracle, AskOracle, ClientTimesOut,
         ChangeAssociation, GoesDown, ComesUp, StopHangs, vars, kafka
  <2>2. QED
    BY <1>2, <1>8, <2>1, QuietSteps
<1>9. QED
  BY <1>1, <1>3, <1>4, <1>5, <1>6, <1>7, <1>8, EndingSteps DEF Next, Start

\* A message is not answered with an error that the tear-down has caused: the
\* consumer stops, once the callback in progress has ended, before the databases
\* are closed, whatever fails, hangs or is signalled twice, unless the signal
\* came while the service was still starting.
THEOREM TearDownIsInOrder == Spec => []TearDownSpoilsNoAnswer
<1>1. Init => OpenInv /\ OrderInv /\ TearDownSpoilsNoAnswer
  BY OpenedWhen DEF Init, OpenInv, OrderInv, TearDownSpoilsNoAnswer, Stopping
<1>2. TypeOK /\ OrderInv /\ TearDownSpoilsNoAnswer /\ [Next]_vars => TearDownSpoilsNoAnswer'
  <2> SUFFICES ASSUME TypeOK, OrderInv, TearDownSpoilsNoAnswer, [Next]_vars
               PROVE  TearDownSpoilsNoAnswer'
    OBVIOUS
  <2>1. CASE Exit
    BY <2>1 DEF Exit, TearDownSpoilsNoAnswer
  <2>2. CASE outcome' \in {outcome, "none"} /\ (early => early')
    BY <2>2 DEF TearDownSpoilsNoAnswer
  <2>3. CASE Handle
    <3>1. early' = early /\ (outcome' = "spoiled" => ~({"finder", "adapters"} \subseteq open))
          /\ batch # "none"
      BY <2>3 DEF Handle, Databases, process
    <3>2. QED
      BY <3>1 DEF OrderInv, TearDownSpoilsNoAnswer
  <2>4. CASE Deliver \/ Send \/ Commit
    BY <2>2, <2>4 DEF Deliver, Send, Commit, process
  <2>5. CASE \/ Boot \/ StartStep \/ StartHangs \/ Request \/ Serve \/ ClientTimesOut
             \/ ChangeAssociation \/ GoesDown \/ ComesUp \/ UNCHANGED vars
             \/ \E s \in Signals : StopHangs(s)
    BY <2>2, <2>5 DEF Boot, StartStep, StartHangs, Request, Serve, CheckToken, FindOracle,
         AskOracle, ClientTimesOut, ChangeAssociation, GoesDown, ComesUp,
         StopHangs, vars, kafka, process
  <2>6. ASSUME NEW s \in Signals, Signal(s) \/ StopStep(s)
        PROVE  Exit \/ (outcome' = outcome /\ (early => early'))
    <3>1. CASE Signal(s)
      BY <3>1, Zenon DEF Signal, StopAt, kafka
    <3>2. CASE StopStep(s)
      BY <3>2, Zenon DEF StopStep, StopAt, kafka
    <3>3. QED
      BY <2>6, <3>1, <3>2
  <2>7. QED
    BY <2>1, <2>2, <2>3, <2>4, <2>5, <2>6, EndingSteps DEF Next, Start, Callback
<1>3. QED
  BY <1>1, <1>2, OpenStep, OrderStep, TypeCorrect, PTL DEF Spec
=============================================================================
