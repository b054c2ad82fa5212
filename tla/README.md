# Verification of the account look-up bounded context

TLA+ models of the account look-up service (`packages/account-lookup-svc`, `domain-lib`,
`implementations-lib`) and of the HTTP oracle service it can ask (`http-oracle-svc`), their
TLC configurations, and theorems checked by TLAPS. Paths below are relative to `packages/`.

## The system

The service tells which participant (FSP) holds a party. It takes events from a Kafka topic,
validates the participants named in them, asks or changes an *oracle* that holds the
associations party → FSP, and answers each event with one event. Oracles are registered and
removed through an HTTP API; look-ups are also served over HTTP. Several replicas run at once.

| Part | State | Operations | Talks to |
|---|---|---|---|
| Event handler (`account-lookup-svc/src/handler.ts`) | the batch, `outputEvents` | batch callback | aggregate, producer, consumer |
| Aggregate (`domain-lib/src/aggregate.ts`) | `_oracleProvidersAdapters` | `init`, `handleEvent` and its seven handlers, `addOracle`, `removeOracle`, searches | finder, adapters, participants adapter |
| Oracle finder (`implementations-lib/src/oracles/mongo_oraclefinder.ts`) | MongoDB collection of oracles, shared by the replicas | `addOracle`, `removeOracle`, `getOracle…` | MongoDB |
| Built-in oracle (`…/builtin/mongo_oracleprovider.ts`) | MongoDB collection of associations and Redis cache, shared by replicas and by all built-in oracles | look-up, associate, disassociate, search | MongoDB, Redis |
| HTTP oracle provider (`…/remote/http_oracleprovider.ts`) | none | the same, by HTTP | oracle service |
| Oracle service (`http-oracle-svc/src`) | map in memory, JSON file | look-up, associate, disassociate, load, save | file system |
| Participants adapter (`…/participant_adapter.ts`) | cache of its client | `getParticipantInfo` | participants service |
| Routes (`account-lookup-svc/src/routes`) | none | admin and look-up requests | aggregate |
| Client library (`client-lib/src`) | none | `participantLookUp` | look-up route |
| Life cycle (`account-lookup-svc/src/service.ts`) | the parts that exist and are open, the start-up timer | `start`, `stop`, signals | all of the above |

What is hard: every method is a chain of awaits at which others run (HTTP calls of the same
replica, other replicas); a command may fail before or after taking effect; a process may end
between any two awaits; nothing spans two commands (no transaction, no unique index, no lock);
the cache and the adapter lists are copies that can be out of date; Kafka delivers again.

What makes the parts correct:

* built-in oracle – an answer was true at some time; staleness has an end; copies are bounded;
* registry – a replica serves what it acknowledged and what it found when it started; names are
  unique; replicas restart;
* event handling – each committed message is answered, in order; repetitions are bounded and
  harmless; positive answers only for participants that were validated;
* oracle service – file and map agree; no party changes hands without being given up;
* search – the pages cover what matches, but for what moves while a client pages;
* route and client – `null` means that the party has no participant, and nothing else;
* life cycle – tear-down spoils no answer, nothing is lost, a signal ends the process, the service
  comes up, and each message is answered at last, outages included.

`PROJECT.json` lists the hazards, each at its line with the properties that cover it.

## Modules

| Module | Models | Checked by | Proved in |
|---|---|---|---|
| `BuiltinOracle` | `MongoOracleProviderRepo` | `MCBuiltinOracle` | `BuiltinOracleProofs` |
| `AssociationStore` | abstract: what an oracle promises whoever calls it in turn | property of `BuiltinOracle` | `BuiltinOracleProofs` |
| `OracleRegistry` | `MongoOracleFinderRepo` and the aggregate's `init`, `addOracle`, `removeOracle`, `_getOracleAdapter` | `MCOracleRegistry` | `OracleRegistryProofs` |
| `EventHandling` | batch callback, `handleEvent` and its handlers | `MCEventHandling` | `EventHandlingProofs`, `EventHandlingEffectProofs` |
| `AtLeastOnce` | abstract: what the handling of a partition promises | property of `EventHandling` | `EventHandlingProofs` |
| `RemoteOracle` | `RemoteOracle`, its routes, the URLs of `HttpOracleProvider` | `MCRemoteOracle` | `RemoteOracleProofs` |
| `PartyDirectory` | abstract: what a directory promises that outlives its process | property of `RemoteOracle` | `RemoteOracleProofs` |
| `AssociationSearch` | `getAllOracleAssociations`, `searchAssociations` | `MCAssociationSearch` | `AssociationSearchProofs` |
| `LookupRoute` | operators: outcomes, statuses and results of a look-up | through `ServiceLifecycle` | |
| `ServiceLifecycle` | `Service.start`, `stop`, timers and signals, with the callback and a look-up served meanwhile | `MCServiceLifecycle` | `ServiceLifecycleProofs` |

Conventions. A method is cut at its awaits: an action is the code from one await to the next
including the effect of the command awaited; `pc` names the await. `Faults` lets commands fail,
with and without having taken effect. In modules with crashes a crash clears what is in memory.
History variables (`ever`, `owed`,
`okSeen`, `alone`, `past`, `early`, `stayed`, `orderly`, …) are read by properties only. Operators
whose comment begins with "Mutant of" are not part of a specification: each is a plausible bug
and `PROJECT.json` says which property it breaks.

### BuiltinOracle

`parties` counts the copies of each document, `cache` is Redis, `pc` and `req` are the calls in
progress. Event handlers associate, disassociate and look up; HTTP requests look up. `Matches`
is the query in which an absent sub type or currency is dropped, so it matches every document;
the cache key spells the absence instead. An end of a process is a failing command: the call is
forgotten, and what it had done stays. Redis expires an entry at any time.

* `AnswersWereTrue` – each answer and each cache entry was stored at some time.
* `DuplicatesBounded` – copies, with those about to be inserted, are at most as many as handlers.
* `CoherentWhenOrderly` – as long as every state has been `Orderly` (a call that is changing
  associations overlaps with nothing but look-ups the cache answers, no call has failed, and all have
  named everything), the cache agrees with the collection between calls: staleness has no other
  cause. The history variable `orderly` remembers it.
* `EventuallyCoherent` – a wrong cache entry goes away and does not come back once writes stop.
* `ImplementsStore` – the refinement of `AssociationStore`, which promises one set of associations
  for as long as callers and servers are orderly, and nothing more after that. `Held` is what the
  collection holds, and what the cache still answers while it is being removed; `CallOf` is a call as
  its caller knows it. An insert is a `Serving` step, the `setex` after it `Stored`; a disassociation
  takes effect at its `deleteOne`, or at its `del` or the expiry of the entry if the cache holds the
  association. An answer equal to the caller's last one is a stutter; that the cache holds only what
  is held (`StoreInv`) covers it.

### OracleRegistry

`oracles` is the collection, `adapters` each replica's list, `loading` what `init` has still to
initialise. `Continue` is the set of steps a call in progress may take. A start fails at an
oracle that can never be initialised (`HttpOracleProvider.init` without endpoint) or, with `Faults`,
whose server is not reached (a built-in oracle's MongoDB or Redis), and the process ends.

* `OwedServed` – an oracle that a replica reported as added, or found registered when it started,
  is served there through an adapter built from that document as long as the document exists. So
  the only oracles without an adapter at a replica are those added elsewhere since its start. It
  holds where the service chooses the ids; with ids brought by requests, removing and adding one
  id again can defeat it.
* `DuplicateNamesBounded` – overlapping calls may register a name several times, never more
  often than calls overlap. `UniqueNames` is refuted by `OracleRegistryNames`.
* `InSync` – one replica, one call at a time: ids and names are unique and the list is that of the
  registered oracles, between calls, whatever crashes came in the middle of them.
* `Recovers` – a replica that crashed comes up again, unless an oracle is registered that can never
  be initialised: `addOracle` stores it first, and then every start fails at it.

### EventHandling

One partition, one consumer: `topic`, `committed`, the batch `pos..last`, `outputs`, and what was
`published`. The participants service, the set of parties with an adapter and the associations
change while a message is handled. `known` is the cache of the participants client. The test on
a participant has five outcomes besides "ok"; the events they lead to are told apart by `about`.
The catch-all of `handleEvent` is left out: every call a handler makes is caught in the handler.

* `CommittedAnswered`, `AnsweredInOrder`, `RepliesBounded` – about the topic and the output
  topic, across crashes and a callback that throws in the middle of a batch (its `finally` block
  sends what was answered so far) or in the send itself.
* `Vouched` (action property) – a positive answer is given only for participants that were
  approved and active while the message was handled, or when the client cached them.
* `ExactlyOnceEffect` – redelivery does not change what the oracle ends up holding, as long as
  participants and oracles do not change meanwhile.
* `AllAnswered` – liveness.
* `ImplementsAtLeastOnce` – the refinement of `AtLeastOnce`: requests that have arrived are the
  topic, the finished ones the committed, the answers those published. A send is a `Reply` to a
  run of requests that begins right after the last finished one, and `Commit` finishes requests
  only when all of them have their answers; all else, handlers and faults included, is a stutter.

### RemoteOracle

The map, the file, and per request slot the save in progress. A save truncates, then writes; a
write over another one may leave a file that is not JSON. `Received` is the URL as it is parsed:
a currency that follows a sub type becomes part of the sub type's value.

* `Durable` – a save that runs alone and does not fail leaves file and map in agreement, whatever
  earlier saves did. While saves overlap this is false: the file may be torn or older.
* `NoTakeover` (action property), and `DuplicateMeansSame`, refuted by `RemoteOracleKeys`.
* `ImplementsDirectory` – the refinement of `PartyDirectory`: while it runs the map is changed
  entry by entry, and no entry is overwritten; only a process that ends or starts falls back, and then
  as a whole, to a map that there was before. A torn file is never loaded as a mixture of two maps, and
  a failed save is not taken back. That everything is lost, by a crash between the truncation and the
  write, is what the code does, and allowed: the empty directory is one there was before.

### AssociationSearch

Entries are numbers in the order of the query; a client fetches page after page. For each page
the aggregate goes through the registered oracles; the built-in one runs two queries, for the
items and for their number. Others store and remove entries at any time. The limit of the query,
the largest page size and the number of pages are computed as in the code.

* `MissedBounded` – with page sizes up to the limit, a client that has fetched all pages misses at
  most one entry for each removal that happened meanwhile (removals move entries to pages already
  fetched), and none without removals. `PagesCover`, for any page size, is refuted by
  `AssociationSearchLarge`.
* `PagesNonEmpty` – no counted page is empty while nothing changes.

Failed queries are swallowed by the code; `swallowed` records it, and the properties then claim
nothing; nor do they speak of searches that fail as a whole, or of what the registered oracles hold
apart from each other (all built-in ones share one collection).

### LookupRoute and ServiceLifecycle

`LookupRoute` has the outcome of `getAccountLookUp`, the response of the route or of the
middleware, and what `participantLookUp` makes of it. `ServiceLifecycle` has one process: `at` is
the await `start` is at, `stop[s]` the await of the tear-down that signal `s` has called, `open`
what is connected or listens. `start` and the stops interleave; each await may fail or hang. The
callback handles one message at a time, and a client looks up a party that may be associated or
not, meanwhile.

The broker may be down for a time (`outage`), from before a process starts or while it runs: awaits
of Kafka clients then wait or fail, sends make the callback throw, and commits are lost. A database
that is down after start is a query that fails, which a look-up and a handler answer with an error; it
may do so at any time. Neither is noticed by the process: `/health` is a constant OK
(`service.ts:357`), so it says only that the server listens, and nothing restarts a service that has
lost its connections.

* `TearDownSpoilsNoAnswer` – no message is answered with an error because the databases were
  closed under it, unless the signal came during start (then `stop` can close databases that
  `start` uses, or close nothing of what `start` opens later; the five-second timer or the failing
  await ends it).
* `NothingLost` – committed messages were answered, although producers are destroyed.
* `NullMeansNotHeld` – a look-up during which the association was held never ends with `null`.
* `SignalsEndIt`, `ReadyAtLast` – liveness: a signal ends the process; the service is ready at last.
* `AnsweredAtLast` – liveness: each message is answered at last, by this process or a later one,
  whatever a fault, an outage or a tear-down has cut off. The answer may be an error.

## Runs

| Run | Question | Bounds |
|---|---|---|
| `BuiltinOracle` | safety under interleaving and failure | 2 handlers, 1 reader, 2 FSPs, one currency or none, 3 writes |
| `BuiltinOracleLiveness` | staleness ends, and has no other causes; refinement | 1 handler, 1 reader, keys full or bare, 3 writes, failures |
| `OracleRegistry` | safety with two replicas | 1 call each, 4 changes, 1 crash, 2 DTOs with chosen ids |
| `OracleRegistrySequential` | one replica in sync, restarts | 5 changes, 2 crashes, 4 DTOs with ids and names that collide |
| `OracleRegistryNames` | unique names: **violated** | 2 calls at a time |
| `EventHandling` | safety for all kinds of message, refinement | 2 messages, batches of 1 or 2, 1 crash or throw, 1 change of the world |
| `EventHandlingRedelivery` | effect of redelivery, liveness | 3 messages, batches up to 2, 2 crashes or throws |
| `RemoteOracle` | durability, hand-over, refinement | 2 requests at a time, 3 changes, 1 crash, failing saves |
| `RemoteOracleKeys` | duplicates are duplicates: **violated** | 2 sub types, 1 currency |
| `AssociationSearch` | pages within the query's limit, under change | 6 entries, limit 2, largest page 4, 8 page sizes, 2 oracles, 3 changes, failing queries |
| `AssociationSearchLarge` | pages beyond it: **violated** | up to 60 entries, the numbers of the code |
| `ServiceLifecycle` | tear-down, signals, timers, look-ups | 1 message, 2 signals, 1 fault or outage, both types of oracle |

Why the bounds are enough. The races of the built-in oracle and the registry take two
processes and one key or name; three or four writes let each process write after it was raced
and leave one more to observe the result. Kafka properties need a batch in which one message is
answered and another is not, and a redelivery after it: two messages and one throw; the third
message in `EventHandlingRedelivery` lets an effect be undone and redone. For the search, six
entries make three pages of the limit's size, and three changes let one removal fall before, one
between the queries of a page, and one after it; limit and largest page keep the order they have
in the code (20 and 100) with a size between them, and one above. In the life cycle two signals
let two stops overlap, and one fault lets one of them, or `start`, hang or fail while the other
goes on; the callback is the same for each message. Deadlock checking is off where the system may rest: the topic is exhausted, the
search is over, the oracle service cannot start from a torn file or every bound is used up.

The three violations are reported as findings: overlapping `addOracle` calls register a name
twice; the oracle service's key leaves the sub type out that its comment names; the search
returns at most 20 entries a page while it counts pages of up to 100.

## Fairness

`FairSpec` assumes weak fairness of steps the program or its servers take by themselves: an
awaited command is answered or fails (drivers time out), Redis expires what `setex` stored, a
replica that is down is started again (the container platform), the consumer polls. In
`ServiceLifecycle`, awaits that neither fail nor hang resolve, the start-up timer and the
five-second timer fire when their time is over, the platform starts an ended process, and the broker
comes up again. Requests,
signals, changes of the world, crashes and throws are never assumed to happen; crashes and throws are
bounded, without which no consumer would ever get to the end of a batch.

## Proofs

`BuiltinOracleProofs` proves for all constants that meet the assumptions of the module:

* `TypeCorrect` – `TypeOK`, which is inductive.
* `AnswersTrue` – `AnswersWereTrue`. It is not inductive by itself: a `Fill` writes what `Find`
  read, a `Put` what was inserted. `AnswerInv` adds that a call about to write the cache holds an
  association of `ever` that its key matches, and that `ever` contains what is stored. The steps
  rest on `OnceTrueStable` (`ever` only grows) and `StoredIsTrue`.
* `DuplicatesAreBounded` – `DuplicatesBounded` is inductive with the type invariant: a handler
  starts to insert only while there is no copy, and then counts among the handlers inserting;
  storing the copy takes it out of them again.
* `StoreImplemented` – the refinement. `StoreInv`, which holds while the oracle is orderly, says that
  documents have no copies, that each cache entry is held, and that a call about to cache an
  association has it stored while one about to insert or purge does not. One lemma per action
  (`HitStore`, …, `ExpireStore`) shows both that it keeps `StoreInv` and that it is a step of the
  store or a stutter. `FullKeyMatch` and `OnlyItself` say that a full key matches itself only.
* `OrderlyCoherence` – `CoherentWhenOrderly`, from the same invariant.

`RemoteOracleProofs` proves, for any number of concurrent requests, failures and crashes:

* `TypeCorrect` – `TypeOK`, which is inductive.
* `SavesAreDurable` – `Durable`. It speaks only of moments with no save in progress; `DurableInv`
  adds what leads there: while `alone` holds, at most one save is in progress, it will write what
  the map holds, and it has emptied the file before it writes, so that nothing is left behind
  under what it writes.
* `PartiesAreNotTakenOver` – the action property `NoTakeover`, from the type invariant: only
  `AssociateParticipant` and `DisassociateParticipant` change the map while the service runs.
* `DirectoryImplemented` – `Spec => ImplementsDirectory`. `PastInv` says that the map, the file's
  contents and whatever a save in progress will write are maps that have been, which makes a
  restart a `FallBack`; `NextDirectory` maps each step, with `running` mapped to `up`.

`EventHandlingProofs` proves, for any messages, batch size, participants, failures and crashes:

* `TypeCorrect` – with `HandlingInv`: what is handled at each await is of the kind that gets there.
* `CommittedAreAnswered`, `AnswersInOrder` – from `AnswerInv`: the outputs are the run of messages
  after the last commit, and once sent the whole batch has its answers. Neither property says
  anything of a batch in progress, which is why it is needed.
* `AtLeastOnceImplemented` – the refinement, from the same invariant: `Send` appends exactly the
  run that `Reply` allows, and `Commit` is `Finish` because all it covers are answered.
* `PositiveAnswersVouched` – from `VouchInv`: while a message is handled, whoever a check would
  find "ok", and the requester after its check, is in `okSeen`.

* `RepliesAreBounded` – from `RepliesInv`: a message has at most as many answers as there were crashes
  and throws, and one more once the answer that is, or is about to be, committed has been sent.
  `Replies(i)` is the set of places at which a message is answered; `PublishReplies` says what a run
  of answers adds to it.

`EventHandlingEffectProofs` proves `RedeliveryIsHarmless` – `ExactlyOnceEffect`, assuming
`Faults = FALSE` (an association that could not be stored is answered with an error and not tried
again). The property speaks of the end of the topic only. `EffectInv` says of every state that each
association is what the first `n` messages make of it, for an `n` not below the committed offset:
after a crash, the messages handled again may trail what had been handled before, until the first of
them that is about the pair; from then on `n` is the message in front of the one being handled.
`CheckedInv` says that what a handler has checked still holds, `SentInv` that only whole batches are
committed; `OneMore` and `Between` say what a message, and a run of messages about other pairs, do
to `LastAssociates`.

`OracleRegistryProofs` proves, for any number of replicas, calls and crashes:

* `TypeCorrect` – `TypeOK`, which is inductive.
* `NamesAreBounded` – inductive with types and `FiniteInv`: a call is counted for a name only when
  no document has it (then only calls count, and there are no more of them than slots), and a
  document replaces a call in the count.
* `OwedIsServed` – assuming `ClientIds = {}`. `IdInv` says that the id of an oracle still to be
  stored is nobody else's, and that none is stored with an id whose deletion has succeeded, so
  that `FilterAdapters`, which goes by id after its await, takes nothing that is still registered.
  `ServedInv` adds what a starting replica has still to load.
* `SequentialSync` – `InSync`, assuming one replica, one slot and no failing command. `SyncInv` says
  how the list differs from the collection in the middle of a call and of a start.

`ServiceLifecycleProofs` proves, for any number of messages, signals and faults:

* `TypeCorrect`; `NothingIsLost`, by `SentInv` (what will be committed was sent); `NullIsTrue`, by
  `HeldInv` and `NullFromNothing` (only an oracle's answer without participant becomes a 404).
* `TearDownIsInOrder` – `OrderInv`: unless a signal came during start, stops run on a started
  service, and no stop is past its first await while the consumer or the callback is at work; with
  `OpenInv`: until a signal comes, what is open is what `start` has passed.

`AssociationSearchProofs` proves, for any entries, page sizes, oracles, and changes:

* `TypeCorrect`.
* `MissedIsBounded` – `MissedBounded`. The rank lemmas (`RankStore`, `RankRemove`, `FirstStore`,
  `FirstRemove`) say how one change moves the other entries in the order of the query. `PagesInv`
  bounds, at every await, what the client has missed of the pages it was given, and will have missed
  with the answer being prepared, by the removals: a removal moves at most one entry over the end of
  those pages, a store none. `ItemsOfPage` says that a page misses nothing of its own.
* `CountedPagesNonEmpty` – `PagesNonEmpty`. `CalmInv` says that while nothing changes the number of
  pages is that of what matches now; `CountedPages` and `PageHasItem` do the arithmetic.

Only model-checked. Liveness (`EventuallyCoherent`, `Recovers`, `AllAnswered`, `SignalsEndIt`,
`ReadyAtLast`, `AnsweredAtLast`) is out of this prover's reach: it needs fairness and `ENABLED`. All other properties
of the passing runs are stated by theorems.

## External parts, and what is assumed of them

* Kafka consumer: a batch is committed when the callback resolves; after a crash or a rejected
  callback, messages after the last commit are delivered again, in order. One partition. `stop()`
  resolves once the callback in progress has, as `handler.destroy` relies on. Kafka clients connect
  again by themselves when the broker is back; a send while it is down fails.
* Participants service and its client: a participant is cached for a while; failures are not.
* MongoDB, Redis: a command takes effect atomically or not at all. The order of a query is the
  same each time (the field the search sorts by is in no document, so that this is a wish).
* File system: opening truncates; one small write is one step.
* Platform: runs the service again when it has ended.

## Not modelled

* `getSearchKeywords`, `getAllAssociations`, `getOracleById`-style reads and `healthCheck`: they read
  once and change nothing; there is no state for a property to relate. What was noticed in them
  (keywords repeated once per group, a health check that is always true) is among the hazards.
* Filters of the search: an entry matches or does not.
* Parameter validation, privileges of the admin routes, metrics and tracing (but for their
  exceptions), wording of errors, the URL the client builds.
* The admin UI contract, scripts, mocks, and type declarations.

## Plan

Done: the components above with their runs, the three refinements, and the theorems listed in
`PROJECT.json`, which state every invariant and action property of the passing runs. What could
follow:

1. `EventHandling` over `AssociationStore`, composed with `OracleRegistry` (today the handlers see
   oracles as parties that come and go, and a set of associations);
2. several partitions and a rebalance between replicas, if the consumer's library documents what it
   promises then;
3. the safety halves of the liveness properties: a measure that each step of `AllAnswered` and
   `SignalsEndIt` lowers, proved as an action property.
