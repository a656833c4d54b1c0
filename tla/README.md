# Verification of the notification service

TLA+ models of the notification service: what a delivery goes through from `Send` to its receipt
or its removal, with several replicas, concurrent clients, failing databases and providers,
crashes and shutdowns; and, each on its own, the catalogue of templates and providers it depends
on, the admission of requests and the idempotency gate in front of it, the outbound clients and the
outbox relay behind it, and the start and stop of the replicas that run it all. TLC checks the
models on small instances; TLAPS proves every safety property the runs check, and the refinement, for
every number of replicas, clients, deliveries and every bound. Liveness is checked by TLC alone.

## The system

Every replica of the service runs the same process: an HTTP and a gRPC server, a dispatch
worker, a retention cleaner, an outbox relay and a scheduler, over one SQL database, Redis and
NATS. All state that matters is in the database; replicas coordinate only through it.

| Component | State | Operations | Interacts with | What is hard |
|---|---|---|---|---|
| Delivery store (`internal/notification/repository.go`) | `notification_deliveries`, `notification_outbox_events` | insert, claim due, finish, delete expired | everyone | row locks, optimistic versions, commit errors |
| Send, RecordReceipt (`service.go`) | none of its own | look up, then write in a transaction | store, limiter, templates | the gap between the read and the write; clients that retry |
| Dispatch worker (`dispatcher.go`) | the claimed batch, in memory | claim, render, send, record the outcome | store, providers | crash or stop in the middle of a batch, lost answers, dropped errors |
| Retention cleaner (`cleanup.go`) | none | select expired, delete | store | two statements without a transaction, several replicas |
| Templates and providers (`service.go`) | two versioned tables | put (read, then optimistic write), get, list | Send, worker | lost updates; a template that changes under a delivery |
| Outbox relay (`internal/app/eventbus.go`) | leases on outbox rows | publish, mark, clean | store, NATS | redelivery, order |
| HTTP idempotency gate (`transport/http/middleware.go`) | expiring records in Redis | begin, complete, fail | handlers | expiry while the handler runs, stored failures |
| Outbound clients (`internal/outbound`, `internal/grpcclient`) | a circuit breaker per upstream | call with retries | worker, application checks | retries of non-idempotent calls, breaker accounting |
| Transports, authentication, authorization (`internal/transport`, `internal/auth`) | the request's context | the chain of middleware or interceptors, then the service's own checks | everyone | two chains that must agree, routes without tokens, the order of checks, answers that are lost |
| Rate limiter (`internal/ratelimit`) | buckets in Redis | allow | Send, HTTP | fail open or closed, partial charges |
| Scheduler and lock (`internal/scheduler`, `internal/cache`) | an expiring lock in Redis | run job | replica | expiry while the job runs |
| Schema migrations (`internal/migration`) | schema, version and dirty flag, advisory locks | create schema, up | replica | replicas of several releases that start together, crash half-way |
| Application (`internal/app`, `cmd/api`) | which hooks have started | migrate, construct, start, stop | everything in the process | order of start and stop, failed starts, work in flight at shutdown |
| Health, configuration, logging, metrics, tracing | none | - | - | - |

What makes each of them correct:

* store and pipeline: one delivery per (tenant, application, key); a claimed delivery has one
  owner; nothing rewrites a terminal delivery; the outbox carries every outcome, in order;
* worker: at most one accepted message per attempt, at most `max_attempts` attempts, nothing
  stranded by a graceful stop, everything settled in the end;
* receipts: a confirmed receipt is never undone;
* cleaner: everything sent or dead is removed in the end, nothing else ever;
* catalogue: no lost update, templates that outlive the deliveries that use them, providers the
  dispatcher accepts; gate: one handler per key while its record lives, genuine replays, keys
  that are released; outbound client: unsafe calls made once, a bounded load on a failing
  upstream; relay: at least once, and again only for a fault;
* admission: nothing is read or written without an entitled author, budgets are spent by their
  owners, limits that fail closed hold, refusals are true;
* replica: nothing is used after it is closed, no replica serves a schema older than itself, the job
  overlaps only past its lock, every start and stop ends.

## Modules

| Module | Models | State |
|---|---|---|
| `DeliveryStore` | the two tables and the statements on them, the clock | `rows`, `events`, `now`, `disruptions` |
| `Dispatcher` | the worker of each replica | `workerPc`, `cancelled`, `batch`, `current`; history `sends`, `orphans` |
| `NotificationService` | calls of `Send` and `RecordReceipt` in progress | `request`, `receiptId`, `receiptRow`; history `replies`, `confirmed` |
| `RetentionCleaner` | the cleaner of each replica | `cleaning`, `doomed`, `before`; history `left` |
| `NotificationSystem` | all of them over one database, and the properties | the variables above |
| `DeliveryLifecycle` | the abstract life of a delivery | `phase`, `tries` |
| `MCNotificationSystem` | symmetry for TLC | |
| `NotificationSystemProofs` | the proofs about claims, rows, keys and receipts | |
| `DeliveryHistoryProofs` | the proofs about owners, copies sent, events and replies, and the refinement | |
| `Catalog` | `PutTemplate`, `PutProvider`, the reads of `Send` and `deliver`, replicas of several configurations | `configurations`, `table`, `edit`, `accepted`, `attempt`; history `written`, `acks` |
| `IdempotencyGate` | all requests of one idempotency key | `record`, `pc`, `startedAt`, `outcome`, `answer`; history `latest` |
| `OutboundClient` | the callers of one HTTP or gRPC upstream in one replica | `protocol`, `mode`, `failures`, `probing`, `generation`, `reopensAt`, `call`; history `wasted`, `since` |
| `RequestAdmission` | requests over HTTP and gRPC, the limits and the checks of the service | `policy`, `request`, `tokens`, `deliveries`; history `accepted`, `refills`, `errors` |
| `SchemaMigration` | `migration.Run` of each replica over one database | `schema`, `schemaLock`, `version`, `dirty`, `migrationLock`, `step`, `seen` |
| `JobLock` | the scheduled job of each replica and its lock | `lock`, `job`; history `overdue` |
| `Replica` | start, work and stop of the replicas, with the two above | `config`, `phase`, `count`, `busy`, `boots` |
| `OutboxRelay` | the event runtime of each replica | `row`, `stream`, `remembered`, `running`, `looping`, `bus`, `batch`, `sent`; history `faults` |
| `MCCatalog`, `MCIdempotencyGate`, `MCOutboundClient`, `MCRequestAdmission`, `MCReplica`, `MCOutboxRelay` | constants and symmetry for TLC | |
| `CatalogProofs`, `IdempotencyGateProofs`, `OutboxRelayProofs`, `ReplicaProofs`, `RequestAdmissionProofs`, `OutboundClientProofs` | the proofs | |

Only `Replica` composes again: it extends `SchemaMigration` and instantiates `JobLock`. The other
models share no state with the pipeline and are separate specifications: `Dispatcher` and
`NotificationService` take any outcome of a template lookup, a provider choice, a limit or a call;
admission and the idempotency gate only decide whether a handler runs; the relay starts from rows
that the pipeline's transactions inserted, and `Replica` says when the worker, cleaner and relay run.

Correspondence with the code:

* A row keeps the columns some guard reads: identity (tenant, application, key), status,
  attempts, next attempt, version, update time, and the pair (provider, provider message id) as
  one value `ref`. Template code, recipient, variables and failure reason are carried, never
  read, and left out. Time is a natural number of ticks shared by all replicas.
* A transaction takes effect at its commit, in one step. The claim transaction is two steps,
  `ClaimSelect` (the SELECT and the UPDATEs, holding row locks) and `ClaimCommit`, since other
  actors can run between them and `SKIP LOCKED` is about exactly that. A commit that takes
  effect but reports an error is a step of its own wherever the code reacts to it
  (`ClaimCommitUnreported`, the second disjuncts of `SendInserts` and `ReceiptFinishes`).
* Each call of `Send` or `RecordReceipt` is a read step and a write step, with anything in
  between. Refusals (validation, tenant, limiter, template) after the read are `SendRefused`;
  before it they change nothing.
* A worker goroutine's control point is `workerPc`: `idle` between two calls of `RunOnce`,
  `claiming` in its transaction, `working` between deliveries, `sending` in `Sender.Send`,
  `finishing` before the outcome transaction, `stopped`. `cancelled` is the context `stop`
  cancels; the outcome transaction ignores it (`context.WithoutCancel`). `batch` holds the local
  copies, edited in place as in the code, and `DeliverFinish` writes the copy back.
* `sends` counts messages a provider accepted. A failed call may have been accepted. The
  outbound client makes one attempt per call here, because the worker's context carries no
  idempotency key (`internal/outbound/http.go:98-101`).
* `orphans` records the deliveries a worker lost: to a crash, to a commit it believed failed, or
  to a failed outcome transaction, whose error the code drops.
* `Unused` models `uuid.NewString`: ids are never reused.
* A call of `clean` goes on from one batch to the next while it deletes full ones and returns after a
  short or an empty one. `cleaning` tells its later batches from a new call, which the ticker makes.
  `left` records what the last SELECT's limit left out; no guard reads it. A call that finds nothing at
  once changes nothing and has no step.
* A put in `Catalog` is a read step and a transaction. Its content is what an edit may change; a
  template's text is an opaque value that parses joined, apart, both or neither. `expected` is any
  version: the code compares it with the row only in the UPDATE for templates, before it as well
  for providers. A commit that reports an error is the second disjunct in `Write`.
* A configuration in `Catalog` is the set of upstreams that are both in `outbound.http` and in
  `notification.provider_upstreams`. A process reads it once, so `Deploy` adds to the configurations replicas may run
  under, and each put and each attempt is made under one of them: a rollout, a rollback, or a provider
  stored before its upstream was taken off the list.
* `IdempotencyGate` starts each request at `Begin`; key validation, disabled idempotency and other
  methods pass straight through. `Begin`, `Complete` and `Fail` are one step each, since the
  library runs a script in Redis. The request itself stands for its owner token.
* `Tick` there lets no handler run beyond `RequestTimeout`: `Timeout` cancels the context, and
  handlers are assumed to return when it is cancelled, as all their database and Redis calls do.
* `OutboundClient` has one step per attempt and per back-off. The circuit breaker is gobreaker,
  modelled from its settings in `NewHTTPClient`: closed, open until `reopensAt`, then half open for
  one call; results of an older generation are dropped. Whether a cancelled (excluded) probe makes
  room for another is left open. A call with a path that is not relative fails inside the breaker
  and counts (`PathRefused`). A disabled breaker leaves only the retry loop.
* The gRPC client is the same machine with other inputs: what `Repeatable` allows, a deadline
  (`DeadlineExceeded`) that counts but is not retried, and the codes `IsExcluded` names, which never
  reach the breaker. Whether the library asks `IsExcluded` about a success is left open: both
  `AttemptSucceeds` and `AnswerExcluded` are steps for it. `waitRetry` returns the bare context error,
  whose code is Unknown, so a call that times out in back-off is excluded (`RetryGivesUp`).
* `RequestAdmission` gives a request the list of checks before it (`HTTPChain` or `GRPCChain`, then
  `ServiceChain`) and takes them off one by one; an answer ends the list. Header, media type and
  origin filters come first and refuse before anything else happens (`KeyRefused`, `Filtered`).
  gRPC has no limits per address, route or user. The idempotency interceptor of gRPC is the
  library's, as `Gate`. A local token (no JWKS) carries no tenant, so `enforceTenant` refuses it
  everywhere. `grpcError` knows seven codes; too many requests, stale version, in progress and
  timeout become Internal. Panics and the HTTP timeout may end a request at any point, after its work too.
  `/version` and `/me` have no requirement, touch no notification and are left out. Retention does
  not delete there, so the table only grows.
* `SchemaMigration` takes `createSchema` in its four statements, since it is written for replicas that
  run it at the same time; `Collides` is what PostgreSQL does to the second of two transactions that
  create one schema. `Up` is golang-migrate's: lock, dirty before each file and clean after, refusal of
  a dirty version or of one it has no file for. A replica of an older release that restarts after a
  newer one migrated is therefore refused, where `src/README.md:199` speaks of later replicas that
  observe `ErrNoChange` and continue; and one crash in the middle of a file stops every later start until an
  operator mends it.
* In `JobLock` the holder's name stands for the random token redsync stores. The job itself is one
  interval; it never calls `Extend`, which `src/README.md:120` asks of long jobs. Without Redis there is no
  locker, and every replica runs the job.
* `Replica` lists the hooks in the order fx builds them (`Hooks`): the logger and the tracer, which
  nothing modelled uses, are left out, and a disabled part is a hook that does nothing. A constructor
  failure runs no stop hook and leaves open pools to the end of the process. A server whose `Serve` fails later
  only logs, and its hook is stopped as usual. `busy` is one activity per hook, a round or a request, and
  `MaxBusy` bounds how many are in flight at once.
* `OutboxRelay` models a round of the library's dispatcher as a lease on a batch and, per event, publish
  then mark. The stream drops a second copy of an event it remembers; `WindowPasses` makes it forget at
  any time, which is weaker than the configured window. Leases end at any time, as a fault when the round
  still has the event.

## Runs

One cfg per question, over the MC module of the specification:

| Run | Instance | Checks |
|---|---|---|
| `dispatch` | 2 workers, 2 deliveries, batches of 2, 2 attempts, time 0-3, 2 disruptions | `TypeOK`, `ExclusiveClaim`, `ProcessingIsOwned`, `SendsBounded`, `RefIffSent`, `EventsMirrorRows`, `OrphansAreStuck` |
| `lifecycle` | 2 workers, 2 senders, 2 receipts, 1 cleaner, 2 ids, 1 key, 2 attempts, time 0-4 | `ReceiptsAreKept`, `OneDeliveryPerKey`, `RepliesAreKept`, `TerminalIsFinal`, `ImplementsLifecycle` |
| `settles` | 1 worker, 1 sender, 2 cleaners with batches of 1, 2 ids, 2 keys, time 0-3, fair specification | `DeliveriesSettle`, `RetentionIsHonoured`, `RoundsAreComplete` |
| `key_is_global` | 2 applications | violated: `KeyIsGlobal` |
| `successes_expire` | fair specification, 1 receipt | violated: `SuccessesExpire` |
| `catalog` | 2 administrators, 1 template, 1 provider, 2 versions, 1 delivery, 2 upstreams, a configuration that allows one of them and one that allows none | `EditsAreSerial`, `TemplatesOutliveDeliveries`, `RoutesFollowConfiguration` |
| `template_syntax` | texts that parse joined only | violated: `StoredTemplatesParse` |
| `gate` | 3 requests, 2 fingerprints, a timeout beyond the processing TTL, fair specification | `ReplaysAreGenuine`, `NewestOwnerKeepsRecord`, `OneHandlerPerKey`, `KeysAreReleased` |
| `outbound` | either protocol, 3 callers, 2 attempts, threshold 2, time 0-5 | `UnsafeCallsAreMadeOnce`, `LoadIsBounded` |
| `admission` | every valid policy, 2 requests, 3 operations (one open to the pre-shared key, one to anyone), 1 user, 2 tenants, 2 keys, 1 refill, 1 limiter error | `TypeOK`, `EffectsAreEntitled`, `BudgetsAreGuarded`, `RateIsBounded`, `RetriesAreFree`, `RefusalsAreTrue` |
| `replica` | 2 replicas of releases 1 and 2, every configuration of migration and Redis, 3 boots, 1 activity beside the jobs, fair specification | `TypeOK`, `OpenWhileUsed`, `ServesItsSchema`, `NoSchemaCollision`, `JobsOverlapOnlyOverdue`, `StartsAndStopsEnd` |
| `relay` | 2 replicas, 2 events, batches of 2, 3 faults, fair specification | `BusOpenWhileUsed`, `NothingIsLost`, `DuplicatesNeedFaults`, `EventsArrive` |

The types of `Catalog`, `IdempotencyGate`, `OutboundClient` and `OutboxRelay` are not checked by a run: they
are proved, as a conjunct of their inductive invariants.

What they show, in the order of the hazards in `PROJECT.json`:

* Two replicas never hold one delivery. Up to a crash, an unreported commit or a failed outcome
  transaction, a delivery in `processing` has a worker; in particular a graceful stop strands
  none, although it spends an attempt of each delivery left in the batch.
* A stranded delivery stays as it is for ever: claims, receipts and the cleaner all pass it
  over, and nothing in the program looks for it. `OrphansAreStuck` states this as a fact about
  the program, `ProcessingIsOwned` that nothing else gets into that state.
* Recipients get at most `max_attempts` copies, one per attempt.
* Of two racing receipts one wins and the other is told so; a receipt and the cleaner never
  destroy each other's work.
* The cleaner works off a backlog of any number of batches in one call. It returns early only when a
  statement fails, or when another replica or a receipt got to a row of its batch; later calls then
  remove what is left.
* An administrator who is told that his edit made version n made the n-th write of the row. A
  delivery finds its template at every attempt, possibly a newer or a disabled one: `deliver` does
  not look at the status, and the code promises nothing about what was changed since `Send`.
* The dispatcher refuses the provider it picks only where two configurations differ about the upstream;
  it then fails the attempt and tries no other provider. Under one configuration this never happens
  (`OneConfigurationResolves`).
* A handler that outlives its idempotency record may run beside a second one, but never overwrites
  that one's record. With a request timeout below the processing TTL it cannot happen
  (`TimeoutBelowTTLExcludes`).
* A call without idempotency key to a POST endpoint is made once, which `Dispatcher` takes for
  granted. To the breaker a whole retry loop is one call, so a failing upstream gets up to
  `max_attempts` requests for each failure counted, and no more than `LoadIsBounded` says; gRPC calls
  that time out while they back off, and cancelled calls, are not counted by the breaker nor there.
* Whichever way a request comes in, and on routes that skip authentication too, what it reads or
  writes has an author who may act for the tenant, an application that was verified, and in production the
  authorizer's permission. Tokens of a tenant's three sending buckets are spent only by such requests, a
  repeated `Send` spends none, and with a limiter that fails closed the accepted `Send`s of both
  transports together stay within every bucket. An answer a client reads as a refusal is never given for
  work that was done: lost commits and timeouts are 5xx, Internal or Unavailable.
* Replicas of two releases may start together in any order, crash and restart: none makes another fail
  on the schema, none serves a schema older than its own, and each comes to run or exits. Through
  every stop and rollback of a start, pools and clients outlive what uses them; the order comes from
  what the constructors ask for, not from the list of modules (`Hooks_ByModule` breaks it).
* The job runs twice at once only when a run outlived its lock, and an unlock never frees a lock
  that is not its own.
* The relay publishes before it marks and marks before it cleans, so nothing is lost; each extra copy a
  consumer may see is owed to a fault, never to two relays working side by side.

The violations:

* `key_is_global`, `successes_expire`: `src/README.md:5` says otherwise. The key is unique per
  application, not per tenant, and delivered, bounced and failed records are never removed.
* `template_syntax`: `PutTemplate` parses subject and content joined, `deliver` renders them apart.
  A template with an `{{if}}` opened in the subject and ended in the content is accepted and no
  delivery can be rendered from it.

Bounds. Two of each racing kind of actor show every pairwise race; two ids let a key be used
again after retention removed its delivery, and are a backlog of two for batches of one; two attempts are the fewest with a retry and a last
attempt; time is bounded so that a retry's back-off (one and two ticks) and a retention period of
one tick both elapse. `MaxDisruptions` bounds crashes, stops, database errors and unreported
commits; two let one failure meet another. In `Catalog` two versions are an insert and an update,
an active and a disabled status tell two edits apart, and two configurations, either of them first, are a
rollout that allows an upstream or forbids it; with one provider the order of candidates
is left to the proof. In `IdempotencyGate` the TTLs of one and
two ticks expire within the five of the clock, and three requests are an owner, the one that takes
over and the one that is answered. In `OutboundClient` the breaker can open, probe, close and open
again within the time. `CHECK_DEADLOCK FALSE` is given where the instance ends: requests are made
once, and the clock stops with the breaker open. In `RequestAdmission` two requests are the pair that
races for a key or a token, a burst of one is the tightest limit and, with one refill, one more Send than the
burst; each operation stands for a class: limited, behind the pre-shared key, open to anyone. In
`Replica` three boots are two replicas and a restart, and two releases make a migration by one while
the other serves. In `OutboxRelay` three faults let a failed publish meet a stop and a crash, and two
events make a batch. Symmetry is used only in runs without liveness.

Fairness (`settles`, `gate`, `replica`, `relay`). A worker or cleaner that is not disrupted keeps taking steps:
goroutines run, `http.Client` has a timeout, and a ticker calls `RunOnce` and `clean` again.
Time passes. Nothing is assumed of clients, of restarts, or of which of its steps a worker takes
(a provider may fail every time). In `gate` time passes and the request timeout ends
every handler; nothing is assumed of `Complete` and `Fail`. In `replica` a started hook, a migration
and a job that can go on do so (goroutines run, the advisory locks of dead sessions are released), and
the shutdown timeout ends a stop that hangs; nothing is assumed of signals, requests or new boots. In
`relay` the loops go round on their tickers, leases end, and a replica that stopped is started again, as
the orchestrator does; faults are finitely many. `DeliveriesSettle` excepts deliveries a worker lost and the
case that no worker runs.

## Proofs

`NotificationSystemProofs` holds, for arbitrary constants satisfying the named assumptions
(null values outside their sets, positive `MaxAttempts`, `RetryBase`, `BatchSize`, `Retention`,
`CleanupBatchSize`, which the constructors enforce; finitely many ids, as UUIDs are):

| Theorem | Statement |
|---|---|
| `TypeOKHolds` | `Spec => []TypeOK` |
| `PipelineInvariant` | `Spec => []PipelineInv` |
| `ClaimsAreExclusive` | `Spec => []ExclusiveClaim` |
| `TerminalStaysFinal` | `Spec => TerminalIsFinal` |
| `KeysAreUnique` | `Spec => []OneDeliveryPerKey` |
| `ReceiptsStay` | `Spec => []ReceiptsAreKept` |
| `RoundsStayComplete` | `Spec => RoundsAreComplete` |

`TypeInv` is `TypeOK` with `LocalStateOK` (the worker in `deliver` has a delivery in hand), which
the type of `rows` after `Finish` depends on. `PipelineInv` adds, for each worker and delivery,
`ClaimSound` (an open claim transaction has locked a waiting row alone, and its copy is what the
UPDATE will make of it) and `HoldSound` (a held row is processing, has one holder, and the
holder's copy has its version); for each row `RowSound` (it names a message exactly when it was
sent, and waits only with attempts left); for each pending receipt `ReceiptSound` (its copy is
never newer than the row, and if it is as new, the row is still `sent`). `ExclusiveClaim` alone is
not inductive: a second claim of a held row is excluded only because the first made its status
`processing`, and a receipt or deletion of a held row only because `ref` and status go together.

The step proof has one lemma per action or group of actions, framed by `TablesFrame`,
`WorkersFrame`, `OwnStateFrame` and `OthersFrame`. `RowSteps` then says what any step may do to a
row (leave it, remove it when sent or dead, advance an open row keeping its identity, insert it
under a free identity), from which `TerminalStaysFinal`, `KeysAreUnique` and `ReceiptsStay` follow.
`RoundsStayComplete` rests on `BatchSound` instead: a SELECT that left something out has filled its batch,
so a DELETE that finds all of it counts `CleanupBatchSize` rows and `clean` goes on.

`DeliveryHistoryProofs`, which extends it under the same assumptions:

| Theorem | Statement |
|---|---|
| `HistoryInvariant` | `Spec => []HistoryInv` |
| `ProcessingStaysOwned` | `Spec => []ProcessingIsOwned` |
| `CopiesStayBounded` | `Spec => []SendsBounded` |
| `RefsFollowSends` | `Spec => []RefIffSent` |
| `OrphansStayStuck` | `Spec => OrphansAreStuck` |
| `EventsTell` | `Spec => []EventsMirrorRows` |
| `RepliesStay` | `Spec => []RepliesAreKept` |
| `PipelineImplementsLifecycle` | `Spec => ImplementsLifecycle` |

The argument looks at one delivery. Every step of every actor leaves its row and events the `Same`, or
is one of five (`DeliveryStep`): `IsClaimed`, `IsSettled` by the worker that holds it, `IsAcknowledged`,
`IsInserted`, `IsPurged`. `HistoryInv` adds to `PipelineInv` that a delivery in `processing` is
held or lost (`OwnedSound`), that a lost one is held by nobody (`OrphanSound`, without which a worker could
still settle it), and that a delivery held and not yet tried has been sent less often than it has been
attempted (`SendsSound`: `SendsBounded` alone says nothing of the attempt in hand, which may add a copy).
That the events mirror the row, and that an acknowledged delivery stays, are then inductive for a
`DeliveryStep`. For the refinement each of the five is an action of `DeliveryLifecycle`: a claim
is `Try`; a settlement `Succeed`, `Retry` or `GiveUp` by the status it writes, and it gives up only after the
last attempt; a receipt is `Acknowledge`, an insertion `Accept`, a deletion `Purge`.

`CatalogProofs`:

| Theorem | Statement |
|---|---|
| `CatalogInvariant` | `Spec => []CatalogInv` |
| `EditsStaySerial` | `Spec => []EditsAreSerial` |
| `TemplatesStay` | `Spec => []TemplatesOutliveDeliveries` |
| `RoutesFollow` | `Spec => []RoutesFollowConfiguration` |
| `OneConfigurationResolves` | with one configuration, `Spec => []` no attempt ends on a refused upstream |

`CatalogInv` adds to these properties `VersionsCount` (a row's version is the number of writes to
it, which is what makes an UPDATE of version n the (n+1)-th write), `UpstreamsPassed` (whatever
provider is stored, or about to be, has passed the check under a deployed configuration) and
`AttemptsFollow`.

`IdempotencyGateProofs`:

| Theorem | Statement |
|---|---|
| `GateInvariant` | `Spec => []GateInv` |
| `ReplaysStayGenuine` | `Spec => []ReplaysAreGenuine` |
| `NewestOwnerKeeps` | `Spec => []NewestOwnerKeepsRecord` |
| `HandlersExclude` | `Spec => []OneHandlerPerKey` |
| `TimeoutBelowTTLExcludes` | if `RequestTimeout < ProcessingTTL`, no two handlers ever run at once |

`GateInv` adds `OutcomesFollow` (a handler has an outcome once it answered), `ResultsAreAnswers`,
`HandlersAreTimed` (no handler runs beyond the request timeout) and `HandlersOwn` (the record of a
handler within its TTL is its own and expires with the TTL), from which exclusion follows: two such
handlers would both own the record.

`OutboxRelayProofs`:

| Theorem | Statement |
|---|---|
| `RelayInvariant` | `Spec => []RelayInv` |
| `NothingIsEverLost` | `Spec => []NothingIsLost` |
| `BusStaysOpen` | `Spec => []BusOpenWhileUsed` |
| `CopiesNeedFaults` | `Spec => []DuplicatesNeedFaults` |

`RelayInv` adds to `NothingIsLost` that what a round is about to mark is in the stream
(`SentIsAccepted`), and that what the stream remembers is in it (`RememberedIsAccepted`): publishing a
remembered event adds no copy, so nothing else would say that it has one. `RoundsAreInLoops` and
`LoopsHaveBus` (a round belongs to a loop that has not returned, and such a loop is connected) give the
other property.

Counting copies against faults is not inductive: the step that adds the copy is not the fault. `CopiesSound`
charges an event with its copies, the rounds that may still publish it and the rounds that are being
cancelled (`Charged`), and keeps that sum within the faults and the one free copy; an event that may be leased
again has no free copy left. Each fault pays in advance for the one copy it may lead to. Nothing is
assumed of the number of replicas: the rounds on one event are finite because only faults make them.

`ReplicaProofs`, from `ReleaseAssumption` (releases are positive) and the bounds of the instance:

| Theorem | Statement |
|---|---|
| `ReplicaInvariant` | `Spec => []ReplicaInv` |
| `ReplicaTypes` | `Spec => []TypeOK` |
| `JobsOverlap` | `Spec => []JobsOverlapOnlyOverdue` |
| `SchemasDoNotCollide` | `Spec => []NoSchemaCollision` |
| `SchemasAreServed` | `Spec => []ServesItsSchema` |
| `OpenUntilUnused` | `Spec => []OpenWhileUsed` |

`ReplicaInv` has a part for each: `RunHoldsLock` (a run that has not outlived its lock still has it),
`CreatesAlone` (from the look to the commit `createSchema` holds its advisory lock, so what it saw is
still true), `MigratesAlone` and `DoneIsReady` (`Up` works under its lock and marks the version dirty first; once
a replica has found or made its version, a later migration only goes further), and `ActiveIsStarted` (what is in
flight belongs to a hook that has started and not stopped), which with the positions of the hooks says
that whatever it uses was started before it and is stopped after it.

`RequestAdmissionProofs`, from `AdmissionAssumption` (which includes the rules `Validate` enforces):

| Theorem | Statement |
|---|---|
| `AdmissionInvariant` | `Spec => []AdmissionInv` |
| `AdmissionTypes` | `Spec => []TypeOK` |
| `EffectsStayEntitled` | `Spec => []EffectsAreEntitled` |
| `BudgetsStayGuarded` | `Spec => []BudgetsAreGuarded` |
| `RateStaysBounded` | `Spec => []RateIsBounded` |
| `RetriesStayFree` | `Spec => []RetriesAreFree` |
| `RefusalsStayTrue` | `Spec => []RefusalsAreTrue` |

Both transports, every policy and every operation are one argument, because every chain is sorted by
one order of the stages (`Rank`, `Chains`). For a request on its way `Established` says that what a
stage checks holds once that stage is not ahead, `ChargesSound` what may have been charged by then,
and `WorkedLast` that only the answer is left once the service has worked. `AdvanceKeeps` proves them of one
stage passed, and each action only says which. The rate needs the tokens to be accounted for:
`BudgetSound` keeps, per bucket, the accepted `Send`s, the tokens held by requests that have not worked yet
(`Paid`) and those in the bucket within the burst and the refills. The requests need not be finitely many.

`OutboundClientProofs`, from `PolicyAssumption` (the ranges of `validateClientPolicy`, and callers that are
finitely many and not none: with none the bound would be below zero):

| Theorem | Statement |
|---|---|
| `ClientInvariant` | `Spec => []ClientInv` |
| `ClientTypes` | `Spec => []TypeOK` |
| `UnsafeCallsStayAlone` | `Spec => []UnsafeCallsAreMadeOnce` |
| `LoadStaysBounded` | `Spec => []LoadIsBounded` |

`CallsSound` ties a call's requests to its attempt, and both to what may be repeated. `BreakerSound` says
which calls the breaker still hears: none of an open breaker's generation, one at most of a half-open
one's, and that one is its probe. `LoadSound` accounts for the requests as those of some number of failed
calls. While the breaker is closed these are the ones it has counted and the calls of earlier
generations (`Stale`) that have ended; once it is tripped, the threshold, the calls in flight then, and
one probe for each `OpenTimeout` that has passed since the last success. `LoadIsBounded` alone is not
inductive, since it does not know how many calls of earlier generations may still fail.

Only model-checked: the liveness properties `DeliveriesSettle`, `RetentionIsHonoured`, `KeysAreReleased`,
`StartsAndStopsEnd` and `EventsArrive`, since fairness is out of the prover's reach; and that the three
properties of the violated runs fail, since that is a matter of one behaviour.

## Not modelled, and the plan

Next: corollaries that join the proofs, such as a bound on the copies a recipient gets from one `Send` over
the pipeline and the outbound client together; and the action properties behind the liveness runs
(what a step may never undo on the way to a settled delivery or an ended stop), which are within the
prover's reach where liveness is not.

Left out:

* Health probes: two pings made afresh for each probe; nothing in the program reacts to them.
* `Down` and `Steps` of the migrations, which only an operator runs; connection URLs and TLS files.
* Loading of the configuration and its defaults. The conditions of `Validate` that a model relies on are
  its assumptions or its set of configurations (`ValidRules`, `Valid`, `ValidPolicy`, `Init` of `Replica`).
* `/live`, `/ready`, `/version`, `/me`, `/metrics`, swagger and pprof; the stream interceptors of gRPC
  (the service has no streaming method); `Locker.Lock`, `Lock.Extend` and `auth.Service.Issue`, which
  nothing in the program calls.
* Rendering, encoding and the wording of answers; logging, metrics, tracing and request ids. Libraries
  (SQL, Redis, NATS, fx, golang-migrate, the breaker) appear only through the behaviour the code
  relies on.
* Which of two deliveries a receipt with an ambiguous message id is matched to, and which failures the idempotency
  gate keeps: the code promises neither (see `PROJECT.json`, hazards).
