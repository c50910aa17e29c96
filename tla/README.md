# Notification service of the Prefeitura do Rio: verification project

The service receives signed webhooks about municipal service requests, stores each as a
notification in Postgres, announces it through Redis to the citizens that are connected
over WebSocket, and serves the stored notifications over REST. It runs as several equal
replicas of `cmd/api`. Webhooks that cannot be stored go to a dead-letter queue in Redis,
from which a worker in every replica retries them. Calls to Postgres and Redis pass through
circuit breakers.

This directory holds TLA+ models of the parts where replicas, goroutines, retries and
failures meet, the TLC configurations that check them, and TLAPS proofs.

| file | what it is |
|---|---|
| `NotificationLedger.tla` | abstract specification: what ingestion promises |
| `Backoff.tla` | the attempts of a queued event and the waits between them |
| `Ingest.tla` | webhook handler, table, dead-letter queue, retry worker, publisher, replicas that stop and crash |
| `MCIngest.tla`, `MCIngest_*.cfg` | its TLC instances |
| `IngestProofs.tla` | theorems about it, refinement included |
| `Breaker.tla` | a dependency behind its circuit breaker, with the connection pool |
| `MCBreaker.tla`, `MCBreaker_*.cfg` | its TLC instances |
| `BreakerProofs.tla` | theorems about it |
| `BackoffProofs.tla` | theorems about `Backoff` |
| `Outage.tla`, `MCOutage.tla`, `MCOutage_*.cfg` | composition in time: the retries of `Backoff` over the breaker of `Breaker` |
| `OutageProofs.tla` | theorems about it, refinement included |
| `Delivery.tla`, `MCDelivery.tla`, `MCDelivery_*.cfg` | WebSocket delivery and its TLC instances |
| `DeliveryProofs.tla` | theorems about it |
| `Inbox.tla`, `MCInbox.tla`, `MCInbox_walk.cfg` | the REST API over the table, and its TLC instance |
| `InboxProofs.tla`, `WalkProofs.tla` | theorems about it; the second follows a client over its pages |
| `Lifecycle.tla`, `MCLifecycle.tla`, `MCLifecycle_signal.cfg` | start and end of the process, and its TLC instance |
| `LifecycleProofs.tla` | theorems about it |
| `PROJECT.json` | the map from definitions to source lines, runs, mutants, findings, hazards, theorems |

Run with `tlc -config MCIngest_faults.cfg MCIngest` and `tlapm IngestProofs.tla`, and so on.

## Inventory

| component | state | operations | interacts with | what makes it correct |
|---|---|---|---|---|
| **Webhook ingestion** `internal/webhook/handler.go` | the request's context and position | read body, verify signature, parse, validate, insert, then publish or enqueue, answer | storage, publisher, queue; all under the request's context | a 2xx means stored; a failed insert is queued if Redis allows; a duplicate is not published again |
| **Storage** `internal/storage/notification.go` | table `notifications`, `event_hash` unique | `Insert` (ON CONFLICT DO NOTHING), `List`, `MarkRead`, `CountUnread`, `FindByID` | handler, worker, REST | one row per body; one caller gets the new row; a citizen reads and marks only his own |
| **Dead-letter queue** `internal/dlq/dlq.go` | ZSET of retries, list of dead entries | `Enqueue`, `enqueueAt`, `dequeueReady` (script), `MoveToDead` | handler, workers of all replicas | an entry is in one place, unless Redis runs a ZADD twice; it is never lost |
| **Retry worker** `internal/dlq/worker.go` | the entry in hand | poll, pop, insert, re-enqueue with backoff, bury, publish | queue, storage, publisher; under the process's context | every entry ends stored or dead, not before the backoff schedule is over |
| **Publisher** `internal/broadcast/publisher.go` | none | `Publish` to the citizen's channel | handler, worker, Redis | at most one call per event, after the commit |
| **Circuit breakers** `internal/circuitbreaker` | state, counts, generation (gobreaker) | `Exec`, `Query`, `QueryRow` then `Scan`; `ProcessHook` | every call to Postgres and Redis | absence is no failure; never stuck half-open; closes after an outage; leaks nothing |
| **Process lifecycle** `cmd/api/main.go` | phase of `main`, pool, Redis client, tracer, server goroutine | start, SIGTERM, `Shutdown`, deferred closes | all | nothing is served before all is ready; accepted requests are answered, resources closed in reverse, and the process ends |
| **WebSocket delivery** `internal/ws`, `internal/broadcast/subscriber.go` | subscription, channel of 16, three goroutines per connection | subscribe, forward, write, ping, close | Redis, client | a citizen gets only his messages, in order; all goroutines end |
| **REST** `internal/notification/handler.go`, `internal/httputil` | none of its own | list, mark read, unread count | storage, auth | isolation between citizens; following the pages misses nothing; the unread count agrees with the acknowledged marks |
| **Authentication** `internal/auth` | none | check the token, derive the citizen reference | REST, WebSocket | no request passes without a valid token |
| **Configuration**, **router**, **pool and migrations**, **telemetry** | read once or static | start-up only, and the closing of pool and tracer | main | no start without the required variables |
| **mock-idp, k8s, k6, test helpers** | | tools and deployment | | |

The behaviours that are hard to get right here:

- *Duplicates.* The sender re-sends, replicas handle re-sendings at the same time as
  workers retry the original; only the unique index separates them.
- *Half-done calls.* A statement may commit, or a Redis command run, and its caller get an
  error; go-redis sends a command again whose reply was lost, when others have acted on the first.
  The insert and the publication are two calls, and so are the pop and what follows it.
- *Contexts.* A handler's calls share the request's context, which dies with the client; the
  worker's calls share the process's, which dies with SIGTERM. What follows a cancellation
  fails as well, the clean-up included.
- *Time.* Entries become ready later, breakers expire and are noticed only at the next call.
- *Two schedules.* The worker's backoff and the breaker's timeout are set in different files;
  whether an event survives an open breaker depends on both.
- *Pages of a moving table.* Offsets shift with every insertion, and the page and its total come
  from two statements.
- *Nobody joins.* `main` waits for the server's requests for ten seconds, for the worker never,
  and `pool.Close` waits for whoever has a connection.
- *Check, then act.* `QueryRow` asks for the breaker's state, runs the statement, and only
  then, at `Scan`, is the call admitted.

`PROJECT.json` lists these hazards at the lines where they bite.

## Ingest

An action is one call to Postgres or Redis with all the Go code up to the next call; any
other goroutine of any replica may run between two actions.

| state | in the code |
|---|---|
| `pc[d]`, `ctx[d]`, `status[d]` | position, request context and answer of the handler of delivery `d`. `body[d]`, `at[d]` are the body it carries and the replica it is routed to, chosen initially, so that re-sendings to any replica are among the behaviours |
| `wpc[p]`, `hand[p]` | position of the worker of replica `p`, and the entry it took |
| `proc[p]` | `up`; `stopping` after SIGTERM; `down` |
| `rows` | the `event_hash` values of the table. sha256 is taken to be injective, so a body is its hash |
| `retry`, `dead` | the ZSET (entries with scores) and the list (its order is never read) |
| `published[e]` | PUBLISH commands that Redis ran for `e` |
| `queued` | history: deliveries whose event reached the ZSET |
| `late`, `resent[d]` | ZADDs that Redis may run (again) later; history: how often that happened to the entry of `d`. Their sum is bounded by `MaxResends` |

| action | in the code |
|---|---|
| `Receive` | `Handle` up to the insert: body, signature, JSON, payload and timestamp in that order |
| `HandlerInsert`, `HandlerEnqueue`, `HandlerPublish` | its three calls with the answers 200 (duplicate), 500 (insert failed, queued or not), 201 (published or not) |
| `WorkerPop` | `dequeueReady`: the script takes the entry with the smallest score that is ready and removes it. A poll that has no effect is a stutter |
| `WorkerInsert`, `WorkerRequeue`, `WorkerBury`, `WorkerPublish` | `process`, branch by branch |
| `WorkerStop` | `Run` leaves its loop |
| `RunAgain` | Redis runs a ZADD from `late`, whatever its caller was told and whoever took the entry since |
| `Disconnect`, `Sigterm`, `Exit`, `Crash`, `Restart`, `Tick` | the client, the orchestrator and the clock |

`Faults` selects which failures an instance allows:

- `pg`: a statement fails without effect; `pgReply`: it commits and its caller gets an
  error. The second is a lost connection, and also a breaker that refuses `Scan` after
  `QueryRow` has run the statement.
- `redis`, `redisReply`: the same for Redis commands.
- `publishResend`: go-redis resends a PUBLISH whose reply was lost (`MaxRetries`, which `main.go:52`
  leaves at its default), and Redis runs it twice.
- `addResend`: the same for a ZADD. It is not idempotent, because a worker may have removed the
  entry in between: the second run puts it back while the worker holds it, or when it is dead. The
  fault stands also for a ZADD whose caller has given up waiting and which Redis runs late.
  A resent pop is a lost pop followed by a pop, and a resent LPUSH lists a dead entry twice, which
  nothing reads.
- `disconnect`, `sigterm`, `crash`. A context cancelled while a statement runs leaves it
  committed or not.

`Exhausted` and `Delay` of `Backoff` are the attempts and the waits. `Poison` bodies pass the
handler's checks and are refused by Postgres (the "bad data" of `dlq.go:31`); `Malformed` ones are
refused by the checks. `Delay` caps the shifted backoff as the code does. The shift cannot overflow
for the code's constants. All replicas read one `clock`, where each has a `time.Now()` of its own
(`dlq.go:68`, `worker.go:72`): a replica whose clock is ahead takes an entry early by the difference,
and `DeadOutlivedBackoff` would hold up to it.

`NotificationLedger` is the promise: an event is stored once and for good, announced at most
once and never before it is stored. `Ingest` implements it with `stored <- rows` and
`sent <- published`.

## Breaker

One replica's dependency behind its breaker: Postgres behind `cbQuerier` (`Rows = TRUE`) or
Redis behind `RedisHook` (`Rows = FALSE`). Callers are the goroutines that use it. gobreaker
is a library: its state machine is modelled from its use here and marked external in the map.

- `state`, `counts`, `due`, `fresh` are gobreaker's state, counts, passed expiry and the
  callers admitted in the current generation. Counts saturate where no guard tells larger
  values apart. The expiry may pass at any moment and is noticed at the next call, by
  `currentState`.
- `Execute` is `Exec`, `Query` and `ProcessHook`. `QueryRow`, `IssueRow` and `Scan` are the three
  steps of a call for one row: the state is read; the inner `QueryRow` waits for a connection and runs
  the statement on it; the breaker admits the call, or refuses it though the statement has run.
- `holds` are the callers whose row keeps a connection, `broken` those whose row holds an error (the
  statement failed, on its connection or for want of one), `leaked` the connections of rows that
  nobody will scan. A plain call needs a free connection to answer but does not keep it over
  a step. An error of `Query` that pgx reports only when its rows are read never reaches the
  breaker (`postgres.go:45-53`), so that a plain call may succeed while Postgres is down.
- `Return` ends a call with a result, with absence (`pgx.ErrNoRows`, `redis.Nil`) or with an
  error, and gobreaker counts it; the results of callers that are not `fresh` are ignored.
- `errors` is history: the calls that have ended in an error since the start.
- `Troubles` allows outages (`down`) and calls that fail although the dependency is well: data that
  Postgres refuses (`refused`) and contexts that end (`cancelled`).

`RedisHook` returns nil for `redis.Nil`; that the caller of the command still sees `redis.Nil`
is the comment of `dlq.go:70-72`, and the models rely on it.

## Delivery

A connection of `GET /ws` is served by three goroutines: the handler, which writes; the reader,
which notices that the client is gone; and the forwarder inside `RedisSubscriber.Subscribe`. An
action takes one of them from one blocking operation to the next. `select` takes any case that
is ready, so each case is an action.

| state | in the code |
|---|---|
| `log` | what was published; a message is its number, a citizen stands for his channel |
| `hpc`, `writing`; `rpc`; `fpc`, `sending` | positions of handler, reader and forwarder, and the messages two of them hold |
| `msgs` | the channel of 16 (`Capacity`); it is closed exactly when `fpc` is `done` |
| `ctx` | the context made in `Handle`. net/http does not cancel a hijacked request, so only `cancel` does |
| `sub` | the subscription, `on` once Redis has confirmed it |
| `wire`, `inbox` | what Redis sent that the forwarder has not received: unread on the TCP connection, and read by go-redis into its channel (`RedisBuffer`, 100), with the one message that it holds while the channel is full |
| `client`, `received` | the peer |
| `openedAt`, `onAt` | history: what had been published at the upgrade and when Redis confirmed |
| `hit` | history: a slow client has cost the connection a message |

`HandlerReturn` and `ForwarderReturn` contain the deferred calls. `Subscribe` is the end of the
handler's set-up: SUBSCRIBE is sent without waiting for its confirmation (`Confirm`), both
goroutines start. go-redis reads one message after the other (`Receive`), remakes a lost subscription
(`Reconnect`), and gives up a message that found no room for a minute while others wait behind it
(`Discard`). What is unread on a connection is lost with it, when it breaks or is closed; what
go-redis has read survives both. So `MessageArrives` speaks of messages that were read, and
`NothingSkipped` of those published since the subscription was last confirmed. A ping that succeeds
changes nothing and is left out; one that fails is `HandlerPing`. Pongs and deadlines are
abstract: `ReaderFail` may happen as soon as the client is gone or slow. A message published
twice by a resending client is two messages here. `Troubles` selects slow clients, lost and
closed subscriptions, and payloads of other programs on the same Redis.

## Outage

`Outage` puts the handlers, the worker and the queue of one replica over the Postgres breaker and
gives time a length: ticks of 2 s, in which the code's schedule is exact (waits of 1, 2, 4 and 8
ticks, capped at 15; interval 5; timeout 15). The breaker, the pool and their steps are those of
`Breaker` (`Pg == INSTANCE Breaker`), driven by `Insert`; what `Outage` adds is `left`, the ticks to
the expiry that gobreaker sets at every new generation (`Arm`), and the queue with the ticks left
to every entry. A tick passes when its calls are over: a call is taken to be shorter than 2 s, and
the worker to try an entry in the tick in which it is ready, which is the earliest it can.
Redis is well, and REST callers, which would share the breaker, are left out; so is the end of the
worker's context, which `Ingest` has.

A call may fail because the database is down, because it refuses the event (`Poison`), or because
the client has gone (`Disconnect`): the request's context goes on to the statement
(`webhook/handler.go:128`), at any point of which it may end, and the breaker counts the error
(`postgres.go:72-76`). Such a handler queues nothing: under an ended context Redis is not called.
`Opens` marks the steps that open the breaker, from closed or from half-open. Two histories name
good events (not `Poison`): `calm` are those queued after the last outage, in a tick without
trouble until then, and `spared` those of them queued since the breaker last opened. `ImplementsBreaker`
(`Pg!Spec`) says that with time and this traffic the breaker stays one of `Breaker`, so that the
theorems of `BreakerProofs` apply to it.

`RecoveredSurvives` is about `spared` events: given up only for want of a probe (`busy`). It is as
much as the schedule can promise. 2 + 4 + 8 + 16 s of backoff are exactly the 30 s timeout, so that
the fifth attempt of an event that fails just after the breaker opened comes in the tick of the expiry
or later; but if a refused event or a disconnected client fails the probe, the breaker opens for
another 30 s, and an event queued before that has not enough attempts left. `BadEventsIsolated`
asks for more, that `calm` events survive too, and is violated. With calls longer than
assumed here, a row issued before the outage ended may fail under the half-open breaker and open
it again; `Breaker` has those behaviours. Connections leak here as they do there: a pool used up by
leaks leaves calls waiting in their tick, in which the time of the model then stands still.

## Inbox

The REST API over the rows of `table`, while `Insert` adds rows in any order of id and timestamp.

| state | in the code |
|---|---|
| `table`, `read` | the rows, and those with `read = TRUE`. `Owner`, `Stamp` are their `citizen_ref` and `event_timestamp`; a row is the number of its id. `read_at` is left out: nothing reads it |
| `call[k]` | the `List` of client `k` between the page query and `CountAll` |
| `reply` | the last response: status, rows, offset, total or count |
| `walk[k]` | history: what a client that asks for page after page has been shown, what was there when it began, and whether a response told it that there is no more |
| `asked`, `acked` | history: rows whose owner asked to mark them, and had a 200 for it |

Requests other than `List` are one statement and one action, by any citizen at any time, so every
session and every pair of devices is among the behaviours. `Orders` are the sequences that ORDER
BY allows: without the tie-break on `id` rows of one timestamp could come in any order, in a
different one for each statement. `MarkRead` may commit and answer 500. A token is the citizen it
names, or `Nobody` (missing, malformed, expired, without `preferred_username`), whom
`AuthMiddleware` answers 401; HMAC-SHA256 is taken to be injective.

## Lifecycle

`main` as a sequence of phases, each with its failure. `os.Exit` runs no deferred call; a signal
before `NotifyContext` kills; later ones cancel the context, which makes the pings of the start
fail and, once `main` waits, begins `Shutdown`. Around `main` run the goroutine of the server,
whose `ListenAndServe` may find the server already shut down or end the process with an error,
one goroutine for each request (body, then `Insert` with a connection, then a Redis call) and the
worker. `ShutdownReturns` when all requests are answered, or at the deadline (`gaveUp`). Then the
deferred calls: `rdb.Close`, `pool.Close`, which refuses new callers at once and waits for
connections in use, the tracer's shutdown. `leaked` is the leak of `Breaker`: a refused `Scan`.
`spoilt` is history: who found the pool or Redis closed.

WebSocket connections are hijacked, so that `Shutdown` neither waits for them nor closes them, and
no function is registered to: they end with the process, without a close frame.

## Runs

| run | instance | what it shows |
|---|---|---|
| `ingest_faults` | 2 bodies, 2 deliveries, 2 replicas, 2 attempts, every fault but `publishResend`, one ZADD run again | `SoleBroadcaster`, `AcknowledgedIsStored`, `CopiesAreResends`, `OneLossPerFailure`, `TypeOK`, and `ImplementsLedger` |
| `ingest_retry` | a good, a poison and a malformed body, 2 deliveries, 2 replicas, 4 attempts, waits 1, 2 and 4 capped to 3, failing inserts, resent publications | `NoEntryLost`, `StoredIsBroadcast`, `DeadOutlivedBackoff`, and the liveness property `QueuedSettles` |
| `ingest_shutdown` | one of everything, SIGTERM | **violates** `NoEntryLost` |
| `ingest_unannounced` | one of everything, an insert that commits and reports an error | **violates** `StoredIsBroadcast` |
| `breaker_postgres` | 4 callers, rows and plain calls, pool of 2, 2 probes, trips after 2, outages | `ProbesAccounted`, `OpensOnlyOnFailures`, `BreakerTypeOK`, and the liveness property `ClosesAgain` |
| `breaker_leak` | 2 callers, outages | **violates** `ConnectionsReturned` |
| `outage_recovery` | 3 deliveries, one of them refused by the database, outages and disconnecting clients at any time, the code's waits, interval and timeout, 2 probes, trips after 3 | `RecoveredSurvives`, `OutageTypeOK`, and the refinement `ImplementsBreaker` |
| `outage_poison` | 4 deliveries, 2 of them refused by the database, which is always up; clients that disconnect; all numbers the code's | **violates** `BadEventsIsolated` |
| `delivery_faults` | 1 connection, 2 citizens, 3 messages, every trouble | `DeliveredInOrder`, `NothingSkipped`, `DeliveryTypeOK`, and the liveness properties `ConnectionReleased` and `MessageArrives` |
| `delivery_gap` | 2 connections, 1 message, no trouble | **violates** `ConnectedMissesNothing` |
| `inbox_walk` | 3 rows of one citizen, two with one timestamp, another citizen without rows, limits 1 and 2 and bad parameters | `WalkIsComplete`, `RepeatsAreInserts`, `TotalCoversPage`, `OwnRowsOnly`, `UnreadIsRight`, `InboxTypeOK` |
| `lifecycle_signal` | 3 requests and the worker, complete environments and each with one variable missing, a signal at any moment | `ReadyBeforeServing`, `AcceptedAreServed`, `TeardownInOrder`, `LifecycleTypeOK`, and the liveness property `StopsOnSignal` |

*Why the bounds are enough.* Two deliveries of one body with two replicas already give every race of
two on the unique index: handler with handler, handler with worker, worker with worker; the theorems
cover any number. The two bodies of `ingest_faults` let one entry's failure meet another entry
waiting, and with one ZADD run again two workers hold the same entry. Two attempts are the first try,
a re-enqueue and burial; the four of `ingest_retry` re-enqueue what was re-enqueued and reach the
cap of the backoff. (With the code's constants the waits are 2, 4, 8 and 16 s, and the cap of 30 s is
never reached.) Four callers are two more than the probes of `breaker_postgres`, so that refused
callers meet a full set of probes, and twice the pool, so that some wait for a connection; the
breaker's numbers are below the code's there only to keep the instance small. In `outage_recovery`
three failures trip the breaker and two probes close it: three events open it, by an outage, by
disconnecting clients or with the attempts of the refused one, which may also fail the probe that
the others need; the waits and timeouts, on which the property
depends, are the code's. Two rows of one timestamp and a third are enough for a row to fall between
pages of one or two rows, and for each insertion to come before, between or behind the rows already
shown. Three requests can be in three different steps when `Shutdown` begins. Buffers of one message
are full after one message, and three messages block the forwarder behind a handler that is writing,
or overflow the buffer of go-redis; connections share nothing but the publication, so that two
suffice. The clock is bounded by its guard: it advances only while an entry is waiting.

*Symmetry.* Deliveries, replicas, callers and connections are only compared for equality, so permuting
them is sound for invariants, step properties and the refinement of a specification without
fairness. The runs with liveness properties use no symmetry.

*Deadlock.* `Ingest`, `Outage` and `Delivery` may rest: all requests answered, the queue empty, all
connections closed; the process of `Lifecycle` ends. Those runs set `CHECK_DEADLOCK FALSE`.
`Breaker` and `Inbox` never rest and are checked for deadlock.

*Fairness.* `Ingest!FairSpec`: the worker loops for ever with `pollInterval` of 200 ms and the Go
scheduler runs it; time passes; the orchestrator restarts a replica that ended. Nothing is assumed
about requests. `Breaker!FairSpec`: a statement that gets its connection ends, a row that was issued
is scanned, an admitted call that can return does, time passes. That outages end and that somebody
calls are premises of `ClosesAgain` itself (`CallsKeepComing`: the worker polls Redis for ever;
Postgres is called by whatever requests there are). `Delivery!FairSpec`: the three goroutines run
when they can, writes end within `writeTimeout`, reads from a client that is gone fail within
`pongTimeout`, and go-redis reads from its connection as long as its channel has room; nothing is
assumed about clients, publications, Redis or the connection to it. `Lifecycle!FairSpec`: `main` is
scheduled and its deadline passes, statements and Redis calls return; nobody need send a body. The
code sets no timeout on a handler's statement, so a database that accepts one and never answers
would hold `pool.Close` as well.

## Findings

1. **SIGTERM can lose a queued event** (`ingest_shutdown`). The worker removes the entry from
   Redis, SIGTERM cancels its context, the insert fails, the re-enqueue fails with the same
   context (`worker.go:72`), and `main` waits for the server only.
2. **A stored event may never be announced** (`ingest_unannounced`). When an insert commits
   and reports an error, the retry finds a duplicate and returns without publishing
   (`worker.go:92`), as does every re-sending.
3. **A refused `Scan` leaks a connection** (`breaker_leak`). `QueryRow` runs the statement
   before the breaker admits it; when the breaker has opened meanwhile, the inner `Scan` never
   runs, the connection never returns to the pool, and the deferred `pool.Close` waits for it.
4. **A notification published right after the upgrade is missed** (`delivery_gap`). The client is
   connected before SUBSCRIBE is sent, and nobody waits for its confirmation (`ws/handler.go:65`,
   `subscriber.go:22`); what is published in between reaches this connection only over REST.

5. **Bad events can bury a good one** (`outage_poison`). The README says that the queue keeps bad
   messages apart (`README.md:139`). Every error but an absent row counts against the breaker
   (`postgres.go:76`): events that Postgres refuses for their data, and requests whose client has gone
   (`webhook/handler.go:128`). In the trace one of each opens it, the next refused event fails the
   probe of the half-open breaker and opens it again, and a good event whose five attempts fall into
   that time is given up, though the database was never down.

Smaller differences, seen while reading and not the subject of a run: requirements R-WH-14 and
I-PER-1 speak of 200 where the code answers 201, and tests named `...Returns503` assert
500. A repeated `MarkRead` succeeds as R-API-2.1 asks, but moves `read_at` to the last repetition.
I-BRD-1 speaks of a single Redis channel where there is one for each citizen.

## Proofs

The theorems hold for every value of the constants that satisfies the named assumptions
(`ConstantsAssumption`, `NoEntryAssumption`, `BackoffAssumption`, `BreakerAssumption`,
`OutageAssumption`, `DeliveryAssumption`, `InboxAssumption`, `LifecycleAssumption`): any number of
bodies, deliveries, replicas, attempts, callers, connections, buffers, rows, clients and requests.
They state every invariant, every step property and both refinements that the passing runs check.

`IngestProofs`:

| theorem | under | property |
|---|---|---|
| `TypeCorrect` | every fault | `TypeOK` |
| `BroadcastOnce` | every fault | `SoleBroadcaster` |
| `AcknowledgedStored` | every fault | `AcknowledgedIsStored` |
| `CopiesCounted` | every fault | `CopiesAreResends` |
| `OnePlace` | all but `addResend` | an entry is in one place |
| `DeadWereOutlived` | every fault | `DeadOutlivedBackoff` |
| `LossIsBounded` | every fault | `OneLossPerFailure` |
| `Refinement` | all but `publishResend` | `ImplementsLedger` |
| `NothingLost` | no Redis failure, no process ends | `NoEntryLost` |
| `EveryStoredIsBroadcast` | failing inserts, resent commands | `StoredIsBroadcast` |

The inductive invariant adds two parts to the properties. `HandMatchesPc`: a worker holds an
entry exactly while it stands inside `process`, and a replica that is down has no worker.
Without it a worker could hold an entry while it polls and drop it. `EntryProvenance`: every
entry in the queue was made by the handler of its delivery, which has finished, and carries
that delivery's body. Without it the enqueue of one handler could collide with an entry that is
already there, and an entry could stand for another body. For `CopiesCounted` every action is shown
to move at most one copy of an entry from one place to another, but for `RunAgain`, which makes one
and counts it. `OnePlace` is its corollary where Redis runs every ZADD once; with resent ones two
workers may process one entry, and `BroadcastOnce` and `Refinement` say that it is stored and
announced once even so. `SoleBroadcaster` is nearly inductive:
only the caller that found the hash absent becomes a broadcaster, and then the hash is present
for all others. For the losses, a lemma says which delivery a step can disturb, and that there
is at most one. The theorems that exclude faults add that no process has ended (`AllUp`) and no
request was cancelled (`AllConnected`). For `DeadWereOutlived`, `OnSchedule` follows an entry: its
score, or the clock once a worker has taken it, is past the time of its failure by `Schedule[n]`
for its n-th attempt. Between the worker's increment and the re-enqueue it is one wait behind, which
is why the invariant distinguishes the positions of the worker.

`BackoffProofs`: `ScheduleSteps`, that `Schedule`, the sum of the waits, is a function into the
naturals and grows by `Delay(n + 1)` from attempt n to the next. `Schedule` is a recursive function,
and that there is such a function has to be proved: by the least-number principle for sets
(`LeastNumber`), which replaces induction, the partial schedules exist (`ScheduleExists`) and agree
(`ScheduleUnique`). `DelayAsDocumented` shows that the shift with its guard is the documented minimum
of a doubled wait and the cap.

`BreakerProofs`: `BreakerTypeCorrect`, `HalfOpenNeverStuck` (`ProbesAccounted`) and
`OnlyFailuresOpen` (`OpensOnlyOnFailures`), whatever goes wrong. The strengthening states that
callers of the current generation are running calls (`FreshIsRunning`), the account of requests
against successes and running probes (`Accounts`), and that the failures counted are errors that
happened (`FailuresAreErrors`). `OutageProofs` cites its lemmas, through an instance, for the
breaker of `Outage`.

`OutageProofs`:

| theorem | under | property |
|---|---|---|
| `OutageRefinement` | every trouble | `ImplementsBreaker` |
| `OutageTypeCorrect` | every trouble | `OutageTypeOK` |
| `RecoveredEventsSurvive` | every trouble, if `Timeout <= TotalBackoff` | `RecoveredSurvives` |

Each action of `Outage` takes one step of `Breaker`, or none; the instance of `BreakerProofs` then
gives its invariant for the breaker here, which with `BrokenInCall` (a failed row belongs to a call
in progress) makes the types inductive. `RecoveredEventsSurvive` is the argument why the code's
schedule works. The invariant `Survival` says that, as long as nothing is troubled, the database is
up and only a `Poison` event can fail in the worker's hand (`CallsAreWell`), and that while the
breaker is shut an entry of a spared event satisfies `left + Schedule[n] < Timeout + wait`: the
event was queued when less than `Timeout` was left, and since then the entry has waited `Schedule[n]`,
less what it is still to wait. An entry in the worker's hand at its last attempt has waited
`TotalBackoff`, so if that is at least `Timeout`, `left` would have to be negative: the breaker is
no longer shut, and the attempt is refused only for want of a probe. Refused events and disconnecting
clients are among the behaviours: when one of them opens the breaker again, the events queued
before are `spared` no more, and `outage_poison` shows that they may be buried. The hypothesis is
needed: with shorter waits, those of its mutant, TLC finds an event that is buried in front of the
open breaker. The code meets it with equality.

`InboxProofs`: `Isolation` (`OwnRowsOnly`), `TotalAgrees` (`TotalCoversPage`) and `UnreadCorrect`
(`UnreadIsRight`), with failing statements and insertions between any two steps. `List` reads its
page in one statement and its total in another, so the properties of a response follow only from
what is known in between. `CallInv` says that the rows a `List` holds belong to its citizen;
`PageInv`, that the rows its first statement saw are still in the table (nothing deletes) and that
a page with rows lies within them. The total, counted over a table that has only grown, then
covers the page. `MarksInv` orders the marks (acknowledged are read, read were asked for, asked
for exist), between which every unread count lies.

`WalkProofs`: `WalksComplete` (`WalkIsComplete`), `RepeatsBounded` (`RepeatsAreInserts`) and
`InboxTypeCorrect` (`InboxTypeOK`), for any table, timestamps, limits and insertions. The argument
replaces sequences by positions: since ORDER BY is a total order (`BeforeIsTotal`, which needs the
tie-break on `id`), a page query returns its rows by `Rank` (`OrderIsRank`), and a page is the set
of rows of two `Top`s, one without the other (`PageByRank`). An insertion moves each row by one
position at most, hence pushes at most one out of the first p (`TopAfterInsert`). `Track` is the
invariant of a walk that stands at offset `next`: of the rows there were at its start, those in
front of the offset have been shown; and the rows shown twice, together with the rows shown that
have slipped behind the offset and may be shown again, are no more than those inserted. Without the
second summand the bound is not inductive: the next page turns such rows into repetitions. While a
`List` is between its two statements `PageOnTrack` says the same of the walk as its client will have
it. When a walk ends, the total is at most the offset that follows, so all rows are in front of it.

`LifecycleProofs`: `LifecycleTypeCorrect`, `ServesWhenReady` (`ReadyBeforeServing`),
`RequestsAreServed` (`AcceptedAreServed`) and `TeardownOrdered` (`TeardownInOrder`), for any number
of requests. `PhaseInv` says what `main` has set up and undone in each phase, and `QuietStart`
that nothing runs beside it until it has spawned the goroutines. `NoneInClosedPool`: nobody is
inside a statement of a closed pool, because `Close` waits for the connections in use. `DrainInv`:
until `Shutdown` has returned nothing is closed, and after it has returned in time every request
is at rest and stays so, which is why the closes that follow meet none of them.

`DeliveryProofs`: `DeliveryTypeCorrect` (`DeliveryTypeOK`), `MessagesInOrder` (`DeliveredInOrder`)
and `ConnectionsSkipNothing` (`NothingSkipped`), under every trouble and for any capacities. What a
connection has received, what its handler, channel and forwarder hold, and what waits in go-redis
and on its connection are one sequence, `Pipeline(c)`. The proof shows once, action by action, that
every step is either a `QuietStep`, which keeps this sequence or cuts a stretch out of it, or a
`LoudStep`, which appends the message just published; a stretch that is cut out holds no valid
message unless the connection is no longer `Expecting` any. From these two forms alone follow that
the sequence is increasing and the citizen's own (`InOrder`) and that it has all it must
(`Complete`). `HoldersAreBusy` ties the messages in the hands of the goroutines to their positions.
`PublishedAfter` and `InPipelineAfter` are compared as sets; their order, and that nothing comes
twice, is `DeliveredInOrder`.

*Only model-checked:* the liveness properties `QueuedSettles`, `ClosesAgain`, `ConnectionReleased`,
`MessageArrives` and `StopsOnSignal`, because fairness and `ENABLED` are out of the prover's reach;
and of course the five violations.

## Mutants

Every property of a passing run has a mutant in `PROJECT.json`: a definition with a plausible
fault (lost ON CONFLICT, pop without ZREM, 200 after an enqueue, `>` for `>=` in the attempts,
absence counted as a failure, one probe too many...) under which TLC finds the property violated.

## Not modelled

- The contents of the webhook's checks: only their order and verdict. Verification of tokens and
  refresh of keys are the libraries'.
- `FindByID`, which nothing calls, and `read_at`, which nothing reads.
- WebSocket connections at shutdown (see Lifecycle), and several replicas in `Outage`: each has a
  breaker of its own, and entries move between them.
- `QueuedSettles` with resent ZADDs, and replicas whose clocks differ.
- Loss of data by Redis itself (append-only file synced every second) and by Postgres.
- Migrations, the wiring of the router, the traces, mock-idp, manifests, load tests and test
  helpers: sequential or without state that a property is about.

## Plan

1. *(done)* `NotificationLedger`, `Ingest`, `Breaker`, their runs and first theorems.
2. *(done)* `Delivery`: `ws/handler.go` and `subscriber.go`.
3. *(done)* `Inbox`: the REST operations over the table with concurrent inserts.
4. *(done)* `Lifecycle`: start-up order, `Shutdown`, the deferred closes in reverse order.
5. *(done)* `Outage`: the retry schedule over the breaker, in place of the `pg` fault, with requests
   that are cancelled.
6. *(done)* Theorems about `Lifecycle` and `Inbox`.
7. *(done)* Theorems about `Delivery`, `Outage`, the schedule of `Backoff` and the walks of `Inbox`.
8. Theorems beyond the runs: what `Breaker` guarantees of the leak (how many connections it can cost
   before the pool is empty), and how many events a stop of all replicas can lose at most.
