------------------------------- MODULE Ingest -------------------------------
(***************************************************************************)
(* The ingestion pipeline: POST /webhook on every replica, the table       *)
(* notifications, the dead-letter queue in Redis (a ZSET of retries and a  *)
(* list of dead entries), the retry worker of every replica, the publisher *)
(* and the life of the processes (SIGTERM, exit, crash, restart).          *)
(*                                                                         *)
(* An action is one call to Postgres or Redis together with everything the *)
(* Go code does up to the next call.  Between two actions of a goroutine   *)
(* any other goroutine, of any replica, may run.                           *)
(*                                                                         *)
(* All replicas read one clock: time.Now() of each is taken to agree.      *)
(***************************************************************************)
EXTENDS Naturals, FiniteSets, Backoff

CONSTANTS
  Events,           \* request bodies; event_hash = sha256(body) identifies one
  Malformed,        \* bodies that json.Unmarshal, validatePayload or time.Parse refuses
  Poison,           \* bodies the handler accepts and Postgres refuses ("bad data", dlq.go:31)
  Deliveries,       \* POST /webhook requests: the first sending of a body and its re-sendings
  Replicas,         \* processes of cmd/api sharing Postgres and Redis
  NoEntry,          \* what a worker holds when it holds no entry
  MaxResends,       \* bound on the ZADDs that Redis runs again
  Faults            \* the failures of the environment that this instance allows

FaultKinds ==
  { "pg",           \* a statement fails and has no effect (down, breaker open)
    "pgReply",      \* a statement commits and its caller gets an error
    "redis",        \* a command fails and has no effect (down, breaker open)
    "redisReply",   \* a command takes effect and its caller gets an error
    "publishResend", \* go-redis resends a PUBLISH whose reply was lost (MaxRetries)
    "addResend",    \* the same for a ZADD, or a sending of it that was given up arrives late
    "disconnect",   \* the sender of a webhook goes away during the request
    "sigterm",      \* a replica is told to stop
    "crash" }       \* a replica dies

Entry == [event: Events, by: Deliveries, failedAt: Nat, attempts: 1..MaxAttempts]
Scheduled == [entry: Entry, score: Nat]

ASSUME ConstantsAssumption ==
  /\ Malformed \subseteq Events
  /\ Poison \subseteq Events
  /\ MaxResends \in Nat
  /\ Faults \subseteq FaultKinds

ASSUME NoEntryAssumption == NoEntry \notin Entry

VARIABLES
  body,             \* body[d]: the body that delivery d carries
  at,               \* at[d]: the replica that delivery d is routed to
  pc,               \* pc[d]: where the handler of delivery d stands
  ctx,              \* ctx[d]: the context of request d, "live" or "cancelled"
  status,           \* status[d]: the HTTP status answered, 0 if none yet or never
  wpc,              \* wpc[p]: where the retry worker of replica p stands
  hand,             \* hand[p]: the entry that worker took out of the retry set
  proc,             \* proc[p]: "up", "stopping" (after SIGTERM) or "down"
  clock,            \* time, in the unit of the backoffs
  rows,             \* table notifications: the event_hash values present
  retry,            \* Redis ZSET dlq:webhooks:retry
  dead,             \* Redis list dlq:webhooks:dead; nothing reads its order
  published,        \* published[e]: PUBLISH commands Redis has run for e
  late,             \* ZADDs that Redis may run again, or late
  queued,           \* history: deliveries whose event reached the retry set
  resent            \* history: resent[d], ZADDs of d's entry that were run again

route == <<body, at>>
handlers == <<pc, ctx, status>>
workers == <<wpc, hand>>
resends == <<late, resent>>
redis == <<retry, dead, published, queued, late, resent>>
vars == <<body, at, pc, ctx, status, wpc, hand, proc, clock, rows, retry, dead,
          published, late, queued, resent>>

Init ==
  /\ body \in [Deliveries -> Events]
  /\ at \in [Deliveries -> Replicas]
  /\ pc = [d \in Deliveries |-> "idle"]
  /\ ctx = [d \in Deliveries |-> "live"]
  /\ status = [d \in Deliveries |-> 0]
  /\ wpc = [p \in Replicas |-> "poll"]
  /\ hand = [p \in Replicas |-> NoEntry]
  /\ proc = [p \in Replicas |-> "up"]
  /\ clock = 0
  /\ rows = {}
  /\ retry = {}
  /\ dead = {}
  /\ published = [e \in Events |-> 0]
  /\ late = {}
  /\ queued = {}
  /\ resent = [d \in Deliveries |-> 0]

-----------------------------------------------------------------------------
(* Postgres and Redis, as the code sees them *)

\* Mutant: the ON CONFLICT clause is lost and a second insert returns a row.
IsNeverDuplicate(e) == FALSE

\* INSERT ... ON CONFLICT (event_hash) DO NOTHING finds the event_hash taken.
IsDuplicate(e) == e \in rows

\* NotificationRepo.Insert under a context that is live or cancelled.  out is
\* "row" (the new row), "none" (duplicate: pgx.ErrNoRows, returned as nil, nil)
\* or "error".  A cancellation that arrives while the statement is running
\* leaves it committed or not.
Insert(e, live, out) ==
  \/ /\ out = "row"
     /\ live /\ e \notin Poison /\ ~IsDuplicate(e)
     /\ rows' = rows \cup {e}
  \/ /\ out = "none"
     /\ live /\ e \notin Poison /\ IsDuplicate(e)
     /\ UNCHANGED rows
  \/ /\ out = "error"
     /\ ~live \/ e \in Poison \/ "pg" \in Faults
     /\ UNCHANGED rows
  \/ /\ out = "error"
     /\ ~live \/ "pgReply" \in Faults
     /\ e \notin Poison
     /\ rows' = rows \cup {e}

\* A Redis command: "ok", "fail" (no effect, error) or "lost" (effect, error).
RedisCall(live, out) ==
  \/ out = "ok" /\ live
  \/ out = "fail" /\ (~live \/ "redis" \in Faults)
  \/ out = "lost" /\ live /\ "redisReply" \in Faults

\* ZADD: a member is added, or gets a new score.
ZAdd(x) == {y \in retry : y.entry # x.entry} \cup {x}

\* Redis may run a ZADD more often than its caller asks for.
MayResend ==
  /\ "addResend" \in Faults
  /\ Cardinality(late) + MapThenSumSet(LAMBDA d : resent[d], Deliveries) < MaxResends

\* ZADD of entry e to the retry set, ready at readyAt, under a context that is
\* live or cancelled.  What was put on the wire may stay there, or be put there
\* again, and so be run later.
enqueueAt(e, readyAt, live, out) ==
  LET x == [entry |-> e, score |-> readyAt]
  IN /\ retry' = IF out = "fail" THEN retry ELSE ZAdd(x)
     /\ \/ UNCHANGED late
        \/ live /\ MayResend /\ late' = late \cup {x}

\* LPUSH of entry e to the dead list, kept as a set: sent twice it lists an entry
\* twice, and nothing in the service reads the list.
MoveToDead(e, out) == dead' = IF out = "fail" THEN dead ELSE dead \cup {e}

\* How often Redis runs a PUBLISH that is called once.
Runs(out) ==
  IF out = "fail" THEN {0}
  ELSE IF "publishResend" \in Faults THEN {1, 2}
  ELSE {1}

\* Mutant: the notification is never handed to the publisher.
SkipPublish(e, live) == UNCHANGED published

\* RedisPublisher.Publish of event e: its caller logs an error and goes on.
Publish(e, live) ==
  \E out \in {"ok", "fail", "lost"}, n \in 0..2 :
    /\ RedisCall(live, out)
    /\ n \in Runs(out)
    /\ published' = [published EXCEPT ![e] = @ + n]

-----------------------------------------------------------------------------
(* The webhook handler *)

InFlight(d) == pc[d] \in {"insert", "enqueue", "publish"}

\* The request passes the checks that precede the insert, in the code's order:
\* body readable, signature, then JSON, payload and timestamp.
Verdict(d, readable, signed) ==
  IF ~readable THEN 400
  ELSE IF ~signed THEN 401
  ELSE IF body[d] \in Malformed THEN 400
  ELSE 0

Receive(d) ==
  /\ pc[d] = "idle"
  /\ proc[at[d]] = "up"
  /\ \E readable, signed \in BOOLEAN :
       /\ status' = [status EXCEPT ![d] = Verdict(d, readable, signed)]
       /\ pc' = [pc EXCEPT ![d] = IF Verdict(d, readable, signed) = 0
                                  THEN "insert" ELSE "done"]
  /\ UNCHANGED <<route, ctx, workers, proc, clock, rows, redis>>

HandlerInsert(d) ==
  /\ pc[d] = "insert"
  /\ \E out \in {"row", "none", "error"} :
       /\ Insert(body[d], ctx[d] = "live", out)
       /\ pc' = [pc EXCEPT ![d] = CASE out = "row"   -> "publish"
                                    [] out = "none"  -> "done"
                                    [] out = "error" -> "enqueue"]
       /\ status' = IF out = "none" THEN [status EXCEPT ![d] = 200] ELSE status
  /\ UNCHANGED <<route, ctx, workers, proc, clock, redis>>

\* What Enqueue makes of the event of delivery d.
NewEntry(d) == [event |-> body[d], by |-> d, failedAt |-> clock, attempts |-> 1]

\* Mutant: a webhook that reached the dead-letter queue is answered 200.
AnswerOkAfterEnqueue == 200

\* The answer to a webhook whose insert failed, queued or not.
EnqueueStatus == 500

HandlerEnqueue(d) ==
  /\ pc[d] = "enqueue"
  /\ \E out \in {"ok", "fail", "lost"} :
       /\ RedisCall(ctx[d] = "live", out)
       /\ enqueueAt(NewEntry(d), clock, ctx[d] = "live", out)
       /\ queued' = IF out = "fail" THEN queued ELSE queued \cup {d}
  /\ pc' = [pc EXCEPT ![d] = "done"]
  /\ status' = [status EXCEPT ![d] = EnqueueStatus]
  /\ UNCHANGED <<route, ctx, workers, proc, clock, rows, dead, published, resent>>

HandlerPublish(d) ==
  /\ pc[d] = "publish"
  /\ Publish(body[d], ctx[d] = "live")
  /\ pc' = [pc EXCEPT ![d] = "done"]
  /\ status' = [status EXCEPT ![d] = 201]
  /\ UNCHANGED <<route, ctx, workers, proc, clock, rows, retry, dead, queued, resends>>

\* net/http cancels the request's context when the client goes away.
Disconnect(d) ==
  /\ "disconnect" \in Faults
  /\ InFlight(d) /\ ctx[d] = "live"
  /\ ctx' = [ctx EXCEPT ![d] = "cancelled"]
  /\ UNCHANGED <<route, pc, status, workers, proc, clock, rows, redis>>

-----------------------------------------------------------------------------
(* The dead-letter queue and its worker, one per replica *)

\* The worker's context is the process's: cancelled by SIGTERM.
WorkerLive(p) == proc[p] = "up"

\* ZRANGEBYSCORE key -inf now LIMIT 0 1; ties are broken by the member's bytes.
IsOldestReady(x) ==
  /\ x \in retry
  /\ x.score <= clock
  /\ \A y \in retry : x.score <= y.score

\* Mutant: the pop reads the entry without ZREM.
RemovePeeked(x) == retry

\* Mutant: the pop removes everything that is ready and returns one entry.
RemoveAllReady(x) == {y \in retry : y.score > clock}

\* ZREM of the entry the script returns, in the same atomic script.
Remove(x) == retry \ {x}

\* dequeueReady returns an entry, or the reply is lost and the entry with it; a
\* script that is resent after that is the worker's next pop.  An error or a nil
\* reply without effect only makes Run sleep pollInterval.
WorkerPop(p) ==
  /\ wpc[p] = "poll"
  /\ \E x \in retry, out \in {"ok", "lost"} :
       /\ IsOldestReady(x)
       /\ RedisCall(WorkerLive(p), out)
       /\ retry' = Remove(x)
       /\ IF out = "ok"
          THEN /\ wpc' = [wpc EXCEPT ![p] = "insert"]
               /\ hand' = [hand EXCEPT ![p] = x.entry]
          ELSE UNCHANGED workers
  /\ UNCHANGED <<route, handlers, proc, clock, rows, dead, published, queued, resends>>

WorkerInsert(p) ==
  LET e == hand[p]
  IN /\ wpc[p] = "insert"
     /\ \E out \in {"row", "none", "error"} :
          /\ Insert(e.event, WorkerLive(p), out)
          /\ \/ /\ out = "row"
                /\ wpc' = [wpc EXCEPT ![p] = "publish"]
                /\ UNCHANGED hand
             \/ /\ out = "none"
                /\ wpc' = [wpc EXCEPT ![p] = "poll"]
                /\ hand' = [hand EXCEPT ![p] = NoEntry]
             \/ /\ out = "error" /\ ~Exhausted(e)
                /\ wpc' = [wpc EXCEPT ![p] = "requeue"]
                /\ hand' = [hand EXCEPT ![p] = [e EXCEPT !.attempts = @ + 1]]
             \/ /\ out = "error" /\ Exhausted(e)
                /\ wpc' = [wpc EXCEPT ![p] = "bury"]
                /\ UNCHANGED hand
     /\ UNCHANGED <<route, handlers, proc, clock, redis>>

\* Mutant: Run returns after the first failed insert.
StopAfterRequeue(p) == "stopped"

\* process returns to the loop of Run.
AfterRequeue(p) == "poll"

\* Re-enqueue after the backoff; when it fails the entry is gone, and logged.
WorkerRequeue(p) ==
  /\ wpc[p] = "requeue"
  /\ \E out \in {"ok", "fail", "lost"} :
       /\ RedisCall(WorkerLive(p), out)
       /\ enqueueAt(hand[p], clock + Delay(hand[p].attempts), WorkerLive(p), out)
  /\ wpc' = [wpc EXCEPT ![p] = AfterRequeue(p)]
  /\ hand' = [hand EXCEPT ![p] = NoEntry]
  /\ UNCHANGED <<route, handlers, proc, clock, rows, dead, published, queued, resent>>

\* The last attempt has failed; when MoveToDead fails the entry is gone, and logged.
WorkerBury(p) ==
  /\ wpc[p] = "bury"
  /\ \E out \in {"ok", "fail", "lost"} :
       /\ RedisCall(WorkerLive(p), out)
       /\ MoveToDead(hand[p], out)
  /\ wpc' = [wpc EXCEPT ![p] = "poll"]
  /\ hand' = [hand EXCEPT ![p] = NoEntry]
  /\ UNCHANGED <<route, handlers, proc, clock, rows, retry, published, queued, resends>>

WorkerPublish(p) ==
  /\ wpc[p] = "publish"
  /\ Publish(hand[p].event, WorkerLive(p))
  /\ wpc' = [wpc EXCEPT ![p] = "poll"]
  /\ hand' = [hand EXCEPT ![p] = NoEntry]
  /\ UNCHANGED <<route, handlers, proc, clock, rows, retry, dead, queued, resends>>

\* Run leaves its loop at the next check of the cancelled context.
WorkerStop(p) ==
  /\ wpc[p] = "poll"
  /\ ~WorkerLive(p)
  /\ wpc' = [wpc EXCEPT ![p] = "stopped"]
  /\ UNCHANGED <<route, handlers, hand, proc, clock, rows, redis>>

\* Redis runs a ZADD that was put on the wire before: the reply of the first run
\* was lost, or the client gave up waiting for it (then for the first time).  What
\* the caller was told, and what became of the entry meanwhile, plays no part.
RunAgain(x) ==
  LET d == x.entry.by
  IN /\ x \in late \ retry
     /\ retry' = ZAdd(x)
     /\ queued' = queued \cup {d}
     /\ resent' = [resent EXCEPT ![d] = @ + 1]
     /\ late' = late \ {x}
     /\ UNCHANGED <<route, handlers, workers, proc, clock, rows, dead, published>>

\* Time passes; nothing in the model depends on it while no entry is waiting.
Tick ==
  /\ \E x \in retry : x.score > clock
  /\ clock' = clock + 1
  /\ UNCHANGED <<route, handlers, workers, proc, rows, redis>>

-----------------------------------------------------------------------------
(* The process *)

\* signal.NotifyContext: the worker's context is cancelled and the server
\* stops accepting.  The contexts of running requests are not affected.
Sigterm(p) ==
  /\ "sigterm" \in Faults
  /\ proc[p] = "up"
  /\ proc' = [proc EXCEPT ![p] = "stopping"]
  /\ UNCHANGED <<route, handlers, workers, clock, rows, redis>>

\* The process ends and takes its goroutines with it.
Halt(p) ==
  /\ proc' = [proc EXCEPT ![p] = "down"]
  /\ pc' = [d \in Deliveries |-> IF at[d] = p /\ InFlight(d) THEN "done" ELSE pc[d]]
  /\ wpc' = [wpc EXCEPT ![p] = "stopped"]
  /\ hand' = [hand EXCEPT ![p] = NoEntry]
  /\ UNCHANGED <<route, ctx, status, clock, rows, redis>>

\* main returns: srv.Shutdown waited for the handlers or gave up after 10s, and
\* nothing waits for the worker.
Exit(p) == proc[p] = "stopping" /\ Halt(p)

Crash(p) == "crash" \in Faults /\ proc[p] # "down" /\ Halt(p)

Restart(p) ==
  /\ proc[p] = "down"
  /\ proc' = [proc EXCEPT ![p] = "up"]
  /\ wpc' = [wpc EXCEPT ![p] = "poll"]
  /\ UNCHANGED <<route, handlers, hand, clock, rows, redis>>

-----------------------------------------------------------------------------
HandlerStep(d) ==
  \/ Receive(d)
  \/ HandlerInsert(d)
  \/ HandlerEnqueue(d)
  \/ HandlerPublish(d)

WorkerStep(p) ==
  \/ WorkerPop(p)
  \/ WorkerInsert(p)
  \/ WorkerRequeue(p)
  \/ WorkerBury(p)
  \/ WorkerPublish(p)
  \/ WorkerStop(p)

ProcessStep(p) == Sigterm(p) \/ Exit(p) \/ Crash(p) \/ Restart(p)

Next ==
  \/ \E d \in Deliveries : HandlerStep(d) \/ Disconnect(d)
  \/ \E p \in Replicas : WorkerStep(p) \/ ProcessStep(p)
  \/ \E x \in late : RunAgain(x)
  \/ Tick

Spec == Init /\ [][Next]_vars

\* The Go scheduler runs every goroutine that can run, the worker polls every
\* pollInterval, time passes, and the orchestrator restarts a replica that ended.
FairSpec ==
  /\ Spec
  /\ \A p \in Replicas : WF_vars(WorkerStep(p)) /\ WF_vars(Restart(p))
  /\ WF_vars(Tick)

-----------------------------------------------------------------------------
(* Properties *)

\* The values the variables take.
TypeOK ==
  /\ body \in [Deliveries -> Events]
  /\ at \in [Deliveries -> Replicas]
  /\ pc \in [Deliveries -> {"idle", "insert", "enqueue", "publish", "done"}]
  /\ ctx \in [Deliveries -> {"live", "cancelled"}]
  /\ status \in [Deliveries -> {0, 200, 201, 400, 401, 500}]
  /\ wpc \in [Replicas -> {"poll", "insert", "requeue", "bury", "publish", "stopped"}]
  /\ hand \in [Replicas -> Entry \cup {NoEntry}]
  /\ proc \in [Replicas -> {"up", "stopping", "down"}]
  /\ clock \in Nat
  /\ rows \subseteq Events
  /\ retry \subseteq Scheduled
  /\ dead \subseteq Entry
  /\ published \in [Events -> Nat]
  /\ late \subseteq Scheduled
  /\ queued \subseteq Deliveries
  /\ resent \in [Deliveries -> Nat]

\* A goroutine that Insert gave the new row of e to and that will publish it.
HandlerClaims(d, e) == pc[d] = "publish" /\ body[d] = e
WorkerClaims(p, e) == wpc[p] = "publish" /\ hand[p].event = e

\* Among all handlers and workers of all replicas, at most one is ever about to
\* publish a given event, only once the row is committed, and none after it was
\* published (R-WH-13, R-WH-15: no broadcast before the commit, no re-broadcast
\* of a duplicate, be it a re-sending or a retry racing one).  Holds under every
\* fault: what a resending client adds are copies of the one Publish call.
SoleBroadcaster ==
  /\ \A d \in Deliveries, e \in Events :
       HandlerClaims(d, e) =>
         /\ e \in rows /\ published[e] = 0
         /\ \A c \in Deliveries : HandlerClaims(c, e) => c = d
         /\ \A p \in Replicas : ~WorkerClaims(p, e)
  /\ \A p \in Replicas, e \in Events :
       WorkerClaims(p, e) =>
         /\ e \in rows /\ published[e] = 0
         /\ \A q \in Replicas : WorkerClaims(q, e) => q = p
  /\ \A e \in Events : published[e] # 0 => e \in rows

Ledger == INSTANCE NotificationLedger WITH stored <- rows, sent <- published

\* The pipeline implements the promise of NotificationLedger, unless the Redis
\* client resends a PUBLISH: stored once and for good, announced at most once and after.
ImplementsLedger == Ledger!Spec

\* A sender that was answered 2xx never has to send the body again: the row is
\* committed, whichever replica or retry committed it (R-DM-4, R-WH-12).
AcknowledgedIsStored ==
  \A d \in Deliveries : status[d] \in {200, 201} => body[d] \in rows

InRetry(d) == \E x \in retry : x.entry.by = d
Holds(p, d) == hand[p] # NoEntry /\ hand[p].by = d
InHand(d) == \E p \in Replicas : Holds(p, d)
InDead(d) == \E x \in dead : x.by = d

\* Where copies of the entry of d are: in the retry set, with a worker, dead.
Places(d) ==
  (  {<<"retry", x>> : x \in {y \in retry : y.entry.by = d}}
  \cup {<<"hand", p>> : p \in {q \in Replicas : Holds(q, d)}} )
  \cup {<<"dead", x>> : x \in {y \in dead : y.by = d}}

\* However many workers poll the set, no step makes two entries of one: an entry
\* is waiting, or with one worker, or dead, and is in one more place at most for
\* each ZADD of it that Redis ran again (go-redis resends one whose reply was
\* lost, and a worker may have taken the entry out by then).
CopiesAreResends ==
  \A d \in Deliveries : Cardinality(Places(d)) <= 1 + resent[d]

\* A queued event that is neither stored nor anywhere in the queue any more.
Lost == {d \in queued : /\ body[d] \notin rows
                        /\ ~InRetry(d) /\ ~InHand(d) /\ ~InDead(d)}

LossyFaults == {"redis", "redisReply", "sigterm", "crash"}

\* An event that could not be stored and was queued is stored later, or still
\* waiting, or dead and open to inspection: it never disappears ("enqueues
\* payloads that could not be persisted for later retry", webhook/handler.go:42).
NoEntryLost == Lost = {}

\* Whatever fails, one failure costs at most one queued event: a worker takes
\* one entry at a time and the others stay in Redis.
OneLossPerFailure ==
  [][\A c, d \in Lost' \ Lost : c = d]_vars

\* A delivery of e whose insert failed and which the queue may still process.
Pending(e) ==
  \E d \in Deliveries :
    body[d] = e /\ (pc[d] = "enqueue" \/ InRetry(d) \/ InHand(d))

\* Unless Redis failed, a stored event was published, or a goroutine is about to
\* publish it, or one of its deliveries is still on its way through the queue: no
\* event is stored and then forgotten by everyone (R-WS-2).
StoredIsBroadcast ==
  \A e \in rows :
    \/ published[e] # 0
    \/ \E d \in Deliveries : HandlerClaims(d, e)
    \/ \E p \in Replicas : WorkerClaims(p, e)
    \/ Pending(e)

\* An entry is given up only after MaxAttempts attempts spread over the whole
\* backoff schedule: no outage shorter than TotalBackoff kills an event.
DeadOutlivedBackoff ==
  \A x \in dead : x.attempts = MaxAttempts /\ clock - x.failedAt >= TotalBackoff

\* Every queued event is in the end stored or dead: no entry waits for ever
\* behind others, and bad data does not circulate for ever (dlq.go:26-30).
QueuedSettles ==
  \A d \in Deliveries : (d \in queued) ~> (body[d] \in rows \/ InDead(d))
=============================================================================
