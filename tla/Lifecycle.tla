----------------------------- MODULE Lifecycle ------------------------------
(***************************************************************************)
(* The process of cmd/api from its configuration to its exit: main sets up *)
(* tracer, pool and Redis client, starts the worker and the server, waits  *)
(* for a signal, gives the handlers ten seconds and runs its deferred      *)
(* calls, last in first out.  Around it run the server's goroutine, one    *)
(* goroutine for each request and the worker, for which nobody waits.      *)
(*                                                                         *)
(* Of a request only what it uses is told apart: its body comes from the   *)
(* client, Insert holds a connection of the pool, and Publish or Enqueue   *)
(* uses Redis.  What they do with the event is Ingest's.                   *)
(***************************************************************************)
EXTENDS Naturals, FiniteSets

CONSTANTS
  Requests,         \* POST /webhook requests
  Worker,           \* the goroutine of dlq.Worker.Run
  Environments      \* the sets of environment variables that may be given

Required == {"DATABASE_URL", "REDIS_ADDR", "WEBHOOK_SECRET", "CPF_KEY", "JWT_JWKS_URL"}

ASSUME LifecycleAssumption ==
  /\ Worker \notin Requests
  /\ Environments \subseteq SUBSET (Required \cup {"OTEL_EXPORTER_OTLP_ENDPOINT"})

VARIABLES
  env,              \* the variables given a value (for JWT_JWKS_URL: a URL)
  phase,            \* what main does next
  exit,             \* "running", "killed", or the status of the process
  cancelled,        \* whether the context of NotifyContext is cancelled
  tracer,           \* "none", "noop", "on" or "stopped"
  pool,             \* "none", "open", "closing" or "closed"
  rdb,              \* "none", "open" or "closed"
  server,           \* the goroutine of the server: "none", "spawned", "serving", "done"
  task,             \* task[g]: what the request, or the worker, g is at
  gaveUp,           \* Shutdown returned with an error
  leaked,           \* Scan was refused: a connection is never given back (Breaker)
  spoilt            \* history: requests that found the pool or Redis closed

resources == <<tracer, pool, rdb>>
vars == <<env, phase, exit, cancelled, tracer, pool, rdb, server, task, gaveUp, leaked,
          spoilt>>

Goroutines == Requests \cup {Worker}

Init ==
  /\ env \in Environments
  /\ phase = "config"
  /\ exit = "running"
  /\ cancelled = FALSE
  /\ tracer = "none" /\ pool = "none" /\ rdb = "none"
  /\ server = "none"
  /\ task = [g \in Goroutines |-> "none"]
  /\ gaveUp = FALSE
  /\ leaked = FALSE
  /\ spoilt = {}

Running == exit = "running"

\* os.Exit: no deferred call runs.
Exit(status) ==
  /\ exit' = status
  /\ UNCHANGED <<env, phase, cancelled, resources, server, task, gaveUp, leaked, spoilt>>

-----------------------------------------------------------------------------
(* main sets up *)

\* Mutant: REDIS_ADDR is not checked.
ValidateMost == Required \ {"REDIS_ADDR"} \subseteq env

validate == Required \subseteq env

\* config.Load
Load ==
  /\ Running /\ phase = "config"
  /\ IF validate
     THEN /\ phase' = "notify"
          /\ UNCHANGED <<env, exit, cancelled, resources, server, task, gaveUp, leaked, spoilt>>
     ELSE Exit("1")

NotifyContext ==
  /\ Running /\ phase = "notify"
  /\ phase' = "tracer"
  /\ UNCHANGED <<env, exit, cancelled, resources, server, task, gaveUp, leaked, spoilt>>

\* telemetry.Setup: without an endpoint there is nothing to set up or to fail.
Setup ==
  /\ Running /\ phase = "tracer"
  /\ \/ /\ tracer' = IF "OTEL_EXPORTER_OTLP_ENDPOINT" \in env THEN "on" ELSE "noop"
        /\ phase' = "pool"
        /\ UNCHANGED <<env, exit, cancelled, pool, rdb, server, task, gaveUp, leaked, spoilt>>
     \/ /\ "OTEL_EXPORTER_OTLP_ENDPOINT" \in env
        /\ Exit("1")

\* storage.NewPool; the ping, and so the start, fails once the context is cancelled.
NewPool ==
  /\ Running /\ phase = "pool"
  /\ \/ /\ ~cancelled
        /\ pool' = "open"
        /\ phase' = "redis"
        /\ UNCHANGED <<env, exit, cancelled, tracer, rdb, server, task, gaveUp, leaked, spoilt>>
     \/ Exit("1")

\* redis.NewClient and its ping, likewise.
NewClient ==
  /\ Running /\ phase = "redis"
  /\ \/ /\ ~cancelled
        /\ rdb' = "open"
        /\ phase' = "jwks"
        /\ UNCHANGED <<env, exit, cancelled, tracer, pool, server, task, gaveUp, leaked, spoilt>>
     \/ Exit("1")

NewJWKSKeyfunc ==
  /\ Running /\ phase = "jwks"
  /\ \/ /\ phase' = "spawn"
        /\ UNCHANGED <<env, exit, cancelled, resources, server, task, gaveUp, leaked, spoilt>>
     \/ Exit("1")

\* go dlqWorker.Run(ctx), and go func() with ListenAndServe.
Spawn ==
  /\ Running /\ phase = "spawn"
  /\ task' = [task EXCEPT ![Worker] = "idle"]
  /\ server' = "spawned"
  /\ phase' = "wait"
  /\ UNCHANGED <<env, exit, cancelled, resources, gaveUp, leaked, spoilt>>

-----------------------------------------------------------------------------
(* The server and the requests *)

\* ListenAndServe: ErrServerClosed after Shutdown; any other error of Listen or Accept
\* ends the process, also that of a Listen which Shutdown has overtaken.
ListenAndServe ==
  /\ Running
  /\ \/ /\ server = "spawned"
        /\ server' = IF phase = "wait" THEN "serving" ELSE "done"
        /\ UNCHANGED <<env, phase, exit, cancelled, resources, task, gaveUp, leaked, spoilt>>
     \/ /\ server \in {"spawned", "serving"}
        /\ Exit("1")

Accept(r) ==
  /\ Running /\ server = "serving" /\ task[r] = "none"
  /\ task' = [task EXCEPT ![r] = "reading"]
  /\ UNCHANGED <<env, phase, exit, cancelled, resources, server, gaveUp, leaked, spoilt>>

\* Goroutine g calls Insert: it gets a connection, or the error of a closed pool.
CallInsert(g) ==
  /\ task' = [task EXCEPT ![g] = IF pool = "open" THEN "insert" ELSE "redis"]
  /\ spoilt' = IF pool = "open" THEN spoilt ELSE spoilt \cup {g}

\* The body has come, or the client has gone; the request is refused, or Insert is
\* called.
Body(r) ==
  /\ Running /\ task[r] = "reading"
  /\ \/ CallInsert(r)
     \/ /\ task' = [task EXCEPT ![r] = "answered"]
        /\ UNCHANGED spoilt
  /\ UNCHANGED <<env, phase, exit, cancelled, resources, server, gaveUp, leaked>>

\* What a goroutine is at when it has dealt with an event.
AtRest(g) == IF g = Worker THEN "idle" ELSE "answered"

\* Insert returns: a duplicate, or there is something left to do in Redis; Scan may
\* have left the connection behind.
InsertReturns(g) ==
  /\ Running /\ task[g] = "insert"
  /\ \/ /\ task' = [task EXCEPT ![g] = AtRest(g)]
        /\ UNCHANGED leaked
     \/ /\ task' = [task EXCEPT ![g] = "redis"]
        /\ leaked' \in {leaked, TRUE}
  /\ UNCHANGED <<env, phase, exit, cancelled, resources, server, gaveUp, spoilt>>

\* Publish, Enqueue, enqueueAt or MoveToDead returns.
RedisReturns(g) ==
  /\ Running /\ task[g] = "redis"
  /\ task' = [task EXCEPT ![g] = AtRest(g)]
  /\ spoilt' = IF rdb = "open" THEN spoilt ELSE spoilt \cup {g}
  /\ UNCHANGED <<env, phase, exit, cancelled, resources, server, gaveUp, leaked>>

-----------------------------------------------------------------------------
(* Worker.Run: its loop looks at the context before it takes an entry *)

WorkerLoop ==
  /\ Running /\ task[Worker] = "idle"
  /\ task' = [task EXCEPT ![Worker] = IF cancelled THEN "done" ELSE "dequeue"]
  /\ UNCHANGED <<env, phase, exit, cancelled, resources, server, gaveUp, leaked, spoilt>>

\* dequeueReady finds an entry for process, or none.
Dequeue ==
  /\ Running /\ task[Worker] = "dequeue"
  /\ \/ CallInsert(Worker)
     \/ /\ task' = [task EXCEPT ![Worker] = "idle"]
        /\ UNCHANGED spoilt
  /\ UNCHANGED <<env, phase, exit, cancelled, resources, server, gaveUp, leaked>>

-----------------------------------------------------------------------------
(* main shuts down *)

\* SIGTERM or SIGINT: the default action before NotifyContext, and nothing more than
\* the cancellation after it.
Signal ==
  /\ Running /\ ~cancelled
  /\ IF phase \in {"config", "notify"}
     THEN Exit("killed")
     ELSE /\ cancelled' = TRUE
          /\ UNCHANGED <<env, phase, exit, resources, server, task, gaveUp, leaked, spoilt>>

\* Mutant: the listener stays open.
KeepListening == server

\* Shutdown closes the listener.
CloseListener == IF server = "serving" THEN "done" ELSE server

\* <-ctx.Done(), and Shutdown begins.
Shutdown ==
  /\ Running /\ phase = "wait" /\ cancelled
  /\ server' = CloseListener
  /\ phase' = "drain"
  /\ UNCHANGED <<env, exit, cancelled, resources, task, gaveUp, leaked, spoilt>>

\* Mutant: requests whose body has not come are not waited for.
NoneWorking == \A r \in Requests : task[r] \notin {"insert", "redis"}

\* Every connection of the server is idle or gone.
Drained == \A r \in Requests : task[r] \in {"none", "answered"}

\* Mutant: Shutdown without a deadline.
NoDeadline == FALSE

\* shutdownCtx may expire.
Deadline == phase = "drain"

\* Shutdown returns, because all is quiet or because ten seconds have passed.
ShutdownReturns ==
  /\ Running /\ phase = "drain"
  /\ Drained \/ Deadline
  /\ gaveUp' = ~Drained
  /\ phase' = "rdb.Close"
  /\ UNCHANGED <<env, exit, cancelled, resources, server, task, leaked, spoilt>>

\* Mutant: defer pool.Close() is missing.
AfterRedisTracer == "tracer.Shutdown"

\* The deferred calls after rdb.Close.
AfterRedis == "pool.Close"

CloseRedis ==
  /\ Running /\ phase = "rdb.Close"
  /\ rdb' = "closed"
  /\ phase' = AfterRedis
  /\ UNCHANGED <<env, exit, cancelled, tracer, pool, server, task, gaveUp, leaked, spoilt>>

\* pool.Close refuses new callers at once,
ClosePool ==
  /\ Running /\ phase = "pool.Close" /\ pool = "open"
  /\ pool' = "closing"
  /\ UNCHANGED <<env, phase, exit, cancelled, tracer, rdb, server, task, gaveUp, leaked, spoilt>>

\* and returns when every connection is back.
ClosePoolReturns ==
  /\ Running /\ phase = "pool.Close" /\ pool = "closing"
  /\ ~leaked
  /\ \A g \in Goroutines : task[g] # "insert"
  /\ pool' = "closed"
  /\ phase' = "tracer.Shutdown"
  /\ UNCHANGED <<env, exit, cancelled, tracer, rdb, server, task, gaveUp, leaked, spoilt>>

\* shutdownTracer flushes the spans; cancel, and main returns.
ShutdownTracer ==
  /\ Running /\ phase = "tracer.Shutdown"
  /\ tracer' = "stopped"
  /\ phase' = "returned"
  /\ exit' = "0"
  /\ UNCHANGED <<env, cancelled, pool, rdb, server, task, gaveUp, leaked, spoilt>>

-----------------------------------------------------------------------------
Main ==
  \/ Load \/ NotifyContext \/ Setup \/ NewPool \/ NewClient \/ NewJWKSKeyfunc \/ Spawn
  \/ Shutdown \/ ShutdownReturns \/ CloseRedis \/ ClosePool \/ ClosePoolReturns
  \/ ShutdownTracer

Next ==
  \/ Main
  \/ Signal
  \/ ListenAndServe
  \/ \E r \in Requests : Accept(r) \/ Body(r)
  \/ \E g \in Goroutines : InsertReturns(g) \/ RedisReturns(g)
  \/ WorkerLoop
  \/ Dequeue

Spec == Init /\ [][Next]_vars

\* The goroutine of main is scheduled and statements and Redis calls return.  Nobody
\* need send a request, its body or a signal.
FairSpec ==
  /\ Spec
  /\ WF_vars(Main)
  /\ \A g \in Goroutines : WF_vars(InsertReturns(g)) /\ WF_vars(RedisReturns(g))

-----------------------------------------------------------------------------
(* Properties *)

\* The values the variables take; a server accepts requests only while main waits.
LifecycleTypeOK ==
  /\ env \in Environments
  /\ exit \in {"running", "killed", "0", "1"}
  /\ cancelled \in BOOLEAN /\ gaveUp \in BOOLEAN /\ leaked \in BOOLEAN
  /\ tracer \in {"none", "noop", "on", "stopped"}
  /\ pool \in {"none", "open", "closing", "closed"}
  /\ rdb \in {"none", "open", "closed"}
  /\ server \in {"none", "spawned", "serving", "done"}
  /\ server = "serving" => phase = "wait"
  /\ DOMAIN task = Goroutines
  /\ \A r \in Requests : task[r] \in {"none", "reading", "insert", "redis", "answered"}
  /\ task[Worker] \in {"none", "idle", "dequeue", "insert", "redis", "done"}
  /\ spoilt \subseteq Goroutines

\* Whatever runs besides main, it runs in a process with a complete configuration,
\* and never before pool and Redis client were found to answer.
ReadyBeforeServing ==
  server # "none" \/ (\E g \in Goroutines : task[g] # "none") =>
    /\ Required \subseteq env
    /\ tracer # "none" /\ pool # "none" /\ rdb # "none"

\* Unless Shutdown gave up, the end of the process does not reach the requests it had
\* accepted: none finds the pool or Redis closed under it, and when main returns each
\* has been answered.
AcceptedAreServed ==
  ~gaveUp => /\ spoilt \cap Requests = {}
             /\ exit = "0" => \A r \in Requests : task[r] \in {"none", "answered"}

\* The deferred calls undo the set-up in reverse: the tracer is stopped when the pool is
\* closed and nobody is inside a statement, not even the worker, for whom main does not
\* wait, or a request that Shutdown gave up on.
TeardownInOrder ==
  /\ exit = "0" => tracer = "stopped"
  /\ tracer = "stopped" => pool = "closed"
  /\ pool = "closed" => rdb = "closed" /\ \A g \in Goroutines : task[g] # "insert"

\* Once a signal is caught the process ends, in whatever phase it was, however slow its
\* clients are -- unless a connection was leaked, for which pool.Close waits for ever.
StopsOnSignal == cancelled ~> (~Running \/ leaked)
=============================================================================
