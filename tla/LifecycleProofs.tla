-------------------------- MODULE LifecycleProofs ---------------------------
(***************************************************************************)
(* Theorems about Lifecycle, for any number of requests and any set of     *)
(* environments.                                                           *)
(***************************************************************************)
EXTENDS Lifecycle, TLAPS

\* The phases up to a step of the set-up.
UpToTracer == {"config", "notify", "tracer"}
UpToPool == UpToTracer \cup {"pool"}
UpToRedis == UpToPool \cup {"redis"}
UpToSpawn == UpToRedis \cup {"jwks", "spawn"}
UpToDrain == UpToSpawn \cup {"wait", "drain"}
UpToRedisClosed == UpToDrain \cup {"rdb.Close"}
UpToPoolClosed == UpToRedisClosed \cup {"pool.Close"}
Phases == UpToPoolClosed \cup {"tracer.Shutdown", "returned"}

\* task is a function of the goroutines; needed to compute its updates.
TaskType ==
  task \in [Goroutines -> {"none", "reading", "insert", "redis", "answered", "idle",
                           "dequeue", "done"}]

\* What each phase of main has set up, and what it has undone.
PhaseInv ==
  /\ phase \in Phases
  /\ phase # "config" => Required \subseteq env
  /\ phase \notin UpToTracer => tracer # "none"
  /\ phase \in UpToPoolClosed \cup {"tracer.Shutdown"} => tracer # "stopped"
  /\ phase \notin UpToPool => pool # "none"
  /\ phase \in UpToRedisClosed \ UpToPool => pool = "open"
  /\ phase \in UpToPool => pool = "none"
  /\ phase = "pool.Close" => pool # "closed"
  /\ phase \in {"tracer.Shutdown", "returned"} => pool = "closed"
  /\ phase \in UpToRedisClosed \ UpToRedis => rdb = "open"
  /\ phase \in UpToRedis => rdb = "none"
  /\ phase \notin UpToRedisClosed => rdb = "closed"
  /\ phase = "returned" => tracer = "stopped"
  /\ exit = "0" <=> phase = "returned"

\* Nothing runs besides main during the set-up.
QuietStart == phase \in UpToSpawn => server = "none" /\ \A g \in Goroutines : task[g] = "none"

\* Nobody is inside a statement of a closed pool.
NoneInClosedPool == pool = "closed" => \A g \in Goroutines : task[g] # "insert"

\* Once Shutdown has returned without giving up, every request is at rest for good; and
\* until it has returned nobody finds anything closed.
DrainInv ==
  /\ phase \in UpToDrain => spoilt = {}
  /\ ~gaveUp /\ phase \notin UpToDrain => Drained
  /\ ~gaveUp => spoilt \cap Requests = {}

IInv == LifecycleTypeOK /\ TaskType /\ PhaseInv /\ QuietStart /\ NoneInClosedPool /\ DrainInv

\* The process starts with nothing set up (main.go:25).
LEMMA InitIInv == Init => IInv
  BY LifecycleAssumption DEF Init, IInv, LifecycleTypeOK, TaskType, PhaseInv, QuietStart,
     NoneInClosedPool, DrainInv, Goroutines, Phases, UpToTracer, UpToPool, UpToRedis,
     UpToSpawn, UpToDrain, UpToRedisClosed, UpToPoolClosed

\* os.Exit leaves everything as it is (main.go:32).
LEMMA ExitKeeps ==
  ASSUME IInv, NEW status \in {"1", "killed"}, Running, Exit(status)
  PROVE  IInv'
  BY DEF Exit, Running, resources, IInv, LifecycleTypeOK, TaskType, PhaseInv, QuietStart,
     NoneInClosedPool, DrainInv, Drained, Goroutines, Phases, UpToTracer, UpToPool, UpToRedis,
     UpToSpawn, UpToDrain, UpToRedisClosed, UpToPoolClosed

\* Every step of main, of the server, of a request and of the worker keeps the invariant.
LEMMA NextIInv == IInv /\ [Next]_vars => IInv'
  <1> SUFFICES ASSUME IInv, [Next]_vars
               PROVE  IInv'
    OBVIOUS
  <1> USE LifecycleAssumption DEF Running, resources, Goroutines, Phases, UpToTracer, UpToPool,
        UpToRedis, UpToSpawn, UpToDrain, UpToRedisClosed, UpToPoolClosed, LifecycleTypeOK,
        TaskType, PhaseInv, QuietStart, NoneInClosedPool, DrainInv, Drained
  <1>1. CASE Load
    BY <1>1, ExitKeeps DEF Load, validate, IInv
  <1>2. CASE NotifyContext
    BY <1>2 DEF NotifyContext, IInv
  <1>3. CASE Setup
    BY <1>3, ExitKeeps DEF Setup, IInv
  <1>4. CASE NewPool
    BY <1>4, ExitKeeps DEF NewPool, IInv
  <1>5. CASE NewClient
    BY <1>5, ExitKeeps DEF NewClient, IInv
  <1>6. CASE NewJWKSKeyfunc
    BY <1>6, ExitKeeps DEF NewJWKSKeyfunc, IInv
  <1>7. CASE Spawn
    BY <1>7 DEF Spawn, IInv
  <1>8. CASE Shutdown
    BY <1>8 DEF Shutdown, CloseListener, IInv
  <1>9. CASE ShutdownReturns
    BY <1>9 DEF ShutdownReturns, IInv
  <1>10. CASE CloseRedis
    BY <1>10 DEF CloseRedis, AfterRedis, IInv
  <1>11. CASE ClosePool
    BY <1>11 DEF ClosePool, IInv
  <1>12. CASE ClosePoolReturns
    BY <1>12 DEF ClosePoolReturns, IInv
  <1>13. CASE ShutdownTracer
    BY <1>13 DEF ShutdownTracer, IInv
  <1>14. CASE Signal
    <2>1. CASE phase \in {"config", "notify"}
      BY <1>14, <2>1, ExitKeeps DEF Signal
    <2>2. CASE phase \notin {"config", "notify"}
      BY <1>14, <2>2 DEF Signal, IInv
    <2> QED
      BY <2>1, <2>2
  <1>15. CASE ListenAndServe
    BY <1>15, ExitKeeps DEF ListenAndServe, IInv
  <1>16. ASSUME NEW r \in Requests, Accept(r)
         PROVE  IInv'
    BY <1>16 DEF Accept, IInv
  <1>17. ASSUME NEW r \in Requests, Body(r)
         PROVE  IInv'
    BY <1>17 DEF Body, CallInsert, IInv
  <1>18. ASSUME NEW g \in Goroutines, InsertReturns(g)
         PROVE  IInv'
    <2>1. task[g] = "insert" /\ pool # "closed" /\ phase \notin UpToSpawn
      BY <1>18 DEF InsertReturns, IInv
    <2>2. g \in Requests /\ phase \notin UpToDrain => gaveUp
      BY <2>1 DEF IInv
    <2>3. PICK to \in {AtRest(g), "redis"} : task' = [task EXCEPT ![g] = to]
      BY <1>18 DEF InsertReturns
    <2>4. leaked' \in BOOLEAN
      BY <1>18 DEF InsertReturns, IInv
    <2>5. UNCHANGED <<env, phase, exit, cancelled, resources, server, gaveUp, spoilt>>
      BY <1>18 DEF InsertReturns
    <2>6. CASE g = Worker
      BY <2>1, <2>3, <2>4, <2>5, <2>6 DEF AtRest, IInv
    <2>7. CASE g \in Requests
      BY <2>1, <2>2, <2>3, <2>4, <2>5, <2>7 DEF AtRest, IInv
    <2> QED
      BY <1>18, <2>6, <2>7
  <1>19. ASSUME NEW g \in Goroutines, RedisReturns(g)
         PROVE  IInv'
    BY <1>19 DEF RedisReturns, AtRest, IInv
  <1>20. CASE WorkerLoop
    BY <1>20 DEF WorkerLoop, IInv
  <1>21. CASE Dequeue
    BY <1>21 DEF Dequeue, CallInsert, IInv
  <1>22. CASE UNCHANGED vars
    BY <1>22 DEF vars, IInv
  <1> QED
    BY <1>1, <1>2, <1>3, <1>4, <1>5, <1>6, <1>7, <1>8, <1>9, <1>10, <1>11, <1>12,
       <1>13, <1>14, <1>15, <1>16, <1>17, <1>18, <1>19, <1>20, <1>21, <1>22 DEF Next, Main

\* The inductive invariant holds throughout the life of the process.
THEOREM Invariance == Spec => []IInv
  <1>1. Init => IInv
    BY InitIInv
  <1>2. IInv /\ [Next]_vars => IInv'
    BY NextIInv
  <1> QED
    BY <1>1, <1>2, PTL DEF Spec

-----------------------------------------------------------------------------
\* Every variable keeps its type, and the server accepts requests only while main waits
\* for the signal (main.go:93-106).
THEOREM LifecycleTypeCorrect == Spec => []LifecycleTypeOK
  <1>1. IInv => LifecycleTypeOK
    BY DEF IInv
  <1> QED
    BY <1>1, Invariance, PTL

\* Server, requests and worker run only in a process that is configured and has found its
\* pool and its Redis client to answer (main.go:29-76).
THEOREM ServesWhenReady == Spec => []ReadyBeforeServing
  <1>1. IInv => ReadyBeforeServing
    BY DEF IInv, ReadyBeforeServing, PhaseInv, QuietStart, Phases, UpToTracer, UpToPool,
       UpToRedis, UpToSpawn, UpToDrain, UpToRedisClosed, UpToPoolClosed
  <1> QED
    BY <1>1, Invariance, PTL

\* Unless Shutdown gave up (main.go:106), no accepted request meets a closed pool or Redis
\* client, and all are answered when main returns.
THEOREM RequestsAreServed == Spec => []AcceptedAreServed
  <1>1. IInv => AcceptedAreServed
    BY DEF IInv, AcceptedAreServed, PhaseInv, DrainInv, Drained, UpToTracer, UpToPool,
       UpToRedis, UpToSpawn, UpToDrain
  <1> QED
    BY <1>1, Invariance, PTL

\* The deferred calls (main.go:36-53) close Redis client, pool and tracer in this order, and
\* the pool only when no goroutine is inside a statement.
THEOREM TeardownOrdered == Spec => []TeardownInOrder
  <1>1. IInv => TeardownInOrder
    BY DEF IInv, TeardownInOrder, PhaseInv, NoneInClosedPool, Phases, UpToTracer, UpToPool,
       UpToRedis, UpToSpawn, UpToDrain, UpToRedisClosed, UpToPoolClosed
  <1> QED
    BY <1>1, Invariance, PTL
=============================================================================
