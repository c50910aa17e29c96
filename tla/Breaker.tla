------------------------------ MODULE Breaker -------------------------------
(***************************************************************************)
(* A dependency behind its circuit breaker: Postgres behind cbQuerier or   *)
(* Redis behind RedisHook, in one replica.  The breaker itself is          *)
(* sony/gobreaker.  Callers are the goroutines of the replica that use the *)
(* dependency: request handlers and the retry worker.                      *)
(*                                                                         *)
(* Time is abstract: the expiry of the breaker's generation may pass at    *)
(* any moment, and is noticed at the next call, as in gobreaker.           *)
(***************************************************************************)
EXTENDS Naturals, FiniteSets

CONSTANTS
  Callers,          \* goroutines
  Rows,             \* the dependency is Postgres, so that QueryRow is called too
  PoolSize,         \* connections of pgxpool
  MaxRequests,      \* postgres.go:17, redis.go:16
  TripAfter,        \* postgres.go:21, redis.go:20
  Troubles          \* what this instance allows to go wrong

TroubleKinds ==
  { "down",         \* the dependency stops and starts answering
    "refused",      \* Postgres refuses the data of a statement
    "cancelled" }   \* a caller's context is cancelled: its client has gone

ASSUME BreakerAssumption ==
  /\ IsFiniteSet(Callers)
  /\ Rows \in BOOLEAN
  /\ PoolSize \in Nat \ {0}
  /\ MaxRequests \in Nat \ {0}
  /\ TripAfter \in Nat \ {0}
  /\ Troubles \subseteq TroubleKinds

VARIABLES
  state,            \* "closed", "half-open" or "open"
  counts,           \* gobreaker.Counts, saturating: requests, successes, failures
  due,              \* the expiry of the generation has passed
  pc,               \* pc[c]: "idle", "query" (in the inner QueryRow), "scan" (row
                    \* issued), "exec" or "row" (admitted)
  fresh,            \* callers admitted in the breaker's current generation
  holds,            \* callers with a row that holds a connection of the pool
  broken,           \* callers with a row that holds an error
  leaked,           \* connections held by rows that nobody will scan
  up,               \* the dependency answers
  errors            \* history: calls that ended in an error, up to TripAfter

breaker == <<state, counts, due, fresh>>
vars == <<state, counts, due, pc, fresh, holds, broken, leaked, up, errors>>

Counts == [requests: 0..MaxRequests, successes: 0..MaxRequests, failures: 0..TripAfter]

NoCounts == [requests |-> 0, successes |-> 0, failures |-> 0]

Init ==
  /\ state = "closed"
  /\ counts = NoCounts
  /\ due = FALSE
  /\ pc = [c \in Callers |-> "idle"]
  /\ fresh = {}
  /\ holds = {}
  /\ broken = {}
  /\ leaked = 0
  /\ up = TRUE
  /\ errors = 0

-----------------------------------------------------------------------------
(* gobreaker *)

\* currentState: a generation whose expiry has passed ends; a closed breaker
\* starts counting again and an open one becomes half-open.
NowState == IF due /\ state = "open" THEN "half-open" ELSE state
NowCounts == IF due THEN NoCounts ELSE counts
NowFresh == IF due THEN {} ELSE fresh

\* currentState alone, or with the counts k and the callers f after it.
Settle(k, f) ==
  /\ state' = NowState
  /\ counts' = k
  /\ fresh' = f
  /\ due' = FALSE

\* setState: a new generation with clear counts.
SetState(s) ==
  /\ state' = s
  /\ counts' = NoCounts
  /\ fresh' = {}
  /\ due' = FALSE

\* Mutant: the half-open limit is one request too high.
AdmitsOneMore ==
  NowState = "closed" \/ (NowState = "half-open" /\ NowCounts.requests <= MaxRequests)

\* beforeRequest returns no error.
Admits ==
  NowState = "closed" \/ (NowState = "half-open" /\ NowCounts.requests < MaxRequests)

\* The counts saturate where nothing tells larger values apart.
Increment(n, bound) == IF n < bound THEN n + 1 ELSE n

BeforeRequest(c) ==
  /\ Admits
  /\ Settle([NowCounts EXCEPT !.requests = Increment(@, MaxRequests)], NowFresh \cup {c})

\* ErrOpenState or ErrTooManyRequests.
Reject == ~Admits /\ Settle(NowCounts, NowFresh)

\* Mutant: the breaker closes only after one success too many.
ClosesLate(n) == n > MaxRequests

\* onSuccess of a half-open breaker, with n consecutive successes.
Closes(n) == n >= MaxRequests

\* ReadyToTrip, with n consecutive failures.
ReadyToTrip(n) == n >= TripAfter

OnSuccess(c) ==
  LET k == [NowCounts EXCEPT !.successes = Increment(@, MaxRequests), !.failures = 0]
  IN IF NowState = "half-open" /\ Closes(k.successes)
     THEN SetState("closed")
     ELSE Settle(k, NowFresh \ {c})

OnFailure(c) ==
  LET k == [NowCounts EXCEPT !.failures = Increment(@, TripAfter), !.successes = 0]
  IN IF NowState = "half-open" \/ ReadyToTrip(k.failures)
     THEN SetState("open")
     ELSE Settle(k, NowFresh \ {c})

\* afterRequest: the result of a call admitted in an earlier generation is ignored.
AfterRequest(c, success) ==
  IF c \notin NowFresh THEN Settle(NowCounts, NowFresh)
  ELSE IF success THEN OnSuccess(c)
  ELSE OnFailure(c)

-----------------------------------------------------------------------------
(* cbQuerier, cbRow and RedisHook *)

\* Mutant: the pool hands out one connection too many.
OverdrawnConnection == Cardinality(holds) + leaked <= PoolSize

\* pool.Acquire gets a connection; without one it waits.
FreeConnection == Cardinality(holds) + leaked < PoolSize

\* Exec and Query of cbQuerier, ProcessHook of RedisHook: Execute admits the call
\* or returns the breaker's error.
Execute(c) ==
  /\ pc[c] = "idle"
  /\ \/ BeforeRequest(c) /\ pc' = [pc EXCEPT ![c] = "exec"]
     \/ Reject /\ UNCHANGED pc
  /\ UNCHANGED <<holds, broken, leaked, up, errors>>

\* cbQuerier.QueryRow: State(), and unless it is open the inner QueryRow.
QueryRow(c) ==
  /\ Rows
  /\ pc[c] = "idle"
  /\ Settle(NowCounts, NowFresh)
  /\ pc' = IF NowState = "open" THEN pc ELSE [pc EXCEPT ![c] = "query"]
  /\ UNCHANGED <<holds, broken, leaked, up, errors>>

\* The inner QueryRow waits for a connection and runs the statement on it.  The row
\* keeps the connection until Scan, also when the statement has failed; without one
\* (none can be made, or the wait is cancelled) it only holds an error.
IssueRow(c) ==
  /\ pc[c] = "query"
  /\ pc' = [pc EXCEPT ![c] = "scan"]
  /\ \/ /\ FreeConnection
        /\ holds' = holds \cup {c}
        /\ \/ up /\ UNCHANGED broken
           \/ (~up \/ Troubles \cap {"refused", "cancelled"} # {}) /\ broken' = broken \cup {c}
     \/ /\ (~up /\ FreeConnection) \/ "cancelled" \in Troubles
        /\ broken' = broken \cup {c}
        /\ UNCHANGED holds
  /\ UNCHANGED <<breaker, leaked, up, errors>>

\* cbRow.Scan: Execute around the inner Scan.  When Execute refuses, the inner
\* Scan never runs and nothing gives the connection back.
Scan(c) ==
  /\ pc[c] = "scan"
  /\ \/ /\ BeforeRequest(c)
        /\ pc' = [pc EXCEPT ![c] = "row"]
        /\ UNCHANGED <<holds, broken, leaked>>
     \/ /\ Reject
        /\ pc' = [pc EXCEPT ![c] = "idle"]
        /\ holds' = holds \ {c}
        /\ broken' = broken \ {c}
        /\ leaked' = IF c \in holds THEN leaked + 1 ELSE leaked
  /\ UNCHANGED <<up, errors>>

\* What the dependency answers to a call: a result, "absent" (pgx.ErrNoRows or
\* redis.Nil) or an error.  A call of Exec or Query needs a connection first; Query
\* may return rows although the statement fails, and the error appears when its
\* caller reads them, outside the breaker.
Answers(c, out) ==
  \/ out = "error" /\ "cancelled" \in Troubles
  \/ /\ pc[c] = "exec" => FreeConnection
     /\ IF out = "error"
        THEN ~up \/ "refused" \in Troubles \/ c \in broken
        ELSE c \notin broken /\ (up \/ (Rows /\ pc[c] = "exec"))

\* Mutant: an absent row or key counts as a failure.
AbsenceFails(out) == out = "result"

\* What the closures passed to Execute return as their error: absence is none.
Success(out) == out # "error"

\* The end of a call: the closure returns, gobreaker counts, and the inner Scan
\* has released the connection.
ReturnWith(c, out) ==
  /\ pc[c] \in {"exec", "row"}
  /\ Answers(c, out)
  /\ AfterRequest(c, Success(out))
  /\ pc' = [pc EXCEPT ![c] = "idle"]
  /\ holds' = holds \ {c}
  /\ broken' = broken \ {c}
  /\ errors' = IF out = "error" THEN Increment(errors, TripAfter) ELSE errors
  /\ UNCHANGED <<leaked, up>>

Return(c) == \E out \in {"result", "absent", "error"} : ReturnWith(c, out)

-----------------------------------------------------------------------------
\* The interval of a closed breaker or the timeout of an open one has passed.
Expire ==
  /\ state # "half-open" /\ ~due
  /\ due' = TRUE
  /\ UNCHANGED <<state, counts, fresh, pc, holds, broken, leaked, up, errors>>

Toggle ==
  /\ "down" \in Troubles
  /\ up' = ~up
  /\ UNCHANGED <<breaker, pc, holds, broken, leaked, errors>>

Next ==
  \/ \E c \in Callers : Execute(c) \/ QueryRow(c) \/ IssueRow(c) \/ Scan(c) \/ Return(c)
  \/ Expire
  \/ Toggle

Spec == Init /\ [][Next]_vars

\* A statement that gets a connection ends, a row that was issued is scanned at once,
\* a call that can return returns (the goroutine does one of them at a time), and time
\* passes.
FairSpec ==
  /\ Spec
  /\ \A c \in Callers : WF_vars(IssueRow(c) \/ Scan(c) \/ Return(c))
  /\ WF_vars(Expire)

-----------------------------------------------------------------------------
(* Properties *)

\* The values the variables take, and the pool is never overdrawn.
BreakerTypeOK ==
  /\ state \in {"closed", "half-open", "open"}
  /\ counts \in Counts
  /\ due \in BOOLEAN
  /\ pc \in [Callers -> {"idle", "query", "scan", "exec", "row"}]
  /\ fresh \subseteq Callers
  /\ holds \subseteq Callers
  /\ broken \subseteq Callers
  /\ leaked \in Nat
  /\ up \in BOOLEAN
  /\ errors \in 0..TripAfter
  /\ Cardinality(holds) + leaked <= PoolSize

\* A half-open breaker knows its probes: the calls admitted and not yet returned
\* are requests - successes.  So it probes with MaxRequests calls at most, and it
\* cannot be stuck refusing everything with no probe left to decide: when the
\* requests are used up a probe is still running.
ProbesAccounted ==
  state = "half-open" =>
    /\ \A c \in fresh : pc[c] \in {"exec", "row"}
    /\ Cardinality(fresh) + counts.successes = counts.requests
    /\ counts.requests = MaxRequests => fresh # {}

\* Before TripAfter calls have ended in an error, over the whole life of the
\* process, nothing is refused and no connection is lost, however many of the
\* answers are "absent" and however the callers interleave (postgres.go:62
\* "without tripping the CB on ErrNoRows", redis.go:40 "must not trip the breaker").
OpensOnlyOnFailures == errors < TripAfter => state = "closed" /\ leaked = 0

\* Some goroutine goes on calling.  For Redis the retry worker does, every
\* pollInterval; for Postgres the requests do, if there are any.
CallsKeepComing == \E c \in Callers : WF_vars(Execute(c))

\* After an outage the breaker closes again as long as calls keep coming: no
\* interleaving of probes, rows issued during the outage, stale results and expiries
\* keeps a healthy dependency refused, unless the pool is used up by lost rows.
ClosesAgain ==
  /\ <>[](up /\ leaked < PoolSize)
  /\ CallsKeepComing
  => []<>(state = "closed")

\* Every connection in use belongs to a call in progress, so that pool.Close of
\* main returns (analisa-de-requerimentos.md:311).
ConnectionsReturned == leaked = 0
=============================================================================
