------------------------------- MODULE Outage -------------------------------
(***************************************************************************)
(* The dead-letter queue over the Postgres breaker, in time: while the     *)
(* breaker is open every attempt fails, so whether a queued event survives *)
(* depends on the backoff schedule of the worker and on the timeout of the *)
(* breaker together.  What opens the breaker is a database that is down,   *)
(* events that it refuses and requests whose client has gone.  One         *)
(* replica; Redis is well; a delivery stands for its event.  The breaker   *)
(* and the pool are those of Breaker, the attempts and waits those of      *)
(* Backoff.                                                                *)
(*                                                                         *)
(* Time is in ticks.  A call is shorter than a tick, and so is the poll    *)
(* interval: an entry is tried in the tick in which it becomes ready, and  *)
(* the attempts come as early as they can.                                 *)
(***************************************************************************)
EXTENDS Backoff, FiniteSets

CONSTANTS
  Deliveries,       \* POST /webhook requests, each of an event of its own
  Poison,           \* those whose event Postgres refuses ("bad data", dlq.go:31)
  Worker,           \* the goroutine of dlq.Worker.Run
  PoolSize, MaxRequests, TripAfter, Troubles,   \* as in Breaker
  Interval,         \* of a closed breaker, postgres.go:18
  Timeout,          \* of an open breaker, postgres.go:19
  NoEntry           \* what the worker holds when it holds no entry

VARIABLES
  state, counts, due, pc, fresh, holds, broken, leaked, up, errors,   \* as in Breaker
  left,             \* ticks left to the breaker's expiry, unless half-open
  begun,            \* deliveries whose handler has called Insert
  gone,             \* those not yet answered whose context is cancelled
  retry,            \* the ZSET of the queue, with the ticks left to each score
  hand,             \* the entry that the worker is processing
  dead,             \* the list of dead entries, with the last refusal
  stored,           \* the table
  troubled,         \* history: in this tick the database was down or the breaker opened
  calm,             \* history: good events queued after the last outage, in a tick that
                    \* was without trouble until then
  spared            \* history: those of them queued after all trouble

Callers == Deliveries \cup {Worker}

Pg == INSTANCE Breaker WITH Rows <- TRUE

Entry == [by: Deliveries, attempts: 1..MaxAttempts]

ASSUME OutageAssumption ==
  /\ IsFiniteSet(Deliveries) /\ Worker \notin Deliveries
  /\ Poison \subseteq Deliveries
  /\ Poison # {} => "refused" \in Troubles
  /\ PoolSize \in Nat \ {0} /\ MaxRequests \in Nat \ {0} /\ TripAfter \in Nat \ {0}
  /\ Troubles \subseteq Pg!TroubleKinds
  /\ Interval \in Nat /\ Timeout \in Nat
  /\ NoEntry \notin Entry

postgres == <<state, counts, due, pc, fresh, holds, broken, leaked, up, errors>>
requests == <<begun, gone>>
queue == <<retry, hand, dead>>
trouble == <<troubled, calm, spared>>
vars == <<postgres, left, requests, queue, stored, trouble>>

Init ==
  /\ Pg!Init
  /\ left = Interval
  /\ begun = {}
  /\ gone = {}
  /\ retry = {}
  /\ hand = NoEntry
  /\ dead = {}
  /\ stored = {}
  /\ troubled = FALSE
  /\ calm = {}
  /\ spared = {}

-----------------------------------------------------------------------------
(* NotificationRepo.Insert through cbQuerier *)

\* toNewGeneration: when currentState or setState begins a generation, it sets
\* the expiry that the state asks for; a half-open breaker has none.
Arm ==
  left' = IF due \/ state' # state
          THEN CASE state' = "closed" -> Interval
                 [] state' = "open" -> Timeout
                 [] state' = "half-open" -> 0
          ELSE left

\* The inner QueryRow runs the statement: it commits, unless the database is down or
\* refuses the event, or the context ends while it waits for a connection or runs.
Statement(c, d) ==
  /\ Pg!IssueRow(c)
  /\ c \notin holds' => ~up \/ c \in gone
  /\ c \in broken' => ~up \/ c \in gone \/ d \in Poison
  /\ c \notin broken' => d \notin Poison
  /\ stored' = IF c \in broken' THEN stored ELSE stored \cup {d}

\* One step of the call of Insert by goroutine c for the event of d, and where it
\* leaves the call: "running", "stored" (or a duplicate), or failed: "open" and
\* "busy" by the breaker, "error" by the database or the end of the context.
Insert(c, d, result) ==
  /\ \/ /\ Pg!QueryRow(c)
        /\ result = IF pc'[c] = "query" THEN "running" ELSE "open"
        /\ UNCHANGED stored
     \/ Statement(c, d) /\ result = "running"
     \/ /\ Pg!Scan(c)
        /\ result = CASE pc'[c] = "row" -> "running"
                      [] pc'[c] = "idle" /\ state' = "half-open" -> "busy"
                      [] OTHER -> "open"
        /\ UNCHANGED stored
     \/ \E out \in {"result", "error"} :
          /\ out = "error" => ~up \/ c \in gone \/ c \in broken
          /\ Pg!ReturnWith(c, out)
          /\ result = IF out = "error" THEN "error" ELSE "stored"
          /\ UNCHANGED stored
  /\ Arm

Results == {"running", "stored", "open", "busy", "error"}
Failed(result) == result \in {"open", "busy", "error"}

-----------------------------------------------------------------------------
(* The handler, the worker and the queue *)

Waiting(e, delay) == [entry |-> e, wait |-> delay]

\* The breaker opens in this step, from closed or from half-open.
Opens == Pg!NowState # "open" /\ state' = "open"

\* Handle calls Insert, and Enqueue when it fails: with the same context, under
\* which Redis is not even called when it has ended.
Handle(d) ==
  /\ d \notin begun \/ pc[d] # "idle"
  /\ begun' = begun \cup {d}
  /\ \E result \in Results :
       LET queued == Failed(result) /\ d \notin gone
           calmly == queued /\ d \notin Poison /\ ~troubled'
       IN
       /\ Insert(d, d, result)
       /\ gone' = IF result = "running" THEN gone ELSE gone \ {d}
       /\ retry' = IF queued
                   THEN retry \cup {Waiting([by |-> d, attempts |-> 1], 0)}
                   ELSE retry
       /\ troubled' = (troubled \/ Opens)
       /\ calm' = IF calmly THEN calm \cup {d} ELSE calm
       /\ spared' = IF Opens THEN {} ELSE IF calmly THEN spared \cup {d} ELSE spared
  /\ UNCHANGED <<hand, dead>>

\* The client of delivery d disconnects before it is answered.
Disconnect(d) ==
  /\ "cancelled" \in Troubles
  /\ d \notin gone
  /\ d \notin begun \/ pc[d] # "idle"
  /\ gone' = gone \cup {d}
  /\ UNCHANGED <<postgres, left, begun, queue, stored, trouble>>

\* dequeueReady; entries that become ready in one tick come in any order.
Dequeue ==
  /\ hand = NoEntry
  /\ \E x \in retry :
       /\ x.wait = 0
       /\ retry' = retry \ {x}
       /\ hand' = x.entry
  /\ UNCHANGED <<postgres, left, requests, dead, stored, trouble>>

\* process: after a failure the entry goes back with its backoff, or is given up.
Process ==
  /\ hand # NoEntry
  /\ \E result \in Results :
       /\ Insert(Worker, hand.by, result)
       /\ hand' = IF result = "running" THEN hand ELSE NoEntry
       /\ retry' = IF Failed(result) /\ ~Exhausted(hand)
                   THEN LET n == hand.attempts + 1
                        IN retry \cup {Waiting([hand EXCEPT !.attempts = n], Delay(n))}
                   ELSE retry
       /\ dead' = IF Failed(result) /\ Exhausted(hand)
                  THEN dead \cup {[by |-> hand.by, why |-> result]}
                  ELSE dead
  /\ spared' = IF Opens THEN {} ELSE spared
  /\ troubled' = (troubled \/ Opens)
  /\ UNCHANGED <<requests, calm>>

-----------------------------------------------------------------------------
\* Mutant: a half-open breaker has an expiry.
ExpiresInAnyState == TRUE

\* currentState looks at the expiry of a closed and of an open breaker.
Expires == state # "half-open"

\* A tick passes once its calls and attempts are over.  The expiry has passed in
\* the tick after it (gobreaker: expiry.Before(now)).
Tick ==
  /\ hand = NoEntry /\ \A c \in Callers : pc[c] = "idle"
  /\ \A x \in retry : x.wait > 0
  /\ due' = (due \/ (Expires /\ left = 0))
  /\ left' = IF left = 0 THEN 0 ELSE left - 1
  /\ retry' = {[x EXCEPT !.wait = @ - 1] : x \in retry}
  /\ troubled' = ~up
  /\ UNCHANGED <<state, counts, pc, fresh, holds, broken, leaked, up, errors, requests,
                 hand, dead, stored, calm, spared>>

\* The database stops or starts answering.
Toggle ==
  /\ Pg!Toggle
  /\ troubled' = TRUE
  /\ calm' = {}
  /\ spared' = {}
  /\ UNCHANGED <<left, requests, queue, stored>>

Next ==
  \/ \E d \in Deliveries : Handle(d) \/ Disconnect(d)
  \/ Dequeue
  \/ Process
  \/ Tick
  \/ Toggle

Spec == Init /\ [][Next]_vars

-----------------------------------------------------------------------------
(* Properties *)

\* The values the variables take.
OutageTypeOK ==
  /\ Pg!BreakerTypeOK
  /\ left \in 0..(Interval + Timeout)
  /\ begun \subseteq Deliveries
  /\ gone \subseteq Deliveries
  /\ retry \subseteq [entry: Entry, wait: Nat]
  /\ hand \in Entry \cup {NoEntry}
  /\ dead \subseteq [by: Deliveries, why: {"open", "busy", "error"}]
  /\ stored \subseteq Deliveries \ Poison
  /\ troubled \in BOOLEAN
  /\ calm \subseteq begun \ Poison
  /\ spared \subseteq calm

\* An event that Postgres would take, queued after the last outage was over and after the
\* breaker last opened, is not given up: the attempts of the worker reach past the timeout
\* of the breaker (worker.go:12-15, postgres.go:19).  The one exception is a last attempt
\* that finds all the probes of the half-open breaker taken.
RecoveredSurvives == \A x \in dead : x.by \in spared => x.why = "busy"

\* The queue isolates what is bad (README.md:139): no event that Postgres would take,
\* queued after the last outage was over, is given up, with the same exception, and unless
\* it was queued in the tick in which the breaker opened.
BadEventsIsolated == \A x \in dead : x.by \in calm => x.why = "busy"

\* In time and under the traffic of handlers and worker the breaker remains one of
\* Breaker, so that what is proved of Breaker holds here.
ImplementsBreaker == Pg!Spec
=============================================================================
