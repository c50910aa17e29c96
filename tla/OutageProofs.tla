---------------------------- MODULE OutageProofs -----------------------------
(***************************************************************************)
(* Theorems about Outage, for any number of deliveries, any breaker and    *)
(* any schedule: that its breaker is the one of Breaker, of which          *)
(* BreakerProofs speaks, and when a queued event survives an outage.       *)
(***************************************************************************)
EXTENDS Outage, BackoffProofs, TLAPS

Proved == INSTANCE BreakerProofs WITH Rows <- TRUE

-----------------------------------------------------------------------------
(* The breaker of Outage *)

\* The settings of the breaker satisfy what Breaker assumes.
LEMMA BreakerSettings == Proved!BreakerAssumption
<1>1. \A S : Proved!IsFiniteSet(S) <=> IsFiniteSet(S)
  BY DEF Proved!IsFiniteSet, IsFiniteSet
<1> QED
  BY <1>1, OutageAssumption, FS_AddElement
     DEF Proved!BreakerAssumption, Callers, Proved!TroubleKinds, Pg!TroubleKinds

\* The breaker that Outage runs and the one that BreakerProofs speaks of are the same.
LEMMA SameBreaker ==
  /\ Pg!Init <=> Proved!Init
  /\ Pg!vars = Proved!vars
  /\ Pg!Next <=> Proved!Next
  /\ Pg!BreakerTypeOK <=> Proved!BreakerTypeOK
<1>1. Pg!Init <=> Proved!Init
  BY DEF Pg!Init, Proved!Init, Pg!NoCounts, Proved!NoCounts
<1>2. Pg!vars = Proved!vars
  BY DEF Pg!vars, Proved!vars
<1>3. Pg!Next <=> Proved!Next
  BY DEF Pg!Next, Proved!Next, Pg!Execute, Proved!Execute, Pg!QueryRow, Proved!QueryRow,
     Pg!IssueRow, Proved!IssueRow, Pg!Scan, Proved!Scan, Pg!Return, Proved!Return,
     Pg!ReturnWith, Proved!ReturnWith, Pg!Expire, Proved!Expire, Pg!Toggle, Proved!Toggle,
     Pg!breaker, Proved!breaker, Pg!BeforeRequest, Proved!BeforeRequest, Pg!Reject,
     Proved!Reject, Pg!Settle, Proved!Settle, Pg!SetState, Proved!SetState, Pg!Answers,
     Proved!Answers, Pg!Success, Proved!Success, Pg!AfterRequest, Proved!AfterRequest,
     Pg!OnSuccess, Proved!OnSuccess, Pg!OnFailure, Proved!OnFailure, Pg!Closes,
     Proved!Closes, Pg!ReadyToTrip, Proved!ReadyToTrip, Pg!Admits, Proved!Admits,
     Pg!Increment, Proved!Increment, Pg!NowState, Proved!NowState, Pg!NowCounts,
     Proved!NowCounts, Pg!NowFresh, Proved!NowFresh, Pg!NoCounts, Proved!NoCounts,
     Pg!FreeConnection, Proved!FreeConnection, Pg!Cardinality, Proved!Cardinality,
     Pg!IsFiniteSet, Proved!IsFiniteSet
<1>4. Pg!BreakerTypeOK <=> Proved!BreakerTypeOK
  BY DEF Pg!BreakerTypeOK, Proved!BreakerTypeOK, Pg!Counts, Proved!Counts, Pg!Cardinality,
     Proved!Cardinality, Pg!IsFiniteSet, Proved!IsFiniteSet
<1> QED
  BY <1>1, <1>2, <1>3, <1>4

\* A step of Insert is a step of its caller on the breaker.
LEMMA InsertRefines ==
  ASSUME NEW c \in Callers, NEW d, NEW result, Insert(c, d, result)
  PROVE  Pg!Next
  BY DEF Insert, Statement, Pg!Next, Pg!Return

\* Every step of Outage is a step of the breaker or leaves it alone.
LEMMA NextRefines ==
  ASSUME due \in BOOLEAN, [Next]_vars
  PROVE  [Pg!Next]_(Pg!vars)
<1>1. ASSUME NEW d \in Deliveries, Handle(d) PROVE Pg!Next
  BY <1>1, InsertRefines DEF Handle, Callers
<1>2. ASSUME Process PROVE Pg!Next
  BY <1>2, InsertRefines DEF Process, Callers
<1>3. ASSUME Tick PROVE [Pg!Next]_(Pg!vars)
  <2>1. UNCHANGED <<state, counts, pc, fresh, holds, broken, leaked, up, errors>>
    BY <1>3 DEF Tick
  <2>2. CASE due' = due
    BY <2>1, <2>2 DEF Pg!vars
  <2>3. CASE due' # due
    <3>1. due = FALSE /\ due' = TRUE /\ state # "half-open"
      BY <1>3, <2>3 DEF Tick, Expires
    <3>2. Pg!Expire
      BY <2>1, <3>1 DEF Pg!Expire
    <3> QED
      BY <3>2 DEF Pg!Next
  <2> QED
    BY <2>2, <2>3
<1>4. ASSUME Dequeue \/ (\E d \in Deliveries : Disconnect(d)) \/ UNCHANGED vars
      PROVE  UNCHANGED Pg!vars
  BY <1>4 DEF Dequeue, Disconnect, vars, postgres, Pg!vars
<1>5. ASSUME Toggle PROVE Pg!Next
  BY <1>5 DEF Toggle, Pg!Next
<1> QED
  BY <1>1, <1>2, <1>3, <1>4, <1>5 DEF Next

\* What BreakerProofs proves of a step holds for every step of Outage.
LEMMA StepBreaker == Proved!BreakerInv /\ [Next]_vars => Proved!BreakerInv'
<1> SUFFICES ASSUME Proved!BreakerInv, [Next]_vars PROVE Proved!BreakerInv'
  OBVIOUS
<1>1. due \in BOOLEAN
  BY DEF Proved!BreakerInv, Proved!BreakerTypeOK
<1>2. [Pg!Next]_(Pg!vars)
  BY <1>1, NextRefines
<1>3. [Proved!Next]_(Proved!vars)
  BY <1>2, SameBreaker DEF Pg!vars, Proved!vars
<1> QED
  BY <1>3, Proved!StepInv, BreakerSettings DEF Proved!BreakerAssumption

LEMMA InitBreaker == Init => Proved!BreakerInv
  BY Proved!InitInv, SameBreaker, BreakerSettings DEF Proved!BreakerAssumption, Init

LEMMA BreakerHolds == Spec => []Proved!BreakerInv
  BY InitBreaker, StepBreaker, PTL DEF Spec

\* In time, and under the traffic of handlers and worker, the breaker remains one of
\* Breaker (postgres.go:15-24): no schedule of the queue makes it do anything new.
THEOREM OutageRefinement == Spec => ImplementsBreaker
<1>1. Init => Pg!Init
  BY DEF Init
<1>2. Proved!BreakerInv => due \in BOOLEAN
  BY DEF Proved!BreakerInv, Proved!BreakerTypeOK
<1>3. due \in BOOLEAN /\ [Next]_vars => [Pg!Next]_(Pg!vars)
  BY NextRefines
<1> QED
  BY <1>1, <1>2, <1>3, BreakerHolds, PTL DEF Spec, ImplementsBreaker, Pg!Spec

-----------------------------------------------------------------------------
(* Type correctness *)

\* A row that holds an error belongs to a call in progress.
BrokenInCall == \A c \in broken : pc[c] \in {"scan", "row"}

\* The values of the variables that are not the breaker's.
QueueType ==
  /\ left \in 0..(Interval + Timeout)
  /\ begun \subseteq Deliveries
  /\ gone \subseteq Deliveries
  /\ retry \subseteq [entry: Entry, wait: Nat]
  /\ hand \in Entry \cup {NoEntry}
  /\ dead \subseteq [by: Deliveries, why: {"open", "busy", "error"}]
  /\ stored \subseteq Deliveries \ Poison
  /\ troubled \in BOOLEAN
  /\ calm \subseteq begun \ Poison
  /\ spared \subseteq calm

TypeInv == Proved!BreakerInv /\ BrokenInCall /\ QueueType

\* The values the breaker's variables have before and after a step.
LEMMA BreakerType ==
  ASSUME Proved!BreakerInv
  PROVE  /\ state \in {"closed", "half-open", "open"}
         /\ due \in BOOLEAN /\ up \in BOOLEAN
         /\ pc \in [Callers -> {"idle", "query", "scan", "exec", "row"}]
         /\ broken \subseteq Callers
         /\ state = "half-open" => ~due
  BY DEF Proved!BreakerInv, Proved!BreakerTypeOK, Proved!FreshIsRunning

\* What a step of Insert does to its caller and to the table.
LEMMA InsertType ==
  ASSUME TypeInv, Proved!BreakerInv', NEW c \in Callers, NEW d \in Deliveries,
         NEW result, Insert(c, d, result)
  PROVE  /\ BrokenInCall' /\ left' \in 0..(Interval + Timeout)
         /\ stored' \subseteq Deliveries \ Poison
         /\ \A b \in Callers \ {c} : pc'[b] = pc[b]
<1> USE BreakerType DEF TypeInv, QueueType
<1>1. left' \in 0..(Interval + Timeout)
  <2>1. state' \in {"closed", "half-open", "open"}
    BY DEF Proved!BreakerInv, Proved!BreakerTypeOK
  <2> QED
    BY <2>1, OutageAssumption DEF Insert, Arm
<1>2. CASE Pg!QueryRow(c) /\ UNCHANGED stored
  BY <1>1, <1>2 DEF Pg!QueryRow, BrokenInCall
<1>3. CASE Statement(c, d)
  <2>1. /\ pc[c] = "query" /\ pc' = [pc EXCEPT ![c] = "scan"]
        /\ broken' \in {broken, broken \cup {c}}
    BY <1>3 DEF Statement, Pg!IssueRow
  <2>2. BrokenInCall' /\ \A b \in Callers \ {c} : pc'[b] = pc[b]
    BY <2>1 DEF BrokenInCall
  <2>3. stored' \subseteq Deliveries \ Poison
    BY <1>3 DEF Statement
  <2> QED
    BY <1>1, <2>2, <2>3
<1>4. CASE Pg!Scan(c) /\ UNCHANGED stored
  BY <1>1, <1>4 DEF Pg!Scan, BrokenInCall
<1>5. ASSUME NEW out, Pg!ReturnWith(c, out), UNCHANGED stored
      PROVE  /\ BrokenInCall' /\ stored' \subseteq Deliveries \ Poison
             /\ \A b \in Callers \ {c} : pc'[b] = pc[b]
  BY <1>5 DEF Pg!ReturnWith, BrokenInCall
<1> QED
  BY <1>1, <1>2, <1>3, <1>4, <1>5 DEF Insert

LEMMA StepType == TypeInv /\ [Next]_vars => TypeInv'
<1> SUFFICES ASSUME TypeInv, [Next]_vars PROVE TypeInv'
  OBVIOUS
<1>a. Proved!BreakerInv'
  BY StepBreaker DEF TypeInv
<1> USE DEF QueueType
<1>1. ASSUME NEW d \in Deliveries, Handle(d) PROVE TypeInv'
  <2>1. PICK result \in Results :
          /\ Insert(d, d, result)
          /\ retry' = IF Failed(result) /\ d \notin gone
                      THEN retry \cup {Waiting([by |-> d, attempts |-> 1], 0)}
                      ELSE retry
    BY <1>1 DEF Handle
  <2>2. /\ BrokenInCall' /\ left' \in 0..(Interval + Timeout)
        /\ stored' \subseteq Deliveries \ Poison
    BY <1>a, <2>1, InsertType DEF Callers
  <2>3. Waiting([by |-> d, attempts |-> 1], 0) \in [entry: Entry, wait: Nat]
    BY BackoffAssumption DEF Waiting, Entry
  <2>4. /\ begun' \subseteq Deliveries /\ gone' \subseteq Deliveries
        /\ calm' \subseteq begun' \ Poison /\ spared' \subseteq calm'
        /\ troubled' \in BOOLEAN /\ UNCHANGED <<hand, dead>>
    BY <1>1 DEF Handle, Opens, TypeInv
  <2> QED
    BY <1>a, <2>1, <2>2, <2>3, <2>4 DEF TypeInv
<1>2. ASSUME Dequeue PROVE TypeInv'
  BY <1>2, <1>a DEF Dequeue, TypeInv, postgres, requests, trouble, BrokenInCall
<1>3. ASSUME Process PROVE TypeInv'
  <2>1. hand \in Entry /\ hand.by \in Deliveries /\ hand.attempts \in 1..MaxAttempts
    BY <1>3 DEF Process, TypeInv, Entry
  <2>2. PICK result \in Results :
          /\ Insert(Worker, hand.by, result)
          /\ hand' = IF result = "running" THEN hand ELSE NoEntry
          /\ retry' = IF Failed(result) /\ ~Exhausted(hand)
                      THEN LET n == hand.attempts + 1
                           IN retry \cup {Waiting([hand EXCEPT !.attempts = n], Delay(n))}
                      ELSE retry
          /\ dead' = IF Failed(result) /\ Exhausted(hand)
                     THEN dead \cup {[by |-> hand.by, why |-> result]}
                     ELSE dead
    BY <1>3 DEF Process
  <2>3. /\ BrokenInCall' /\ left' \in 0..(Interval + Timeout)
        /\ stored' \subseteq Deliveries \ Poison
    BY <1>a, <2>1, <2>2, InsertType DEF Callers
  <2>4. ~Exhausted(hand) =>
          Waiting([hand EXCEPT !.attempts = hand.attempts + 1], Delay(hand.attempts + 1))
            \in [entry: Entry, wait: Nat]
    BY <2>1, DelayType, BackoffAssumption DEF Waiting, Entry, Exhausted
  <2>5. retry' \subseteq [entry: Entry, wait: Nat]
    BY <2>2, <2>4 DEF TypeInv
  <2>6. dead' \subseteq [by: Deliveries, why: {"open", "busy", "error"}]
    BY <2>1, <2>2 DEF TypeInv, Failed
  <2>7. /\ UNCHANGED <<begun, gone, calm>>
        /\ spared' \subseteq calm' /\ troubled' \in BOOLEAN
    BY <1>3 DEF Process, Opens, requests, TypeInv
  <2> QED
    BY <1>a, <2>1, <2>2, <2>3, <2>5, <2>6, <2>7 DEF TypeInv
<1>4. ASSUME Tick PROVE TypeInv'
  <2>1. left' \in 0..(Interval + Timeout)
    BY <1>4, OutageAssumption DEF Tick, TypeInv
  <2>2. \A x \in retry : x.entry \in Entry /\ x.wait \in Nat /\ x.wait > 0
    BY <1>4 DEF Tick, TypeInv
  <2>3. \A x \in retry : [x EXCEPT !.wait = @ - 1] \in [entry: Entry, wait: Nat]
    BY <2>2 DEF TypeInv
  <2>4. retry' \subseteq [entry: Entry, wait: Nat]
    BY <1>4, <2>3 DEF Tick
  <2>5. troubled' \in BOOLEAN
    BY <1>4 DEF Tick
  <2>6. UNCHANGED <<pc, broken, begun, gone, hand, dead, stored, calm, spared>>
    BY <1>4 DEF Tick, requests
  <2> QED
    BY <1>a, <2>1, <2>4, <2>5, <2>6 DEF TypeInv, BrokenInCall
<1>5. ASSUME Toggle PROVE TypeInv'
  BY <1>5, <1>a DEF Toggle, Pg!Toggle, requests, queue, TypeInv, BrokenInCall
<1>6. ASSUME NEW d \in Deliveries, Disconnect(d) PROVE TypeInv'
  BY <1>6, <1>a DEF Disconnect, postgres, queue, trouble, TypeInv, BrokenInCall
<1>7. ASSUME UNCHANGED vars PROVE TypeInv'
  BY <1>7, <1>a DEF vars, postgres, requests, queue, trouble, TypeInv, BrokenInCall
<1> QED
  BY <1>1, <1>2, <1>3, <1>4, <1>5, <1>6, <1>7 DEF Next

LEMMA TypeInvariant == Spec => []TypeInv
<1>1. Init => TypeInv
  <2> SUFFICES ASSUME Init PROVE TypeInv
    OBVIOUS
  <2>1. BrokenInCall
    BY DEF Init, Pg!Init, BrokenInCall
  <2>2. left \in 0..(Interval + Timeout)
    BY OutageAssumption DEF Init
  <2>3. QueueType
    BY <2>2 DEF Init, QueueType
  <2> QED
    BY <2>1, <2>3, InitBreaker DEF TypeInv
<1> QED
  BY <1>1, StepType, PTL DEF Spec

\* Every variable keeps its type; no event that Postgres refuses is ever stored, and no
\* entry counts more than MaxAttempts attempts (worker.go:69).
THEOREM OutageTypeCorrect == Spec => []OutageTypeOK
<1>1. TypeInv => OutageTypeOK
  BY SameBreaker DEF TypeInv, QueueType, OutageTypeOK, Proved!BreakerInv
<1> QED
  BY <1>1, TypeInvariant, PTL

-----------------------------------------------------------------------------
(* What survives an outage *)

\* The database answers, and only an event that it refuses fails in the worker's hand.
CallsAreWell == up /\ (Worker \in broken => hand # NoEntry /\ hand.by \in Poison)

\* The breaker is open, and its timeout has not passed.
Shut == state = "open" /\ ~due

\* The handler of d is through with Insert.
Settled(d) == d \in begun /\ pc[d] = "idle"

\* While the breaker is shut an entry with n attempts behind it has waited Schedule[n]
\* since its delivery failed, and the delivery failed when less than Timeout was left to
\* the breaker.
Reaches(n, wait) == left + Schedule[n] < Timeout + wait

Survival ==
  /\ ~troubled => CallsAreWell
  /\ spared # {} => ~troubled
  /\ state = "open" => left <= Timeout
  /\ Shut /\ ~troubled => left < Timeout
  /\ \A x \in retry :
       /\ Settled(x.entry.by)
       /\ x.entry.by \in spared /\ Shut => Reaches(x.entry.attempts, x.wait)
  /\ hand # NoEntry =>
       /\ Settled(hand.by)
       /\ hand.by \in spared /\ Shut => Reaches(hand.attempts, 0)
  /\ \A x \in dead :
       /\ Settled(x.by)
       /\ x.by \in spared => x.why = "busy"

\* How a step of Insert ends, and where an error of its row comes from.
LEMMA InsertOutcome ==
  ASSUME TypeInv, Proved!BreakerInv', NEW c \in Callers, NEW d \in Deliveries,
         NEW result, Insert(c, d, result)
  PROVE  /\ up' = up
         /\ result # "running" => pc'[c] = "idle" /\ c \notin broken'
         /\ result = "open" => Shut
         /\ result = "error" => ~up \/ c \in gone \/ c \in broken
         /\ c \in broken' => c \in broken \/ ~up \/ c \in gone \/ d \in Poison
         /\ \A b \in Callers \ {c} : b \in broken' <=> b \in broken
<1> USE BreakerType DEF TypeInv
<1>1. CASE /\ Pg!QueryRow(c)
           /\ result = IF pc'[c] = "query" THEN "running" ELSE "open"
  <2>1. pc[c] = "idle" /\ up' = up /\ broken' = broken
    BY <1>1 DEF Pg!QueryRow
  <2>2. pc' = IF Pg!NowState = "open" THEN pc ELSE [pc EXCEPT ![c] = "query"]
    BY <1>1 DEF Pg!QueryRow
  <2>3. CASE Pg!NowState = "open"
    BY <1>1, <2>1, <2>2, <2>3 DEF Pg!NowState, Shut, BrokenInCall
  <2>4. CASE Pg!NowState # "open"
    BY <1>1, <2>1, <2>2, <2>4
  <2> QED
    BY <2>3, <2>4
<1>2. CASE Statement(c, d) /\ result = "running"
  BY <1>2 DEF Statement, Pg!IssueRow
<1>3. CASE /\ Pg!Scan(c)
           /\ result = CASE pc'[c] = "row" -> "running"
                         [] pc'[c] = "idle" /\ state' = "half-open" -> "busy"
                         [] OTHER -> "open"
  <2>1. state' = Pg!NowState /\ up' = up /\ broken' \in {broken, broken \ {c}}
    BY <1>3 DEF Pg!Scan, Pg!BeforeRequest, Pg!Reject, Pg!Settle
  <2>2. CASE pc' = [pc EXCEPT ![c] = "row"]
    <3>1. pc'[c] = "row" /\ result = "running"
      BY <1>3, <2>2
    <3> QED
      BY <2>1, <3>1
  <2>3. CASE Pg!Reject /\ pc' = [pc EXCEPT ![c] = "idle"] /\ broken' = broken \ {c}
    <3>1. pc'[c] = "idle" /\ state' \in {"open", "half-open"}
      BY <2>1, <2>3 DEF Pg!Reject, Pg!Admits, Pg!NowState
    <3>2. result = IF state' = "half-open" THEN "busy" ELSE "open"
      BY <1>3, <3>1
    <3>3. Pg!NowState = "open" => Shut
      BY DEF Pg!NowState, Shut
    <3> QED
      BY <2>1, <2>3, <3>1, <3>2, <3>3
  <2> QED
    BY <1>3, <2>2, <2>3 DEF Pg!Scan
<1>4. ASSUME NEW out \in {"result", "error"},
             out = "error" => ~up \/ c \in gone \/ c \in broken,
             Pg!ReturnWith(c, out), result = IF out = "error" THEN "error" ELSE "stored"
      PROVE  /\ up' = up /\ pc'[c] = "idle" /\ broken' = broken \ {c}
             /\ result \in {"error", "stored"}
             /\ result = "error" => ~up \/ c \in gone \/ c \in broken
  BY <1>4 DEF Pg!ReturnWith
<1> QED
  BY <1>1, <1>2, <1>3, <1>4 DEF Insert

\* A step that does not open the breaker leaves its expiry alone while it is shut.
LEMMA InsertExpiry ==
  ASSUME TypeInv, Proved!BreakerInv', Survival,
         NEW c \in Callers, NEW d \in Deliveries, NEW result, Insert(c, d, result),
         troubled' = (troubled \/ Opens)
  PROVE  /\ state' = "open" => left' <= Timeout
         /\ Shut' /\ ~troubled' => Shut /\ left' = left /\ left' < Timeout
<1> USE BreakerType DEF TypeInv, QueueType
<1>1. state' = "open" => left' <= Timeout
  BY OutageAssumption DEF Insert, Arm, Survival
<1>2. Shut' /\ ~troubled' => Shut
  BY DEF Opens, Pg!NowState, Shut
<1>3. Shut' /\ Shut => left' = left
  BY DEF Insert, Arm, Shut
<1> QED
  BY <1>1, <1>2, <1>3 DEF Survival

LEMMA HandleSurvives ==
  ASSUME TypeInv, Proved!BreakerInv', Survival, NEW d \in Deliveries, Handle(d)
  PROVE  Survival'
<1>1. PICK result \in Results :
        /\ Insert(d, d, result)
        /\ retry' = IF Failed(result) /\ d \notin gone
                    THEN retry \cup {Waiting([by |-> d, attempts |-> 1], 0)}
                    ELSE retry
        /\ troubled' = (troubled \/ Opens)
        /\ \/ spared' = {} \/ spared' = spared
           \/ spared' = spared \cup {d} /\ ~troubled'
        /\ Opens => spared' = {}
  BY DEF Handle
<1>2. /\ begun' = begun \cup {d} /\ hand' = hand /\ dead' = dead /\ ~Settled(d)
  BY DEF Handle, Settled
<1>3. d \in Callers /\ d # Worker /\ Worker \in Callers
  BY OutageAssumption DEF Callers
<1>4. /\ ~troubled' => CallsAreWell'
      /\ state' = "open" => left' <= Timeout
      /\ Shut' /\ ~troubled' => Shut /\ left' = left /\ left' < Timeout
      /\ result # "running" => pc'[d] = "idle"
      /\ \A b \in Deliveries \ {d} : pc'[b] = pc[b]
  <2>1. ~troubled' => CallsAreWell'
    BY <1>1, <1>2, <1>3, InsertOutcome DEF CallsAreWell, Survival
  <2>2. \A b \in Deliveries \ {d} : pc'[b] = pc[b]
    BY <1>1, <1>3, InsertType DEF Callers
  <2> QED
    BY <1>1, <1>3, <2>1, <2>2, InsertOutcome, InsertExpiry
<1>5. spared' # {} => ~troubled'
  BY <1>1 DEF Survival
<1>6. ASSUME NEW b \in Deliveries, Settled(b)
      PROVE  Settled(b)' /\ (b \in spared' => b \in spared)
  BY <1>1, <1>2, <1>4, <1>6 DEF Settled
<1>7. ASSUME NEW x \in retry'
      PROVE  /\ Settled(x.entry.by)'
             /\ x.entry.by \in spared' /\ Shut' => Reaches(x.entry.attempts, x.wait)'
  <2>1. CASE x \in retry
    <3>1. x.entry.by \in Deliveries /\ Settled(x.entry.by)
      BY <2>1 DEF TypeInv, QueueType, Entry, Survival
    <3>2. x.entry.by \in spared' /\ Shut' => Reaches(x.entry.attempts, x.wait) /\ left' = left
      BY <1>4, <1>5, <1>6, <2>1, <3>1 DEF Survival
    <3> QED
      BY <1>6, <3>1, <3>2 DEF Reaches
  <2>2. CASE x \notin retry
    <3>1. Failed(result) /\ x = Waiting([by |-> d, attempts |-> 1], 0)
      BY <1>1, <2>2
    <3>2. x.entry.by = d /\ x.entry.attempts = 1 /\ x.wait = 0
      BY <3>1 DEF Waiting
    <3>3. Settled(d)'
      BY <1>2, <1>4, <3>1 DEF Settled, Failed
    <3>4. d \in spared' /\ Shut' => left' < Timeout /\ left' \in Nat
      BY <1>4, <1>5, <1>1, <1>3, InsertType, OutageAssumption
    <3>5. d \in spared' /\ Shut' => Reaches(1, 0)'
      BY <3>4, ScheduleSteps, OutageAssumption DEF Reaches
    <3> QED
      BY <3>2, <3>3, <3>5 DEF Reaches
  <2> QED
    BY <2>1, <2>2
<1>8. ASSUME hand' # NoEntry
      PROVE  /\ Settled(hand.by)'
             /\ hand'.by \in spared' /\ Shut' => Reaches(hand.attempts, 0)'
  <2>1. hand.by \in Deliveries /\ Settled(hand.by)
    BY <1>2, <1>8 DEF TypeInv, QueueType, Entry, Survival
  <2>2. hand.by \in spared' /\ Shut' => Reaches(hand.attempts, 0) /\ left' = left
    BY <1>2, <1>4, <1>5, <1>6, <1>8, <2>1 DEF Survival
  <2> QED
    BY <1>2, <1>6, <2>1, <2>2 DEF Reaches, Settled
<1>9. ASSUME NEW x \in dead'
      PROVE  Settled(x.by)' /\ (x.by \in spared' => x.why = "busy")
  BY <1>2, <1>6, <1>9 DEF TypeInv, QueueType, Survival
<1> QED
  BY <1>4, <1>5, <1>7, <1>8, <1>9 DEF Survival

LEMMA ProcessSurvives ==
  ASSUME Timeout <= TotalBackoff, TypeInv, Proved!BreakerInv', Survival, Process
  PROVE  Survival'
<1>1. PICK result \in Results :
        /\ Insert(Worker, hand.by, result)
        /\ hand' = IF result = "running" THEN hand ELSE NoEntry
        /\ retry' = IF Failed(result) /\ ~Exhausted(hand)
                    THEN LET n == hand.attempts + 1
                         IN retry \cup {Waiting([hand EXCEPT !.attempts = n], Delay(n))}
                    ELSE retry
        /\ dead' = IF Failed(result) /\ Exhausted(hand)
                   THEN dead \cup {[by |-> hand.by, why |-> result]}
                   ELSE dead
  BY DEF Process
<1>2. /\ troubled' = (troubled \/ Opens) /\ begun' = begun /\ hand # NoEntry
      /\ spared' = IF Opens THEN {} ELSE spared
  BY DEF Process, requests
<1>3. hand \in Entry /\ hand.by \in Deliveries /\ hand.attempts \in 1..MaxAttempts
  BY <1>2 DEF TypeInv, QueueType, Entry
<1>4. Worker \in Callers /\ Worker \notin Deliveries /\ Worker \notin gone
  BY OutageAssumption DEF Callers, TypeInv, QueueType
<1>5. /\ ~troubled' => CallsAreWell'
      /\ state' = "open" => left' <= Timeout
      /\ Shut' /\ ~troubled' => Shut /\ left' = left /\ left' < Timeout
      /\ result = "open" => Shut
      /\ ~troubled /\ hand.by \notin Poison => result # "error"
      /\ \A b \in Deliveries : pc'[b] = pc[b]
  <2>1. /\ up' = up
        /\ result # "running" => Worker \notin broken'
        /\ result = "open" => Shut
        /\ result = "error" => ~up \/ Worker \in broken
        /\ Worker \in broken' => Worker \in broken \/ ~up \/ hand.by \in Poison
    BY <1>1, <1>3, <1>4, InsertOutcome
  <2>2. ~troubled' => CallsAreWell'
    BY <1>1, <1>2, <2>1 DEF CallsAreWell, Survival
  <2>3. \A b \in Deliveries : pc'[b] = pc[b]
    BY <1>1, <1>3, <1>4, InsertType DEF Callers
  <2>4. /\ state' = "open" => left' <= Timeout
        /\ Shut' /\ ~troubled' => Shut /\ left' = left /\ left' < Timeout
    BY <1>1, <1>2, <1>3, <1>4, InsertExpiry
  <2>5. ~troubled /\ hand.by \notin Poison => result # "error"
    BY <2>1 DEF CallsAreWell, Survival
  <2> QED
    BY <2>1, <2>2, <2>3, <2>4, <2>5
<1>6. spared' # {} => ~troubled' /\ ~troubled
  BY <1>2 DEF Survival
<1>7. ASSUME NEW b \in Deliveries, Settled(b)
      PROVE  Settled(b)' /\ (b \in spared' => b \in spared)
  BY <1>2, <1>5, <1>7 DEF Settled
<1>8. left \in Nat /\ Timeout \in Nat /\ Schedule[hand.attempts] \in Nat
  BY <1>3, ScheduleSteps, OutageAssumption DEF TypeInv, QueueType
<1>9. Settled(hand.by) /\ (hand.by \in spared /\ Shut => Reaches(hand.attempts, 0))
  BY <1>2 DEF Survival
<1>10. ASSUME NEW x \in retry'
       PROVE  /\ Settled(x.entry.by)'
              /\ x.entry.by \in spared' /\ Shut' => Reaches(x.entry.attempts, x.wait)'
  <2>1. CASE x \in retry
    <3>1. x.entry.by \in Deliveries /\ Settled(x.entry.by)
      BY <2>1 DEF TypeInv, QueueType, Entry, Survival
    <3>2. x.entry.by \in spared' /\ Shut' => Reaches(x.entry.attempts, x.wait) /\ left' = left
      BY <1>5, <1>6, <1>7, <2>1, <3>1 DEF Survival
    <3> QED
      BY <1>7, <3>1, <3>2 DEF Reaches
  <2>2. CASE x \notin retry
    <3> DEFINE n == hand.attempts + 1
    <3>1. ~Exhausted(hand) /\ x = Waiting([hand EXCEPT !.attempts = n], Delay(n))
      BY <1>1, <2>2
    <3>2. x.entry.by = hand.by /\ x.entry.attempts = n /\ x.wait = Delay(n)
      BY <1>3, <3>1 DEF Waiting, Entry
    <3>3. Schedule[n] = Schedule[hand.attempts] + Delay(n) /\ Delay(n) \in Nat
      BY <1>3, ScheduleSteps, DelayType, BackoffAssumption
    <3>4. hand.by \in spared' /\ Shut' => Reaches(hand.attempts, 0) /\ left' = left
      BY <1>3, <1>5, <1>6, <1>7, <1>9
    <3>5. hand.by \in spared' /\ Shut' => left' + Schedule[n] < Timeout + Delay(n)
      BY <1>8, <3>3, <3>4 DEF Reaches
    <3> QED
      BY <1>3, <1>7, <1>9, <3>2, <3>5 DEF Reaches
  <2> QED
    BY <2>1, <2>2
<1>11. ASSUME hand' # NoEntry
       PROVE  /\ Settled(hand.by)'
              /\ hand'.by \in spared' /\ Shut' => Reaches(hand.attempts, 0)'
  <2>1. hand' = hand
    BY <1>1, <1>11
  <2>2. hand.by \in spared' /\ Shut' => Reaches(hand.attempts, 0) /\ left' = left
    BY <1>3, <1>5, <1>6, <1>7, <1>9
  <2> QED
    BY <1>3, <1>7, <1>9, <2>1, <2>2 DEF Reaches, Settled
<1>12. ASSUME NEW x \in dead'
       PROVE  Settled(x.by)' /\ (x.by \in spared' => x.why = "busy")
  <2>1. CASE x \in dead
    BY <1>7, <2>1 DEF TypeInv, QueueType, Survival
  <2>2. CASE x \notin dead
    <3>1. Failed(result) /\ Exhausted(hand) /\ x = [by |-> hand.by, why |-> result]
      BY <1>1, <2>2
    <3>2. x.by = hand.by /\ x.why = result
      BY <3>1
    <3>3. hand.attempts = MaxAttempts
      BY <1>3, <3>1, BackoffAssumption DEF Exhausted
    <3>4. ASSUME hand.by \in spared', result = "open" PROVE FALSE
      <4>1. Reaches(MaxAttempts, 0)
        BY <1>3, <1>5, <1>6, <1>7, <1>9, <3>3, <3>4
      <4> QED
        BY <1>8, <3>3, <4>1 DEF Reaches, TotalBackoff
    <3>5. hand.by \in spared' => result = "busy"
      BY <1>2, <1>5, <1>6, <3>1, <3>4 DEF Failed, TypeInv, QueueType
    <3> QED
      BY <1>3, <1>7, <1>9, <3>2, <3>5
  <2> QED
    BY <2>1, <2>2
<1> QED
  BY <1>5, <1>6, <1>10, <1>11, <1>12 DEF Survival

LEMMA StepSurvives ==
  ASSUME Timeout <= TotalBackoff, TypeInv, Survival, [Next]_vars
  PROVE  Survival'
<1>a. Proved!BreakerInv'
  BY StepBreaker DEF TypeInv
<1>1. ASSUME NEW d \in Deliveries, Handle(d) PROVE Survival'
  BY <1>1, <1>a, HandleSurvives
<1>2. ASSUME Dequeue PROVE Survival'
  <2>1. PICK x \in retry : x.wait = 0 /\ retry' = retry \ {x} /\ hand' = x.entry
    BY <1>2 DEF Dequeue
  <2>2. UNCHANGED <<state, due, pc, broken, up, left, begun, dead, troubled, spared>>
    BY <1>2 DEF Dequeue, postgres, requests, trouble
  <2> QED
    BY <1>2, <2>1, <2>2 DEF Dequeue, Survival, CallsAreWell, Shut, Settled, Reaches
<1>3. ASSUME Process PROVE Survival'
  BY <1>3, <1>a, ProcessSurvives
<1>4. ASSUME Tick PROVE Survival'
  <2>1. /\ \A c \in Callers : pc[c] = "idle"
        /\ hand = NoEntry /\ hand' = hand /\ troubled' = ~up /\ dead' = dead
        /\ UNCHANGED <<state, pc, broken, up, begun, spared>>
    BY <1>4 DEF Tick, requests
  <2>2. left \in Nat /\ Timeout \in Nat /\ (state = "open" => left <= Timeout)
    BY OutageAssumption DEF TypeInv, QueueType, Survival
  <2>3. left' = IF left = 0 THEN 0 ELSE left - 1
    BY <1>4 DEF Tick
  <2>4. Shut' => Shut /\ left > 0 /\ left' = left - 1
    <3>1. due' = (due \/ (state # "half-open" /\ left = 0))
      BY <1>4 DEF Tick, Expires
    <3>2. Shut' => Shut /\ left # 0
      BY <2>1, <3>1 DEF Shut
    <3> QED
      BY <2>2, <2>3, <3>2
  <2>5. /\ ~troubled' => CallsAreWell'
        /\ spared' # {} => ~troubled'
    BY <2>1, OutageAssumption DEF CallsAreWell, Survival, TypeInv, BrokenInCall, Callers
  <2>6. /\ state' = "open" => left' <= Timeout
        /\ Shut' => left' < Timeout
    BY <2>1, <2>2, <2>3, <2>4 DEF Shut
  <2>7. ASSUME NEW y \in retry'
        PROVE  /\ Settled(y.entry.by)'
               /\ y.entry.by \in spared' /\ Shut' => Reaches(y.entry.attempts, y.wait)'
    <3>1. PICK x \in retry : y = [x EXCEPT !.wait = @ - 1]
      BY <1>4 DEF Tick
    <3>2. /\ x.wait \in Nat /\ x.entry.attempts \in Nat
          /\ y.entry = x.entry /\ y.wait = x.wait - 1
      BY <3>1, BackoffAssumption DEF TypeInv, QueueType, Entry
    <3>3. /\ Settled(x.entry.by)
          /\ x.entry.by \in spared /\ Shut => Reaches(x.entry.attempts, x.wait)
      BY DEF Survival
    <3>4. Settled(y.entry.by)'
      BY <2>1, <3>2, <3>3 DEF Settled
    <3>5. Schedule[x.entry.attempts] \in Nat
      BY <3>2, ScheduleSteps
    <3> QED
      BY <2>1, <2>2, <2>4, <3>2, <3>3, <3>4, <3>5 DEF Reaches
  <2>8. \A x \in dead' : Settled(x.by)' /\ (x.by \in spared' => x.why = "busy")
    BY <2>1 DEF Survival, Settled
  <2> QED
    BY <2>1, <2>5, <2>6, <2>7, <2>8 DEF Survival
<1>5. ASSUME Toggle PROVE Survival'
  <2>1. /\ troubled' = TRUE /\ spared' = {}
        /\ UNCHANGED <<state, due, pc, left, begun, retry, hand, dead>>
    BY <1>5 DEF Toggle, Pg!Toggle, Pg!breaker, requests, queue
  <2> QED
    BY <2>1 DEF Survival, Settled
<1>6. ASSUME NEW d \in Deliveries, Disconnect(d) PROVE Survival'
  BY <1>6 DEF Disconnect, postgres, queue, trouble, Survival, CallsAreWell, Shut, Settled,
     Reaches
<1>7. ASSUME UNCHANGED vars PROVE Survival'
  BY <1>7 DEF vars, postgres, requests, queue, trouble, Survival, CallsAreWell, Shut,
     Settled, Reaches
<1> QED
  BY <1>1, <1>2, <1>3, <1>4, <1>5, <1>6, <1>7 DEF Next

\* Whatever the traffic, the disconnecting clients, the events that Postgres refuses, the
\* pool and the settings of the breaker: when the waits of the worker add up to the timeout
\* of the breaker (worker.go:12-15, postgres.go:19), an event that Postgres would take,
\* queued after the last outage was over and after the breaker last opened, is given up
\* only if its last attempt found all the probes taken.
THEOREM RecoveredEventsSurvive ==
  ASSUME Timeout <= TotalBackoff
  PROVE  Spec => []RecoveredSurvives
<1>1. Init => Survival
  BY DEF Init, Pg!Init, Survival, CallsAreWell, Shut
<1>2. TypeInv /\ Survival /\ [Next]_vars => Survival'
  BY StepSurvives
<1>3. Survival => RecoveredSurvives
  BY DEF Survival, RecoveredSurvives
<1> QED
  BY <1>1, <1>2, <1>3, TypeInvariant, PTL DEF Spec
=============================================================================
