---------------------------- MODULE IngestProofs ----------------------------
(***************************************************************************)
(* Proofs about Ingest, for every set of events, deliveries and replicas,  *)
(* every number of attempts and every backoff.                             *)
(***************************************************************************)
EXTENDS Ingest, BackoffProofs, TLAPS

-----------------------------------------------------------------------------
(* Type correctness *)

Busy == {"insert", "requeue", "bury", "publish"}

\* A worker holds an entry exactly while it processes one, and a process that
\* is down has no worker.
HandMatchesPc ==
  \A p \in Replicas :
    /\ hand[p] # NoEntry <=> wpc[p] \in Busy
    /\ proc[p] = "down" => wpc[p] = "stopped"

LEMMA InitType == Init => TypeOK
  BY DEF Init, TypeOK

LEMMA NextType == TypeOK /\ HandMatchesPc /\ [Next]_vars => TypeOK'
<1> SUFFICES ASSUME TypeOK, HandMatchesPc, [Next]_vars PROVE TypeOK'
  OBVIOUS
<1> USE DEF TypeOK, route, handlers, workers, redis, resends
<1>1. ASSUME NEW d \in Deliveries, Receive(d) PROVE TypeOK'
  BY <1>1 DEF Receive, Verdict
<1>2. ASSUME NEW d \in Deliveries, HandlerInsert(d) PROVE TypeOK'
  BY <1>2 DEF HandlerInsert, Insert
<1>3. ASSUME NEW d \in Deliveries, HandlerEnqueue(d) PROVE TypeOK'
  <2> DEFINE new == [event |-> body[d], by |-> d, failedAt |-> clock, attempts |-> 1]
  <2>1. new \in Entry
    BY BackoffAssumption DEF Entry
  <2>2. [entry |-> new, score |-> clock] \in Scheduled
    BY <2>1 DEF Scheduled
  <2> QED
    BY <1>3, <2>2 DEF HandlerEnqueue, enqueueAt, ZAdd, NewEntry, EnqueueStatus
<1>4. ASSUME NEW d \in Deliveries, HandlerPublish(d) PROVE TypeOK'
  BY <1>4 DEF HandlerPublish, Publish
<1>5. ASSUME NEW d \in Deliveries, Disconnect(d) PROVE TypeOK'
  BY <1>5 DEF Disconnect
<1>6. ASSUME NEW p \in Replicas, WorkerPop(p) PROVE TypeOK'
  BY <1>6 DEF WorkerPop, Remove, Scheduled
<1>7. ASSUME NEW p \in Replicas, WorkerInsert(p) PROVE TypeOK'
  BY <1>7, BackoffAssumption DEF WorkerInsert, Insert, HandMatchesPc, Busy, Exhausted, Entry
<1>8. ASSUME NEW p \in Replicas, WorkerRequeue(p) PROVE TypeOK'
  <2>1. hand[p] \in Entry /\ hand[p].attempts \in Nat
    BY <1>8, BackoffAssumption DEF WorkerRequeue, enqueueAt, HandMatchesPc, Busy, Entry
  <2>2. [entry |-> hand[p], score |-> clock + Delay(hand[p].attempts)] \in Scheduled
    BY <2>1, DelayType DEF Scheduled
  <2> QED
    BY <1>8, <2>2 DEF WorkerRequeue, enqueueAt, ZAdd, AfterRequeue
<1>9. ASSUME NEW p \in Replicas, WorkerBury(p) PROVE TypeOK'
  BY <1>9 DEF WorkerBury, MoveToDead, HandMatchesPc, Busy
<1>10. ASSUME NEW p \in Replicas, WorkerPublish(p) PROVE TypeOK'
  BY <1>10 DEF WorkerPublish, Publish, HandMatchesPc, Busy, Entry
<1>11. ASSUME NEW p \in Replicas, WorkerStop(p) PROVE TypeOK'
  BY <1>11 DEF WorkerStop
<1>12. ASSUME NEW p \in Replicas, ProcessStep(p) PROVE TypeOK'
  BY <1>12 DEF ProcessStep, Sigterm, Exit, Crash, Halt, Restart
<1>13. ASSUME Tick PROVE TypeOK'
  BY <1>13 DEF Tick
<1>14. ASSUME UNCHANGED vars PROVE TypeOK'
  BY <1>14 DEF vars
<1>15. ASSUME NEW x \in late, RunAgain(x) PROVE TypeOK'
  <2>1. x \in Scheduled /\ x.entry.by \in Deliveries
    BY DEF Scheduled, Entry
  <2> QED
    BY <1>15, <2>1 DEF RunAgain, ZAdd
<1> QED
  BY <1>1, <1>2, <1>3, <1>4, <1>5, <1>6, <1>7, <1>8, <1>9, <1>10, <1>11, <1>12,
     <1>13, <1>14, <1>15 DEF Next, HandlerStep, WorkerStep

LEMMA NextHand == TypeOK /\ HandMatchesPc /\ [Next]_vars => HandMatchesPc'
<1> SUFFICES ASSUME TypeOK, HandMatchesPc, [Next]_vars PROVE HandMatchesPc'
  OBVIOUS
<1> USE DEF TypeOK, HandMatchesPc, Busy, route, handlers, workers, redis, resends
<1>1. ASSUME NEW d \in Deliveries, HandlerStep(d) \/ Disconnect(d) PROVE HandMatchesPc'
  BY <1>1 DEF HandlerStep, Receive, HandlerInsert, HandlerEnqueue, HandlerPublish, Disconnect
<1>2. ASSUME NEW p \in Replicas, WorkerPop(p) PROVE HandMatchesPc'
  BY <1>2, NoEntryAssumption DEF WorkerPop, Scheduled
<1>3. ASSUME NEW p \in Replicas, WorkerInsert(p) PROVE HandMatchesPc'
  <2>1. hand[p] \in Entry
    BY <1>3 DEF WorkerInsert
  <2>2. ~Exhausted(hand[p]) =>
          [hand[p] EXCEPT !.attempts = @ + 1] \in Entry
    BY <2>1, BackoffAssumption DEF Exhausted, Entry
  <2> QED
    BY <1>3, <2>1, <2>2, NoEntryAssumption DEF WorkerInsert
<1>4. ASSUME NEW p \in Replicas,
             WorkerRequeue(p) \/ WorkerBury(p) \/ WorkerPublish(p) \/ WorkerStop(p)
      PROVE HandMatchesPc'
  BY <1>4 DEF WorkerRequeue, AfterRequeue, WorkerBury, WorkerPublish, WorkerStop
<1>5. ASSUME NEW p \in Replicas, ProcessStep(p) PROVE HandMatchesPc'
  BY <1>5 DEF ProcessStep, Sigterm, Exit, Crash, Halt, Restart
<1>6. ASSUME (\E x \in late : RunAgain(x)) \/ Tick \/ UNCHANGED vars PROVE HandMatchesPc'
  BY <1>6 DEF RunAgain, Tick, vars
<1> QED
  BY <1>1, <1>2, <1>3, <1>4, <1>5, <1>6 DEF Next, WorkerStep

LEMMA TypeAndHand == Spec => [](TypeOK /\ HandMatchesPc)
<1>1. Init => TypeOK /\ HandMatchesPc
  BY InitType DEF Init, HandMatchesPc, Busy
<1>2. TypeOK /\ HandMatchesPc /\ [Next]_vars => (TypeOK /\ HandMatchesPc)'
  BY NextType, NextHand
<1> QED
  BY <1>1, <1>2, PTL DEF Spec

\* Every variable keeps its type: no entry ever counts more than MaxAttempts
\* attempts (worker.go:69), no status is answered that Handle does not send.
THEOREM TypeCorrect == Spec => []TypeOK
  BY TypeAndHand, PTL

-----------------------------------------------------------------------------
(* One goroutine publishes an event *)

\* The goroutine that inserts a row was alone: nobody claimed the event before.
LEMMA NextSole == TypeOK /\ HandMatchesPc /\ SoleBroadcaster /\ [Next]_vars => SoleBroadcaster'
<1> SUFFICES ASSUME TypeOK, HandMatchesPc, SoleBroadcaster, [Next]_vars
             PROVE  SoleBroadcaster'
  OBVIOUS
<1> USE DEF TypeOK, SoleBroadcaster, HandlerClaims, WorkerClaims, route, handlers, workers, redis, resends
<1>1. ASSUME NEW d \in Deliveries, Receive(d) PROVE SoleBroadcaster'
  BY <1>1 DEF Receive
<1>2. ASSUME NEW d \in Deliveries, HandlerInsert(d) PROVE SoleBroadcaster'
  BY <1>2 DEF HandlerInsert, Insert, IsDuplicate
<1>3. ASSUME NEW d \in Deliveries, HandlerEnqueue(d) PROVE SoleBroadcaster'
  BY <1>3 DEF HandlerEnqueue
<1>4. ASSUME NEW d \in Deliveries, HandlerPublish(d) PROVE SoleBroadcaster'
  BY <1>4 DEF HandlerPublish, Publish
<1>5. ASSUME NEW d \in Deliveries, Disconnect(d) PROVE SoleBroadcaster'
  BY <1>5 DEF Disconnect
<1>6. ASSUME NEW p \in Replicas, WorkerPop(p) PROVE SoleBroadcaster'
  BY <1>6 DEF WorkerPop
<1>7. ASSUME NEW p \in Replicas, WorkerInsert(p) PROVE SoleBroadcaster'
  <2>1. hand[p] \in Entry
    BY <1>7 DEF WorkerInsert, HandMatchesPc, Busy
  <2> QED
    BY <1>7, <2>1 DEF WorkerInsert, Insert, IsDuplicate, Entry
<1>8. ASSUME NEW p \in Replicas, WorkerRequeue(p) \/ WorkerBury(p) \/ WorkerStop(p)
      PROVE SoleBroadcaster'
  BY <1>8 DEF WorkerRequeue, AfterRequeue, WorkerBury, WorkerStop
<1>9. ASSUME NEW p \in Replicas, WorkerPublish(p) PROVE SoleBroadcaster'
  <2>1. hand[p].event \in Events
    BY <1>9 DEF WorkerPublish, HandMatchesPc, Busy, Entry
  <2> QED
    BY <1>9, <2>1 DEF WorkerPublish, Publish
<1>10. ASSUME NEW p \in Replicas, ProcessStep(p) PROVE SoleBroadcaster'
  BY <1>10 DEF ProcessStep, Sigterm, Exit, Crash, Halt, Restart
<1>11. ASSUME (\E x \in late : RunAgain(x)) \/ Tick \/ UNCHANGED vars PROVE SoleBroadcaster'
  BY <1>11 DEF RunAgain, Tick, vars
<1> QED
  BY <1>1, <1>2, <1>3, <1>4, <1>5, <1>6, <1>7, <1>8, <1>9, <1>10, <1>11
     DEF Next, HandlerStep, WorkerStep

\* Under every fault, for any number of replicas and re-sendings: one goroutine
\* at most is entitled to publish an event, after the commit and only once.
THEOREM BroadcastOnce == Spec => []SoleBroadcaster
<1>1. Init => SoleBroadcaster
  BY DEF Init, SoleBroadcaster, HandlerClaims, WorkerClaims
<1> QED
  BY <1>1, TypeAndHand, NextSole, PTL DEF Spec

-----------------------------------------------------------------------------
(* An acknowledged webhook is stored *)

\* Rows are never deleted, 200 is answered after the duplicate was seen, 201 by
\* the goroutine whose row was committed.
LEMMA NextAcknowledged ==
  TypeOK /\ SoleBroadcaster /\ AcknowledgedIsStored /\ [Next]_vars => AcknowledgedIsStored'
<1> SUFFICES ASSUME TypeOK, SoleBroadcaster, AcknowledgedIsStored, [Next]_vars
             PROVE  AcknowledgedIsStored'
  OBVIOUS
<1> USE DEF TypeOK, AcknowledgedIsStored, route, handlers, workers, redis, resends
<1>1. ASSUME NEW d \in Deliveries, Receive(d) PROVE AcknowledgedIsStored'
  BY <1>1 DEF Receive, Verdict
<1>2. ASSUME NEW d \in Deliveries, HandlerInsert(d) PROVE AcknowledgedIsStored'
  BY <1>2 DEF HandlerInsert, Insert, IsDuplicate
<1>3. ASSUME NEW d \in Deliveries, HandlerEnqueue(d) PROVE AcknowledgedIsStored'
  BY <1>3 DEF HandlerEnqueue, EnqueueStatus
<1>4. ASSUME NEW d \in Deliveries, HandlerPublish(d) PROVE AcknowledgedIsStored'
  <2>1. body[d] \in rows
    BY <1>4 DEF HandlerPublish, SoleBroadcaster, HandlerClaims
  <2> QED
    BY <1>4, <2>1 DEF HandlerPublish
<1>5. ASSUME NEW p \in Replicas, WorkerInsert(p) PROVE AcknowledgedIsStored'
  BY <1>5 DEF WorkerInsert, Insert
<1>6. ASSUME NEW p \in Replicas,
             \/ WorkerPop(p) \/ WorkerRequeue(p) \/ WorkerBury(p)
             \/ WorkerPublish(p) \/ WorkerStop(p) \/ ProcessStep(p)
      PROVE AcknowledgedIsStored'
  BY <1>6 DEF WorkerPop, WorkerRequeue, WorkerBury, WorkerPublish, WorkerStop,
              ProcessStep, Sigterm, Exit, Crash, Halt, Restart
<1>7. ASSUME NEW d \in Deliveries, Disconnect(d) PROVE AcknowledgedIsStored'
  BY <1>7 DEF Disconnect
<1>8. ASSUME (\E x \in late : RunAgain(x)) \/ Tick \/ UNCHANGED vars
      PROVE AcknowledgedIsStored'
  BY <1>8 DEF RunAgain, Tick, vars
<1> QED
  BY <1>1, <1>2, <1>3, <1>4, <1>5, <1>6, <1>7, <1>8 DEF Next, HandlerStep, WorkerStep

\* A webhook answered 200 or 201 is in the table, under every fault.
THEOREM AcknowledgedStored == Spec => []AcknowledgedIsStored
<1>1. Init => AcknowledgedIsStored
  BY DEF Init, AcknowledgedIsStored
<1> QED
  BY <1>1, TypeAndHand, BroadcastOnce, NextAcknowledged, PTL DEF Spec

-----------------------------------------------------------------------------
(* An entry of the queue is in one place *)

\* The entry e was made by the handler of its delivery, for its event.
Made(e) == e.by \in queued /\ e.event = body[e.by]

\* Everything in the queue, or on the wire to it, was made by a handler, and a
\* handler that has queued its event, or tried to, has ended: it makes one entry.
EntryProvenance ==
  /\ \A x \in retry : Made(x.entry)
  /\ \A x \in late : pc[x.entry.by] = "done" /\ x.entry.event = body[x.entry.by]
  /\ \A p \in Replicas : hand[p] # NoEntry => Made(hand[p])
  /\ \A e \in dead : Made(e)
  /\ \A d \in queued : pc[d] = "done"

LEMMA NextProvenance ==
  TypeOK /\ HandMatchesPc /\ EntryProvenance /\ [Next]_vars => EntryProvenance'
<1> SUFFICES ASSUME TypeOK, HandMatchesPc, EntryProvenance, [Next]_vars
             PROVE  EntryProvenance'
  OBVIOUS
<1> USE DEF TypeOK, EntryProvenance, Made, route, handlers, workers, redis, resends
<1>1. ASSUME NEW d \in Deliveries,
             Receive(d) \/ HandlerInsert(d) \/ HandlerPublish(d) \/ Disconnect(d)
      PROVE EntryProvenance'
  <2>1. /\ UNCHANGED <<retry, hand, dead, queued, late, body>>
        /\ \A c \in Deliveries : pc[c] = "done" => pc'[c] = "done"
    BY <1>1 DEF Receive, HandlerInsert, HandlerPublish, Disconnect
  <2>2. \A x \in late : x.entry.by \in Deliveries
    BY DEF Scheduled, Entry
  <2> QED
    BY <2>1, <2>2
<1>2. ASSUME NEW d \in Deliveries, HandlerEnqueue(d) PROVE EntryProvenance'
  <2> DEFINE new == [event |-> body[d], by |-> d, failedAt |-> clock, attempts |-> 1]
             item == [entry |-> new, score |-> clock]
  <2>1. item.entry = new /\ new.by = d /\ new.event = body[d]
    OBVIOUS
  <2>2. /\ retry' \subseteq retry \cup {item} /\ late' \subseteq late \cup {item}
        /\ queued \subseteq queued' /\ queued' \subseteq queued \cup {d}
        /\ retry' \subseteq retry \/ d \in queued'
        /\ pc' = [pc EXCEPT ![d] = "done"] /\ UNCHANGED <<body, hand, dead>>
    BY <1>2 DEF HandlerEnqueue, enqueueAt, ZAdd, NewEntry
  <2> HIDE DEF item, new
  <2>3. /\ \A x \in retry' : x \in retry \/ (x = item /\ d \in queued')
        /\ \A x \in late' : x \in late \/ x = item
    BY <2>2
  <2>4. \A x \in late : x.entry.by \in Deliveries
    BY DEF Scheduled, Entry
  <2>5. pc'[d] = "done" /\ \A c \in Deliveries : pc[c] = "done" => pc'[c] = "done"
    BY <2>2
  <2>6. (\A x \in retry : Made(x.entry))'
    BY <2>1, <2>2, <2>3
  <2>7. (\A x \in late : pc[x.entry.by] = "done" /\ x.entry.event = body[x.entry.by])'
    BY <2>1, <2>2, <2>3, <2>4, <2>5
  <2>8. (\A p \in Replicas : hand[p] # NoEntry => Made(hand[p]))' /\ (\A e \in dead : Made(e))'
    BY <2>2
  <2>9. (\A c \in queued : pc[c] = "done")'
    BY <2>2, <2>5
  <2> QED
    BY <2>6, <2>7, <2>8, <2>9
<1>3. ASSUME NEW p \in Replicas, WorkerPop(p) PROVE EntryProvenance'
  BY <1>3 DEF WorkerPop, Remove
<1>4. ASSUME NEW p \in Replicas, WorkerInsert(p) PROVE EntryProvenance'
  <2>1. hand[p] \in Entry /\ hand[p] # NoEntry
    BY <1>4 DEF WorkerInsert, HandMatchesPc, Busy
  <2> DEFINE next == [hand[p] EXCEPT !.attempts = @ + 1]
  <2>2. next.by = hand[p].by /\ next.event = hand[p].event
    BY <2>1 DEF Entry
  <2>3. hand'[p] \in {hand[p], NoEntry, next} /\ \A q \in Replicas \ {p} : hand'[q] = hand[q]
    BY <1>4 DEF WorkerInsert
  <2> HIDE DEF next
  <2>4. UNCHANGED <<retry, dead, queued, late, body, pc>>
    BY <1>4 DEF WorkerInsert
  <2>5. \A q \in Replicas : hand'[q] # NoEntry => Made(hand[q]) /\ hand'[q].by = hand[q].by
                                                /\ hand'[q].event = hand[q].event
    BY <2>1, <2>2, <2>3
  <2> QED
    BY <2>4, <2>5
<1>5. ASSUME NEW p \in Replicas, WorkerRequeue(p) \/ WorkerBury(p) PROVE EntryProvenance'
  BY <1>5 DEF WorkerRequeue, enqueueAt, ZAdd, WorkerBury, MoveToDead, HandMatchesPc, Busy
<1>6. ASSUME NEW p \in Replicas, WorkerPublish(p) \/ WorkerStop(p) PROVE EntryProvenance'
  BY <1>6 DEF WorkerPublish, WorkerStop
<1>7. ASSUME NEW p \in Replicas, ProcessStep(p) PROVE EntryProvenance'
  <2>1. /\ UNCHANGED <<retry, dead, queued, late, body>>
        /\ \A c \in Deliveries : pc[c] = "done" => pc'[c] = "done"
        /\ \A q \in Replicas : hand'[q] = hand[q] \/ hand'[q] = NoEntry
    BY <1>7 DEF ProcessStep, Sigterm, Exit, Crash, Halt, Restart
  <2>2. \A x \in late : x.entry.by \in Deliveries
    BY DEF Scheduled, Entry
  <2> QED
    BY <2>1, <2>2
<1>8. ASSUME Tick \/ UNCHANGED vars PROVE EntryProvenance'
  BY <1>8 DEF Tick, vars
<1>9. ASSUME NEW x \in late, RunAgain(x) PROVE EntryProvenance'
  BY <1>9 DEF RunAgain, ZAdd, Scheduled, Entry
<1> QED
  BY <1>1, <1>2, <1>3, <1>4, <1>5, <1>6, <1>7, <1>8, <1>9 DEF Next, HandlerStep, WorkerStep

\* Taking something out of a finite set and putting something in adds nothing,
\* and putting something in adds one at most.
LEMMA OneForOne ==
  ASSUME NEW S, IsFiniteSet(S), NEW a \in S, NEW b, NEW T, T \subseteq (S \ {a}) \cup {b}
  PROVE  IsFiniteSet(T) /\ Cardinality(T) <= Cardinality(S)
<1> DEFINE R == S \ {a}
<1>1. IsFiniteSet(R) /\ Cardinality(R) = Cardinality(S) - 1 /\ Cardinality(S) \in Nat
  BY FS_RemoveElement, FS_CardinalityType
<1> HIDE DEF R
<1>2. IsFiniteSet(R \cup {b}) /\ Cardinality(R \cup {b}) <= Cardinality(S)
  <2>1. /\ IsFiniteSet(R \cup {b})
        /\ Cardinality(R \cup {b}) = IF b \in R THEN Cardinality(R) ELSE Cardinality(R) + 1
    BY <1>1, FS_AddElement
  <2> QED
    BY <1>1, <2>1
<1>3. T \subseteq R \cup {b}
  BY DEF R
<1>4. IsFiniteSet(T) /\ Cardinality(T) <= Cardinality(R \cup {b})
  BY <1>2, <1>3, FS_Subset
<1> QED
  BY <1>1, <1>2, <1>4, FS_CardinalityType

LEMMA OneMore ==
  ASSUME NEW S, IsFiniteSet(S), NEW b, NEW T, T \subseteq S \cup {b}
  PROVE  IsFiniteSet(T) /\ Cardinality(T) <= Cardinality(S) + 1
<1>1. IsFiniteSet(S \cup {b}) /\ Cardinality(S \cup {b}) <= Cardinality(S) + 1
  <2>1. /\ IsFiniteSet(S \cup {b}) /\ Cardinality(S) \in Nat
        /\ Cardinality(S \cup {b}) = IF b \in S THEN Cardinality(S) ELSE Cardinality(S) + 1
    BY FS_AddElement, FS_CardinalityType
  <2> QED
    BY <2>1
<1>2. IsFiniteSet(T) /\ Cardinality(T) <= Cardinality(S \cup {b})
  BY <1>1, FS_Subset
<1> QED
  BY <1>1, <1>2, FS_CardinalityType

\* The copies of every entry are finitely many, and no more than were put there.
Conserved == \A d \in Deliveries : IsFiniteSet(Places(d)) /\ Cardinality(Places(d)) <= 1 + resent[d]

\* What a step may do to the places of d: nothing new, one for one, or one more
\* for a resent ZADD or where there was none.
MayMove(d) ==
  \/ Places(d)' \subseteq Places(d) /\ resent'[d] = resent[d]
  \/ /\ \E a \in Places(d) : \E b : Places(d)' \subseteq (Places(d) \ {a}) \cup {b}
     /\ resent'[d] = resent[d]
  \/ \E b : Places(d)' \subseteq Places(d) \cup {b} /\ resent'[d] = resent[d] + 1
  \/ \E b : Places(d) = {} /\ Places(d)' \subseteq {b} /\ resent'[d] = resent[d]

LEMMA MovesConserve ==
  ASSUME TypeOK, Conserved, \A d \in Deliveries : MayMove(d)
  PROVE  Conserved'
<1> SUFFICES ASSUME NEW d \in Deliveries
             PROVE  IsFiniteSet(Places(d)') /\ Cardinality(Places(d)') <= 1 + resent'[d]
  BY DEF Conserved
<1> DEFINE S == Places(d)
           T == Places(d)'
<1>1. IsFiniteSet(S) /\ Cardinality(S) <= 1 + resent[d] /\ Cardinality(S) \in Nat
      /\ resent[d] \in Nat
  BY FS_CardinalityType DEF Conserved, TypeOK
<1>2. MayMove(d)
  OBVIOUS
<1>3. \/ T \subseteq S /\ resent'[d] = resent[d]
      \/ (\E a \in S : \E b : T \subseteq (S \ {a}) \cup {b}) /\ resent'[d] = resent[d]
      \/ \E b : T \subseteq S \cup {b} /\ resent'[d] = resent[d] + 1
      \/ \E b : S = {} /\ T \subseteq {b} /\ resent'[d] = resent[d]
  BY <1>2 DEF MayMove
<1> HIDE DEF S, T
<1>4. CASE T \subseteq S /\ resent'[d] = resent[d]
  <2>1. IsFiniteSet(T) /\ Cardinality(T) <= Cardinality(S) /\ Cardinality(T) \in Nat
    BY <1>1, <1>4, FS_Subset, FS_CardinalityType
  <2>2. Cardinality(T) <= 1 + resent'[d]
    BY <1>1, <1>4, <2>1
  <2> QED
    BY <2>1, <2>2 DEF T
<1>5. CASE (\E a \in S : \E b : T \subseteq (S \ {a}) \cup {b}) /\ resent'[d] = resent[d]
  <2>1. PICK a \in S : \E b : T \subseteq (S \ {a}) \cup {b}
    BY <1>5
  <2>2. IsFiniteSet(T) /\ Cardinality(T) <= Cardinality(S) /\ Cardinality(T) \in Nat
    BY <1>1, <2>1, OneForOne, FS_CardinalityType
  <2>3. Cardinality(T) <= 1 + resent'[d]
    BY <1>1, <1>5, <2>2
  <2> QED
    BY <2>2, <2>3 DEF T
<1>6. CASE \E b : T \subseteq S \cup {b} /\ resent'[d] = resent[d] + 1
  <2>1. PICK b : T \subseteq S \cup {b} /\ resent'[d] = resent[d] + 1
    BY <1>6
  <2>2. IsFiniteSet(T) /\ Cardinality(T) <= Cardinality(S) + 1 /\ Cardinality(T) \in Nat
    BY <1>1, <2>1, OneMore, FS_CardinalityType
  <2>3. Cardinality(T) <= 1 + resent'[d]
    BY <1>1, <2>1, <2>2
  <2> QED
    BY <2>2, <2>3 DEF T
<1>7. CASE \E b : S = {} /\ T \subseteq {b} /\ resent'[d] = resent[d]
  <2>1. PICK b : S = {} /\ T \subseteq {b} /\ resent'[d] = resent[d]
    BY <1>7
  <2>2. IsFiniteSet(T) /\ Cardinality(T) <= Cardinality(S) + 1 /\ Cardinality(T) \in Nat
    BY <1>1, <2>1, OneMore, FS_CardinalityType
  <2>3. Cardinality(T) <= 1 + resent'[d]
    BY <1>1, <2>1, <2>2, FS_EmptySet
  <2> QED
    BY <2>2, <2>3 DEF T
<1> QED
  BY <1>3, <1>4, <1>5, <1>6, <1>7

\* The places in terms of membership.
LEMMA PlacesAre ==
  ASSUME NEW d \in Deliveries, NEW a
  PROVE  a \in Places(d) <=>
           \/ \E x \in retry : x.entry.by = d /\ a = <<"retry", x>>
           \/ \E p \in Replicas : Holds(p, d) /\ a = <<"hand", p>>
           \/ \E x \in dead : x.by = d /\ a = <<"dead", x>>
  BY DEF Places

\* What a step adds to the places of d.
LEMMA PlacesGain ==
  ASSUME NEW d \in Deliveries, NEW R,
         \A x \in retry' : x.entry.by = d => x \in retry \/ <<"retry", x>> \in R,
         \A p \in Replicas : Holds(p, d)' => Holds(p, d) \/ <<"hand", p>> \in R,
         \A x \in dead' : x.by = d => x \in dead \/ <<"dead", x>> \in R
  PROVE  Places(d)' \subseteq Places(d) \cup R
<1> SUFFICES ASSUME NEW a \in Places(d)' PROVE a \in Places(d) \cup R
  OBVIOUS
<1>1. CASE \E x \in retry' : x.entry.by = d /\ a = <<"retry", x>>
  BY <1>1, PlacesAre
<1>2. CASE \E p \in Replicas : Holds(p, d)' /\ a = <<"hand", p>>
  BY <1>2, PlacesAre
<1>3. CASE \E x \in dead' : x.by = d /\ a = <<"dead", x>>
  BY <1>3, PlacesAre
<1> QED
  BY <1>1, <1>2, <1>3 DEF Places

\* What a step takes from them.
LEMMA PlacesLose ==
  ASSUME NEW d \in Deliveries
  PROVE  /\ \A x : <<"retry", x>> \in Places(d)' => x \in retry'
         /\ \A p : <<"hand", p>> \in Places(d)' => Holds(p, d)'
  BY DEF Places

\* A step that moves nothing, or only takes from hands.
LEMMA PlacesKept ==
  ASSUME UNCHANGED <<retry, dead, resent>>,
         \A p \in Replicas, d \in Deliveries : Holds(p, d)' => Holds(p, d)
  PROVE  \A d \in Deliveries : MayMove(d)
<1> SUFFICES ASSUME NEW d \in Deliveries PROVE MayMove(d)
  OBVIOUS
<1>1. Places(d)' \subseteq Places(d) \cup {}
  BY PlacesGain
<1> QED
  BY <1>1 DEF MayMove

\* The pop script takes the entry out of the set as it hands it over.
LEMMA PopMoves ==
  ASSUME TypeOK, HandMatchesPc, NEW p \in Replicas, WorkerPop(p)
  PROVE  \A d \in Deliveries : MayMove(d)
<1>1. PICK x \in retry :
        /\ retry' = retry \ {x}
        /\ hand' = hand \/ hand' = [hand EXCEPT ![p] = x.entry]
  BY DEF WorkerPop, Remove, workers
<1>2. /\ hand \in [Replicas -> Entry \cup {NoEntry}] /\ x.entry.by \in Deliveries
      /\ dead' = dead /\ resent' = resent
  BY DEF TypeOK, WorkerPop, Scheduled, Entry, resends
<1> SUFFICES ASSUME NEW d \in Deliveries PROVE MayMove(d)
  OBVIOUS
<1>3. CASE d # x.entry.by
  <2>1. \A q \in Replicas : Holds(q, d)' => Holds(q, d)
    BY <1>1, <1>2, <1>3 DEF Holds
  <2>2. Places(d)' \subseteq Places(d) \cup {}
    BY <1>1, <1>2, <2>1, PlacesGain
  <2> QED
    BY <1>2, <2>2 DEF MayMove
<1>4. CASE d = x.entry.by
  <2> DEFINE a == <<"retry", x>>
             b == <<"hand", p>>
  <2>1. \A q \in Replicas : Holds(q, d)' => Holds(q, d) \/ <<"hand", q>> \in {b}
    BY <1>1, <1>2 DEF Holds
  <2>2. Places(d)' \subseteq Places(d) \cup {b}
    BY <1>1, <1>2, <2>1, PlacesGain
  <2>3. a \notin Places(d)'
    BY <1>1, PlacesLose
  <2>4. a \in Places(d)
    BY <1>4, PlacesAre
  <2>5. Places(d)' \subseteq (Places(d) \ {a}) \cup {b}
    BY <2>2, <2>3
  <2> QED
    BY <1>2, <2>4, <2>5 DEF MayMove
<1> QED
  BY <1>3, <1>4

\* A worker gives the entry it held to the set or to the dead list.
LEMMA GivesBack ==
  ASSUME TypeOK, HandMatchesPc, NEW p \in Replicas, WorkerRequeue(p) \/ WorkerBury(p)
  PROVE  \A d \in Deliveries : MayMove(d)
<1>1. /\ hand \in [Replicas -> Entry \cup {NoEntry}] /\ hand' = [hand EXCEPT ![p] = NoEntry]
      /\ hand[p] # NoEntry /\ resent' = resent
  BY DEF TypeOK, HandMatchesPc, Busy, WorkerRequeue, WorkerBury, resends
<1> DEFINE x == [entry |-> hand[p], score |-> clock + Delay(hand[p].attempts)]
           b == IF WorkerBury(p) THEN <<"dead", hand[p]>> ELSE <<"retry", x>>
<1>2. /\ \A y \in retry' : y \in retry \/ (~WorkerBury(p) /\ y = x)
      /\ \A y \in dead' : y \in dead \/ (WorkerBury(p) /\ y = hand[p])
  BY DEF WorkerRequeue, enqueueAt, ZAdd, WorkerBury, MoveToDead
<1>3. x.entry = hand[p]
  OBVIOUS
<1> HIDE DEF x
<1>4. /\ \A y \in retry' : y \in retry \/ (<<"retry", y>> \in {b} /\ y.entry = hand[p])
      /\ \A y \in dead' : y \in dead \/ (<<"dead", y>> \in {b} /\ y = hand[p])
  BY <1>2, <1>3
<1> HIDE DEF b
<1> SUFFICES ASSUME NEW d \in Deliveries PROVE MayMove(d)
  OBVIOUS
<1>5. \A q \in Replicas : Holds(q, d)' => Holds(q, d) /\ q # p
  BY <1>1 DEF Holds
<1>6. CASE d # hand[p].by
  <2>1. Places(d)' \subseteq Places(d) \cup {}
    BY <1>4, <1>5, <1>6, PlacesGain
  <2> QED
    BY <1>1, <2>1 DEF MayMove
<1>7. CASE d = hand[p].by
  <2> DEFINE a == <<"hand", p>>
  <2>1. Places(d)' \subseteq Places(d) \cup {b}
    BY <1>4, <1>5, PlacesGain
  <2>2. a \notin Places(d)'
    BY <1>5, PlacesLose
  <2>3. a \in Places(d)
    BY <1>1, <1>7, PlacesAre DEF Holds
  <2>4. Places(d)' \subseteq (Places(d) \ {a}) \cup {b}
    BY <2>1, <2>2
  <2> QED
    BY <1>1, <2>3, <2>4 DEF MayMove
<1> QED
  BY <1>6, <1>7

\* A handler adds the entry of a delivery that has none.
LEMMA EnqueueMoves ==
  ASSUME TypeOK, EntryProvenance, NEW c \in Deliveries, HandlerEnqueue(c)
  PROVE  \A d \in Deliveries : MayMove(d)
<1> DEFINE x == [entry |-> NewEntry(c), score |-> clock]
<1>1. /\ \A y \in retry' : y \in retry \/ y = x
      /\ UNCHANGED <<hand, dead, resent>>
  BY DEF HandlerEnqueue, enqueueAt, ZAdd, workers
<1>2. x.entry.by = c
  BY DEF NewEntry
<1> HIDE DEF x
<1> SUFFICES ASSUME NEW d \in Deliveries PROVE MayMove(d)
  OBVIOUS
<1>3. \A q \in Replicas : Holds(q, d)' => Holds(q, d)
  BY <1>1 DEF Holds
<1>4. CASE d # c
  <2>1. Places(d)' \subseteq Places(d) \cup {}
    BY <1>1, <1>2, <1>3, <1>4, PlacesGain
  <2> QED
    BY <1>1, <2>1 DEF MayMove
<1>5. CASE d = c
  <2>1. d \notin queued
    BY <1>5 DEF HandlerEnqueue, EntryProvenance
  <2>2. Places(d) = {}
    BY <2>1 DEF Places, Holds, EntryProvenance, Made
  <2>3. Places(d)' \subseteq Places(d) \cup {<<"retry", x>>}
    BY <1>1, <1>3, PlacesGain
  <2> QED
    BY <1>1, <2>2, <2>3 DEF MayMove
<1> QED
  BY <1>4, <1>5

\* A ZADD that is run again adds one copy, and counts.
LEMMA ResendMoves ==
  ASSUME TypeOK, NEW x \in late, RunAgain(x)
  PROVE  \A d \in Deliveries : MayMove(d)
<1>1. /\ \A y \in retry' : y \in retry \/ y = x
      /\ UNCHANGED <<hand, dead>>
      /\ resent' = [resent EXCEPT ![x.entry.by] = @ + 1]
      /\ resent \in [Deliveries -> Nat] /\ x.entry.by \in Deliveries
  BY DEF RunAgain, ZAdd, workers, TypeOK, Scheduled, Entry
<1> SUFFICES ASSUME NEW d \in Deliveries PROVE MayMove(d)
  OBVIOUS
<1>2. \A q \in Replicas : Holds(q, d)' => Holds(q, d)
  BY <1>1 DEF Holds
<1>3. CASE d # x.entry.by
  <2>1. Places(d)' \subseteq Places(d) \cup {}
    BY <1>1, <1>2, <1>3, PlacesGain
  <2> QED
    BY <1>1, <1>3, <2>1 DEF MayMove
<1>4. CASE d = x.entry.by
  <2>1. Places(d)' \subseteq Places(d) \cup {<<"retry", x>>}
    BY <1>1, <1>2, PlacesGain
  <2> QED
    BY <1>1, <1>4, <2>1 DEF MayMove
<1> QED
  BY <1>3, <1>4

LEMMA NextConserved ==
  TypeOK /\ HandMatchesPc /\ EntryProvenance /\ Conserved /\ [Next]_vars => Conserved'
<1> SUFFICES ASSUME TypeOK, HandMatchesPc, EntryProvenance, Conserved, [Next]_vars
             PROVE  \A d \in Deliveries : MayMove(d)
  BY MovesConserve
<1> DEFINE Goal == \A d \in Deliveries : MayMove(d)
<1> USE DEF route, handlers, workers, redis, resends
<1>1. ASSUME NEW d \in Deliveries,
             Receive(d) \/ HandlerInsert(d) \/ HandlerPublish(d) \/ Disconnect(d)
      PROVE Goal
  <2>1. UNCHANGED <<retry, hand, dead, resent>>
    BY <1>1 DEF Receive, HandlerInsert, HandlerPublish, Disconnect
  <2> QED
    BY <2>1, PlacesKept DEF Holds
<1>2. ASSUME NEW p \in Replicas, WorkerInsert(p) PROVE Goal
  <2>1. hand[p] \in Entry /\ hand[p] # NoEntry
    BY <1>2 DEF WorkerInsert, TypeOK, HandMatchesPc, Busy
  <2> DEFINE next == [hand[p] EXCEPT !.attempts = @ + 1]
  <2>2. next.by = hand[p].by
    BY <2>1 DEF Entry
  <2>3. hand'[p] \in {hand[p], NoEntry, next} /\ \A q \in Replicas \ {p} : hand'[q] = hand[q]
    BY <1>2 DEF WorkerInsert, TypeOK
  <2> HIDE DEF next
  <2>4. \A q \in Replicas, d \in Deliveries : Holds(q, d)' => Holds(q, d)
    BY <2>1, <2>2, <2>3 DEF Holds
  <2>5. UNCHANGED <<retry, dead, resent>>
    BY <1>2 DEF WorkerInsert
  <2> QED
    BY <2>4, <2>5, PlacesKept
<1>3. ASSUME NEW p \in Replicas, WorkerPublish(p) \/ WorkerStop(p) \/ ProcessStep(p) PROVE Goal
  <2>1. \A q \in Replicas : hand'[q] = hand[q] \/ hand'[q] = NoEntry
    BY <1>3 DEF WorkerPublish, WorkerStop, ProcessStep, Sigterm, Exit, Crash, Halt, Restart, TypeOK
  <2>2. UNCHANGED <<retry, dead, resent>>
    BY <1>3 DEF WorkerPublish, WorkerStop, ProcessStep, Sigterm, Exit, Crash, Halt, Restart
  <2> QED
    BY <2>1, <2>2, PlacesKept DEF Holds
<1>4. ASSUME Tick \/ UNCHANGED vars PROVE Goal
  <2>1. UNCHANGED <<retry, hand, dead, resent>>
    BY <1>4 DEF Tick, vars
  <2> QED
    BY <2>1, PlacesKept DEF Holds
<1> QED
  BY <1>1, <1>2, <1>3, <1>4, PopMoves, GivesBack, EnqueueMoves, ResendMoves
     DEF Next, HandlerStep, WorkerStep

LEMMA QueueWellFormed == Spec => [](EntryProvenance /\ Conserved)
<1>1. Init => EntryProvenance /\ Conserved
  <2>1. Init => \A d \in Deliveries : Places(d) = {} /\ resent[d] = 0
    BY DEF Init, Places, Holds
  <2> QED
    BY <2>1, FS_EmptySet DEF Init, EntryProvenance, Conserved
<1>2. /\ TypeOK /\ HandMatchesPc /\ EntryProvenance /\ Conserved /\ [Next]_vars
      => (EntryProvenance /\ Conserved)'
  BY NextProvenance, NextConserved
<1> QED
  BY <1>1, <1>2, TypeAndHand, PTL DEF Spec

\* Workers, retries and crashes never make two entries of one: its copies are one
\* at most, and one more for each ZADD that Redis ran again (dlq.go:51 after a lost
\* reply), under every fault: the pop script is the only way out of the retry set.
THEOREM CopiesCounted == Spec => []CopiesAreResends
<1>1. Conserved => CopiesAreResends
  BY DEF Conserved, CopiesAreResends
<1> QED
  BY <1>1, QueueWellFormed, PTL

\* An entry waits once, or is in the hands of one worker, or dead.
EntryInOnePlace ==
  /\ \A x, y \in retry : x.entry.by = y.entry.by => x = y
  /\ \A p, q \in Replicas, d \in Deliveries : Holds(p, d) /\ Holds(q, d) => p = q
  /\ \A d \in Deliveries :
       /\ ~(InRetry(d) /\ InHand(d))
       /\ ~(InRetry(d) /\ InDead(d))
       /\ ~(InHand(d) /\ InDead(d))

\* What the count says where Redis runs every ZADD once: no two workers ever
\* process the same entry, and a dead one is not retried.  With "addResend" both
\* may happen, and it is the unique index that keeps the event from being stored
\* and announced twice (BroadcastOnce, which assumes nothing about Faults).
THEOREM OnePlace ==
  ASSUME "addResend" \notin Faults
  PROVE  Spec => []EntryInOnePlace
<1> DEFINE Once == late = {} /\ \A d \in Deliveries : resent[d] = 0
<1>1. Init => Once
  BY DEF Init
<1>2. Once /\ [Next]_vars => Once'
  <2> SUFFICES ASSUME Once, [Next]_vars PROVE Once'
    OBVIOUS
  <2> USE DEF route, handlers, workers, redis, resends
  <2>1. ASSUME NEW d \in Deliveries, HandlerStep(d) \/ Disconnect(d) PROVE UNCHANGED resends
    BY <2>1 DEF HandlerStep, Receive, HandlerInsert, HandlerEnqueue, enqueueAt, MayResend,
                HandlerPublish, Disconnect
  <2>2. ASSUME NEW p \in Replicas, WorkerStep(p) PROVE UNCHANGED resends
    BY <2>2 DEF WorkerStep, WorkerPop, WorkerInsert, WorkerRequeue, enqueueAt, MayResend,
                WorkerBury, WorkerPublish, WorkerStop
  <2>3. ASSUME NEW p \in Replicas, ProcessStep(p) PROVE UNCHANGED resends
    BY <2>3 DEF ProcessStep, Sigterm, Exit, Crash, Halt, Restart
  <2>4. ASSUME Tick \/ UNCHANGED vars PROVE UNCHANGED resends
    BY <2>4 DEF Tick, vars
  <2>5. \A x \in late : ~RunAgain(x)
    OBVIOUS
  <2>6. UNCHANGED resends
    BY <2>1, <2>2, <2>3, <2>4, <2>5 DEF Next
  <2> QED
    BY <2>6
<1>3. TypeOK /\ Conserved /\ Once => EntryInOnePlace
  <2> SUFFICES ASSUME TypeOK, Conserved, Once PROVE EntryInOnePlace
    OBVIOUS
  <2>1. ASSUME NEW d \in Deliveries, NEW a \in Places(d), NEW b \in Places(d) PROVE a = b
    <3>1. IsFiniteSet(Places(d)) /\ Cardinality(Places(d)) <= 1
      BY DEF Conserved
    <3>2. Cardinality(Places(d)) \in Nat /\ Cardinality(Places(d)) # 0
      BY <3>1, FS_CardinalityType, FS_EmptySet
    <3>3. Cardinality(Places(d)) = 1
      BY <3>1, <3>2
    <3> QED
      BY <3>1, <3>3, FS_Singleton
  <2>2. \A x, y \in retry : x.entry.by = y.entry.by => x = y
    <3> SUFFICES ASSUME NEW x \in retry, NEW y \in retry, x.entry.by = y.entry.by PROVE x = y
      OBVIOUS
    <3>1. x.entry.by \in Deliveries
      BY DEF TypeOK, Scheduled, Entry
    <3>2. <<"retry", x>> \in Places(x.entry.by) /\ <<"retry", y>> \in Places(x.entry.by)
      BY <3>1, PlacesAre
    <3> QED
      BY <2>1, <3>1, <3>2
  <2>3. ASSUME NEW p \in Replicas, NEW q \in Replicas, NEW d \in Deliveries, Holds(p, d), Holds(q, d)
        PROVE p = q
    <3>1. <<"hand", p>> \in Places(d) /\ <<"hand", q>> \in Places(d)
      BY <2>3, PlacesAre
    <3> QED
      BY <2>1, <3>1
  <2>4. ASSUME NEW d \in Deliveries
        PROVE  /\ ~(InRetry(d) /\ InHand(d))
               /\ ~(InRetry(d) /\ InDead(d))
               /\ ~(InHand(d) /\ InDead(d))
    <3>1. InRetry(d) => \E x : <<"retry", x>> \in Places(d)
      BY PlacesAre DEF InRetry
    <3>2. InHand(d) => \E p : <<"hand", p>> \in Places(d)
      BY PlacesAre DEF InHand
    <3>3. InDead(d) => \E x : <<"dead", x>> \in Places(d)
      BY PlacesAre DEF InDead
    <3>4. \A x, y : /\ <<"retry", x>> # <<"hand", y>>
                    /\ <<"retry", x>> # <<"dead", y>>
                    /\ <<"hand", x>> # <<"dead", y>>
      OBVIOUS
    <3> QED
      BY <2>1, <3>1, <3>2, <3>3, <3>4
  <2> QED
    BY <2>2, <2>3, <2>4 DEF EntryInOnePlace
<1> QED
  BY <1>1, <1>2, <1>3, TypeAndHand, QueueWellFormed, PTL DEF Spec

-----------------------------------------------------------------------------
(* Refinement of the ledger *)

\* A statement stores the event or changes nothing, whatever its caller is told.
LEMMA InsertRefines ==
  ASSUME TypeOK, NEW e \in Events, NEW live \in BOOLEAN, NEW out, Insert(e, live, out),
         UNCHANGED published
  PROVE  [Ledger!Next]_(Ledger!ledger)
<1>1. CASE rows' = rows
  BY <1>1 DEF Ledger!ledger
<1>2. CASE e \notin rows /\ rows' = rows \cup {e}
  BY <1>2 DEF Ledger!Next, Ledger!Store
<1>3. rows' = rows \/ rows' = rows \cup {e}
  BY DEF Insert
<1>4. e \in rows => rows \cup {e} = rows
  OBVIOUS
<1> QED
  BY <1>1, <1>2, <1>3, <1>4

\* The one goroutine that may publish an event announces it, or fails to.
LEMMA PublishRefines ==
  ASSUME TypeOK, "publishResend" \notin Faults, NEW e \in Events, NEW live \in BOOLEAN,
         Publish(e, live), e \in rows, published[e] = 0, UNCHANGED rows
  PROVE  [Ledger!Next]_(Ledger!ledger)
<1>1. PICK n \in {0, 1} : published' = [published EXCEPT ![e] = @ + n]
  BY DEF Publish, Runs
<1>2. CASE n = 0
  <2>1. published \in [Events -> Nat]
    BY DEF TypeOK
  <2>2. published' = published
    BY <1>1, <1>2, <2>1
  <2> QED
    BY <2>2 DEF Ledger!ledger
<1>3. CASE n = 1
  <2>1. published \in [Events -> Nat]
    BY DEF TypeOK
  <2>2. published' = [published EXCEPT ![e] = 1]
    BY <1>1, <1>3, <2>1
  <2>3. Ledger!Announce(e)
    BY <2>2 DEF Ledger!Announce
  <2> QED
    BY <2>3 DEF Ledger!Next
<1> QED
  BY <1>2, <1>3

LEMMA NextRefines ==
  ASSUME "publishResend" \notin Faults
  PROVE  TypeOK /\ HandMatchesPc /\ SoleBroadcaster /\ [Next]_vars
           => [Ledger!Next]_(Ledger!ledger)
<1> SUFFICES ASSUME TypeOK, HandMatchesPc, SoleBroadcaster, [Next]_vars
             PROVE  [Ledger!Next]_(Ledger!ledger)
  OBVIOUS
<1> USE DEF route, handlers, workers, redis, resends
<1>1. ASSUME NEW d \in Deliveries, HandlerInsert(d) PROVE [Ledger!Next]_(Ledger!ledger)
  <2>1. body[d] \in Events /\ (ctx[d] = "live") \in BOOLEAN /\ UNCHANGED published
    BY <1>1 DEF TypeOK, HandlerInsert
  <2> QED
    BY <1>1, <2>1, InsertRefines DEF HandlerInsert
<1>2. ASSUME NEW d \in Deliveries, HandlerPublish(d) PROVE [Ledger!Next]_(Ledger!ledger)
  <2>1. body[d] \in rows /\ published[body[d]] = 0 /\ body[d] \in Events
    BY <1>2 DEF TypeOK, HandlerPublish, SoleBroadcaster, HandlerClaims
  <2> QED
    BY <1>2, <2>1, PublishRefines DEF HandlerPublish
<1>3. ASSUME NEW p \in Replicas, WorkerInsert(p) PROVE [Ledger!Next]_(Ledger!ledger)
  <2>1. hand[p].event \in Events /\ WorkerLive(p) \in BOOLEAN /\ UNCHANGED published
    BY <1>3 DEF TypeOK, HandMatchesPc, Busy, WorkerInsert, Entry, WorkerLive
  <2> QED
    BY <1>3, <2>1, InsertRefines DEF WorkerInsert
<1>4. ASSUME NEW p \in Replicas, WorkerPublish(p) PROVE [Ledger!Next]_(Ledger!ledger)
  <2>1. hand[p].event \in Events /\ WorkerLive(p) \in BOOLEAN
    BY <1>4 DEF TypeOK, HandMatchesPc, Busy, WorkerPublish, Entry, WorkerLive
  <2>2. hand[p].event \in rows /\ published[hand[p].event] = 0
    BY <1>4, <2>1 DEF TypeOK, WorkerPublish, SoleBroadcaster, WorkerClaims
  <2> QED
    BY <1>4, <2>1, <2>2, PublishRefines DEF WorkerPublish
<1>5. ASSUME NEW d \in Deliveries, Receive(d) \/ HandlerEnqueue(d) \/ Disconnect(d)
      PROVE UNCHANGED Ledger!ledger
  BY <1>5 DEF Receive, HandlerEnqueue, Disconnect, Ledger!ledger
<1>6. ASSUME NEW p \in Replicas,
             \/ WorkerPop(p) \/ WorkerRequeue(p) \/ WorkerBury(p) \/ WorkerStop(p)
             \/ ProcessStep(p)
      PROVE UNCHANGED Ledger!ledger
  BY <1>6 DEF WorkerPop, WorkerRequeue, WorkerBury, WorkerStop, ProcessStep, Sigterm,
              Exit, Crash, Halt, Restart, Ledger!ledger
<1>7. ASSUME (\E x \in late : RunAgain(x)) \/ Tick \/ UNCHANGED vars
      PROVE UNCHANGED Ledger!ledger
  BY <1>7 DEF RunAgain, Tick, vars, Ledger!ledger
<1> QED
  BY <1>1, <1>2, <1>3, <1>4, <1>5, <1>6, <1>7 DEF Next, HandlerStep, WorkerStep

\* Handlers, retries, replicas, crashes and restarts together implement the
\* ledger: an event is stored once and for good, and announced at most once and
\* never before it is stored.
THEOREM Refinement ==
  ASSUME "publishResend" \notin Faults
  PROVE  Spec => ImplementsLedger
<1>1. Init => Ledger!Init
  BY DEF Init, Ledger!Init
<1> QED
  BY <1>1, NextRefines, TypeAndHand, BroadcastOnce, PTL
     DEF Spec, ImplementsLedger, Ledger!Spec

-----------------------------------------------------------------------------
(* What a step can lose *)

\* The event of d is stored, or its entry is somewhere in the queue.
Safe(d) == body[d] \in rows \/ InRetry(d) \/ InHand(d) \/ InDead(d)

\* A step disturbs the entry of one delivery at most: the one that a handler
\* queues, or the one that a worker pops, holds, or dies with.
StepDisturbs(x) ==
  /\ queued' \subseteq queued \cup {x}
  /\ \A d \in Deliveries \ {x} : Safe(d) => Safe(d)'

DisturbsOne == \E x : StepDisturbs(x)

\* A ZADD may give an entry another score, and takes none out.
LEMMA ZAddKeeps ==
  ASSUME NEW x, retry' = ZAdd(x)
  PROVE  \A d : (InRetry(d) \/ d = x.entry.by) => InRetry(d)'
<1> SUFFICES ASSUME NEW d, InRetry(d) \/ d = x.entry.by PROVE InRetry(d)'
  OBVIOUS
<1>1. x \in retry' /\ \A y \in retry : y \in retry' \/ y.entry = x.entry
  BY DEF ZAdd
<1> QED
  BY <1>1 DEF InRetry

LEMMA EnqueueKeeps ==
  ASSUME NEW e, NEW t, NEW live, NEW out, enqueueAt(e, t, live, out)
  PROVE  /\ \A d : InRetry(d) => InRetry(d)'
         /\ out # "fail" => InRetry(e.by)'
<1> DEFINE x == [entry |-> e, score |-> t]
<1>1. retry' = retry \/ retry' = ZAdd(x)
  BY DEF enqueueAt
<1>2. out # "fail" => retry' = ZAdd(x)
  BY DEF enqueueAt
<1>3. x.entry.by = e.by
  OBVIOUS
<1> HIDE DEF x
<1>4. retry' = ZAdd(x) => \A d : (InRetry(d) \/ d = e.by) => InRetry(d)'
  BY <1>3, ZAddKeeps
<1> QED
  BY <1>1, <1>2, <1>4 DEF InRetry

LEMMA OneDisturbed ==
  TypeOK /\ HandMatchesPc /\ [Next]_vars => DisturbsOne
<1> SUFFICES ASSUME TypeOK, HandMatchesPc, [Next]_vars PROVE DisturbsOne
  OBVIOUS
<1> USE DEF TypeOK, StepDisturbs, Safe, InRetry, Holds, InHand, InDead,
            route, handlers, workers, redis, resends
<1>1. ASSUME NEW d \in Deliveries, Receive(d) \/ HandlerPublish(d) \/ Disconnect(d)
      PROVE DisturbsOne
  <2>1. StepDisturbs(d)
    BY <1>1 DEF Receive, HandlerPublish, Disconnect
  <2> QED
    BY <2>1 DEF DisturbsOne
<1>2. ASSUME NEW d \in Deliveries, HandlerInsert(d) PROVE DisturbsOne
  <2>1. StepDisturbs(d)
    BY <1>2 DEF HandlerInsert, Insert
  <2> QED
    BY <2>1 DEF DisturbsOne
<1>3. ASSUME NEW d \in Deliveries, HandlerEnqueue(d) PROVE DisturbsOne
  <2>1. StepDisturbs(d)
    BY <1>3, EnqueueKeeps DEF HandlerEnqueue
  <2> QED
    BY <2>1 DEF DisturbsOne
<1>4. ASSUME NEW p \in Replicas, WorkerPop(p) PROVE DisturbsOne
  <2>1. PICK x \in retry :
          /\ retry' = retry \ {x}
          /\ \A q \in Replicas : q # p => hand'[q] = hand[q]
    BY <1>4 DEF WorkerPop, Remove
  <2>2. hand[p] = NoEntry /\ UNCHANGED <<body, rows, dead, queued>>
    BY <1>4 DEF WorkerPop, HandMatchesPc, Busy
  <2>3. \A d \in Deliveries \ {x.entry.by} : InRetry(d) => InRetry(d)'
    BY <2>1
  <2>4. \A d \in Deliveries : InHand(d) => InHand(d)'
    BY <2>1, <2>2
  <2>5. StepDisturbs(x.entry.by)
    BY <2>2, <2>3, <2>4
  <2> QED
    BY <2>5 DEF DisturbsOne
<1>5. ASSUME NEW p \in Replicas,
             \/ WorkerInsert(p) \/ WorkerRequeue(p) \/ WorkerBury(p) \/ WorkerPublish(p)
      PROVE DisturbsOne
  <2>1. \A q \in Replicas : q # p => hand'[q] = hand[q]
    BY <1>5 DEF WorkerInsert, WorkerRequeue, enqueueAt, WorkerBury, MoveToDead, WorkerPublish
  <2>2. /\ dead \subseteq dead' /\ rows \subseteq rows'
        /\ UNCHANGED <<body, queued>>
    BY <1>5 DEF WorkerInsert, Insert, WorkerRequeue, enqueueAt, WorkerBury, MoveToDead, WorkerPublish
  <2>a. \A d \in Deliveries : InRetry(d) => InRetry(d)'
    BY <1>5, EnqueueKeeps DEF WorkerInsert, WorkerRequeue, WorkerBury, WorkerPublish
  <2>3. \A d \in Deliveries \ {hand[p].by} : InHand(d) => InHand(d)'
    BY <2>1
  <2>4. StepDisturbs(hand[p].by)
    BY <2>2, <2>a, <2>3
  <2> QED
    BY <2>4 DEF DisturbsOne
<1>6. ASSUME NEW p \in Replicas, ProcessStep(p) PROVE DisturbsOne
  <2>1. \A q \in Replicas : q # p => hand'[q] = hand[q]
    BY <1>6 DEF ProcessStep, Sigterm, Exit, Crash, Halt, Restart
  <2>2. UNCHANGED <<retry, dead, rows, body, queued>>
    BY <1>6 DEF ProcessStep, Sigterm, Exit, Crash, Halt, Restart
  <2>3. \A d \in Deliveries \ {hand[p].by} : InHand(d) => InHand(d)'
    BY <2>1
  <2>4. StepDisturbs(hand[p].by)
    BY <2>2, <2>3
  <2> QED
    BY <2>4 DEF DisturbsOne
<1>7. ASSUME NEW p \in Replicas, WorkerStop(p) PROVE DisturbsOne
  <2>1. StepDisturbs(p)
    BY <1>7 DEF WorkerStop
  <2> QED
    BY <2>1 DEF DisturbsOne
<1>8. ASSUME Tick \/ UNCHANGED vars PROVE DisturbsOne
  <2>1. StepDisturbs(clock)
    BY <1>8 DEF Tick, vars
  <2> QED
    BY <2>1 DEF DisturbsOne
<1>9. ASSUME NEW x \in late, RunAgain(x) PROVE DisturbsOne
  <2>1. StepDisturbs(x.entry.by)
    BY <1>9, ZAddKeeps DEF RunAgain
  <2> QED
    BY <2>1 DEF DisturbsOne
<1> QED
  BY <1>1, <1>2, <1>3, <1>4, <1>5, <1>6, <1>7, <1>8, <1>9 DEF Next, HandlerStep, WorkerStep

\* Whatever fails, a step loses at most one queued event.
THEOREM LossIsBounded == Spec => OneLossPerFailure
<1>1. TypeOK /\ TypeOK' /\ HandMatchesPc /\ [Next]_vars
        => [\A c, d \in Lost' \ Lost : c = d]_vars
  <2> SUFFICES ASSUME TypeOK, TypeOK', HandMatchesPc, [Next]_vars
               PROVE  \A c, d \in Lost' \ Lost : c = d
    OBVIOUS
  <2>1. PICK x : StepDisturbs(x)
    BY OneDisturbed DEF DisturbsOne
  <2>2. \A d \in Lost' \ Lost : d = x
    BY <2>1 DEF StepDisturbs, Lost, Safe, TypeOK
  <2> QED
    BY <2>2
<1> QED
  BY <1>1, TypeAndHand, PTL DEF Spec, OneLossPerFailure

-----------------------------------------------------------------------------
(* When nothing is lost *)

\* Without signals and crashes every process stays up and every worker's context
\* stays live.
AllUp == \A p \in Replicas : proc[p] = "up"

LEMMA StayUp ==
  ASSUME Faults \cap LossyFaults = {}
  PROVE  Spec => []AllUp
<1>1. Init => AllUp
  BY DEF Init, AllUp
<1>2. AllUp /\ [Next]_vars => AllUp'
  <2> SUFFICES ASSUME AllUp, [Next]_vars PROVE AllUp'
    OBVIOUS
  <2> USE DEF AllUp, route, handlers, workers, redis, resends
  <2>1. ASSUME NEW p \in Replicas, ProcessStep(p) PROVE FALSE
    BY <2>1 DEF ProcessStep, Sigterm, Exit, Crash, Restart, LossyFaults
  <2>2. ASSUME NEW p \in Replicas, WorkerStep(p) PROVE UNCHANGED proc
    BY <2>2 DEF WorkerStep, WorkerPop, WorkerInsert, WorkerRequeue, WorkerBury,
                WorkerPublish, WorkerStop
  <2>3. ASSUME NEW d \in Deliveries, HandlerStep(d) \/ Disconnect(d) PROVE UNCHANGED proc
    BY <2>3 DEF HandlerStep, Receive, HandlerInsert, HandlerEnqueue, HandlerPublish, Disconnect
  <2>4. ASSUME (\E x \in late : RunAgain(x)) \/ Tick \/ UNCHANGED vars PROVE UNCHANGED proc
    BY <2>4 DEF RunAgain, Tick, vars
  <2> QED
    BY <2>1, <2>2, <2>3, <2>4 DEF Next
<1> QED
  BY <1>1, <1>2, PTL DEF Spec

\* Redis answers a worker, and its answer is the truth.
LEMMA RedisAnswers ==
  ASSUME Faults \cap LossyFaults = {}, AllUp, NEW p \in Replicas, NEW out,
         RedisCall(WorkerLive(p), out)
  PROVE  out = "ok"
  BY DEF RedisCall, WorkerLive, AllUp, LossyFaults

LEMMA NextNothingLost ==
  ASSUME Faults \cap LossyFaults = {}
  PROVE  /\ TypeOK /\ HandMatchesPc /\ SoleBroadcaster /\ EntryProvenance /\ AllUp
         /\ NoEntryLost /\ [Next]_vars
         => \A d \in queued' : Safe(d)'
<1> SUFFICES ASSUME TypeOK, HandMatchesPc, SoleBroadcaster, EntryProvenance, AllUp,
                    NoEntryLost, [Next]_vars
             PROVE  \A d \in queued' : Safe(d)'
  OBVIOUS
<1> DEFINE Goal == \A d \in queued' : Safe(d)'
<1>a. queued \subseteq Deliveries /\ \A d \in queued : Safe(d)
  BY DEF TypeOK, NoEntryLost, Lost, Safe
<1> USE DEF TypeOK, Safe, InRetry, Holds, InHand, InDead, route, handlers, workers, redis, resends
<1>1. ASSUME NEW d \in Deliveries, Receive(d) \/ HandlerPublish(d) \/ Disconnect(d)
      PROVE Goal
  BY <1>1, <1>a DEF Receive, HandlerPublish, Disconnect
<1>2. ASSUME NEW d \in Deliveries, HandlerInsert(d) PROVE Goal
  BY <1>2, <1>a DEF HandlerInsert, Insert
<1>3. ASSUME NEW d \in Deliveries, HandlerEnqueue(d) PROVE Goal
  <2>1. PICK out : /\ enqueueAt(NewEntry(d), clock, ctx[d] = "live", out)
                   /\ queued' = IF out = "fail" THEN queued ELSE queued \cup {d}
    BY <1>3 DEF HandlerEnqueue
  <2>2. NewEntry(d).by = d /\ UNCHANGED <<body, rows, hand, dead>>
    BY <1>3 DEF HandlerEnqueue, NewEntry
  <2>3. /\ \A c : InRetry(c) => InRetry(c)'
        /\ out # "fail" => InRetry(d)'
    BY <2>1, <2>2, EnqueueKeeps
  <2> QED
    BY <1>a, <2>1, <2>2, <2>3
<1>4. ASSUME NEW p \in Replicas, WorkerPop(p) PROVE Goal
  <2>1. PICK x \in retry : retry' = retry \ {x} /\ hand' = [hand EXCEPT ![p] = x.entry]
    BY <1>4, RedisAnswers DEF WorkerPop, Remove
  <2>2. hand[p] = NoEntry /\ x.entry # NoEntry /\ UNCHANGED <<body, rows, dead, queued>>
    BY <1>4, NoEntryAssumption DEF WorkerPop, HandMatchesPc, Busy, Scheduled
  <2>3. \A d \in Deliveries : InRetry(d) => InRetry(d)' \/ InHand(d)'
    BY <2>1, <2>2
  <2>4. \A d \in Deliveries : InHand(d) => InHand(d)'
    BY <2>1, <2>2
  <2> QED
    BY <1>a, <2>2, <2>3, <2>4
<1>5. ASSUME NEW p \in Replicas, WorkerInsert(p) PROVE Goal
  <2>1. hand[p] \in Entry /\ hand[p] # NoEntry /\ hand[p].event = body[hand[p].by]
    BY <1>5 DEF WorkerInsert, HandMatchesPc, Busy, EntryProvenance, Made
  <2> DEFINE next == [hand[p] EXCEPT !.attempts = @ + 1]
  <2>2. next \in [event : Events, by : Deliveries, failedAt : Nat, attempts : Nat]
        /\ next.by = hand[p].by
    BY <2>1, BackoffAssumption DEF Entry
  <2>3. hand'[p] = hand[p] \/ hand[p].event \in rows' \/ (hand'[p] = next /\ ~Exhausted(hand[p]))
    BY <1>5 DEF WorkerInsert, Insert, IsDuplicate
  <2>4. ~Exhausted(hand[p]) => next \in Entry
    BY <2>1, <2>2, BackoffAssumption DEF Exhausted, Entry
  <2>5. \A q \in Replicas : q # p => hand'[q] = hand[q]
    BY <1>5 DEF WorkerInsert
  <2>6. rows \subseteq rows' /\ UNCHANGED <<body, retry, dead, queued>>
    BY <1>5 DEF WorkerInsert, Insert
  <2> HIDE DEF next
  <2>7. \A d \in Deliveries : InHand(d) => InHand(d)' \/ body[d] \in rows'
    BY <2>1, <2>2, <2>3, <2>4, <2>5, NoEntryAssumption
  <2> QED
    BY <1>a, <2>6, <2>7
<1>6. ASSUME NEW p \in Replicas, WorkerRequeue(p) PROVE Goal
  <2>1. PICK n : retry' = {y \in retry : y.entry # hand[p]} \cup {[entry |-> hand[p], score |-> n]}
    <3> DEFINE w == clock + Delay(hand[p].attempts)
    <3>1. retry' = ZAdd([entry |-> hand[p], score |-> w])
      BY <1>6, RedisAnswers DEF WorkerRequeue, enqueueAt
    <3> HIDE DEF w
    <3>2. ZAdd([entry |-> hand[p], score |-> w])
            = {y \in retry : y.entry # hand[p]} \cup {[entry |-> hand[p], score |-> w]}
      BY DEF ZAdd
    <3> QED
      BY <3>1, <3>2
  <2>2. UNCHANGED <<body, rows, dead, queued>> /\ \A q \in Replicas : q # p => hand'[q] = hand[q]
    BY <1>6 DEF WorkerRequeue
  <2> DEFINE item == [entry |-> hand[p], score |-> n]
  <2>3. item \in retry' /\ item.entry = hand[p] /\ \A y \in retry : y \in retry' \/ y.entry = hand[p]
    BY <2>1
  <2> HIDE DEF item
  <2>4. \A d \in Deliveries : Holds(p, d) \/ InRetry(d) => InRetry(d)'
    BY <2>3
  <2>5. \A q \in Replicas, d \in Deliveries : Holds(q, d) /\ q # p => Holds(q, d)'
    BY <2>2
  <2>6. \A d \in Deliveries : InHand(d) => InHand(d)' \/ InRetry(d)'
    BY <2>4, <2>5
  <2> QED
    BY <1>a, <2>2, <2>4, <2>6
<1>7. ASSUME NEW p \in Replicas, WorkerBury(p) PROVE Goal
  <2>1. dead' = dead \cup {hand[p]}
    BY <1>7, RedisAnswers DEF WorkerBury, MoveToDead
  <2>2. UNCHANGED <<body, rows, retry, queued>> /\ \A q \in Replicas : q # p => hand'[q] = hand[q]
    BY <1>7 DEF WorkerBury, MoveToDead
  <2>3. \A d \in Deliveries : InHand(d) => InHand(d)' \/ InDead(d)'
    BY <2>1, <2>2
  <2> QED
    BY <1>a, <2>1, <2>2, <2>3
<1>8. ASSUME NEW p \in Replicas, WorkerPublish(p) PROVE Goal
  <2>1. hand[p].event \in rows /\ hand[p].event = body[hand[p].by]
    BY <1>8 DEF WorkerPublish, HandMatchesPc, Busy, EntryProvenance, Made,
                SoleBroadcaster, WorkerClaims, Entry
  <2>2. UNCHANGED <<body, rows, retry, dead, queued>>
        /\ \A q \in Replicas : q # p => hand'[q] = hand[q]
    BY <1>8 DEF WorkerPublish
  <2>3. \A d \in Deliveries : InHand(d) => InHand(d)' \/ body[d] \in rows
    BY <2>1, <2>2
  <2> QED
    BY <1>a, <2>2, <2>3
<1>9. ASSUME NEW p \in Replicas, WorkerStop(p) \/ ProcessStep(p) PROVE FALSE
  BY <1>9 DEF WorkerStop, WorkerLive, ProcessStep, Sigterm, Exit, Crash, Restart, AllUp, LossyFaults
<1>10. ASSUME Tick \/ UNCHANGED vars PROVE Goal
  BY <1>10, <1>a DEF Tick, vars
<1>11. ASSUME NEW x \in late, RunAgain(x) PROVE Goal
  <2>1. \A d : InRetry(d) \/ d = x.entry.by => InRetry(d)'
    BY <1>11, ZAddKeeps DEF RunAgain
  <2> QED
    BY <1>11, <1>a, <2>1 DEF RunAgain
<1> HIDE DEF Safe
<1> QED
  BY <1>1, <1>2, <1>3, <1>4, <1>5, <1>6, <1>7, <1>8, <1>9, <1>10, <1>11 DEF Next, HandlerStep, WorkerStep

\* Unless Redis fails or a process ends, a queued event is stored, waiting, in
\* hand or dead: database outages, lost replies of the database, bad data and
\* senders that go away lose nothing.
THEOREM NothingLost ==
  ASSUME Faults \cap LossyFaults = {}
  PROVE  Spec => []NoEntryLost
<1>1. Init => NoEntryLost
  BY DEF Init, NoEntryLost, Lost
<1>2. /\ TypeOK /\ HandMatchesPc /\ SoleBroadcaster /\ EntryProvenance /\ AllUp
      /\ NoEntryLost /\ [Next]_vars
      => NoEntryLost'
  BY NextNothingLost DEF NoEntryLost, Lost, Safe
<1> QED
  BY <1>1, <1>2, TypeAndHand, BroadcastOnce, QueueWellFormed, StayUp, PTL DEF Spec

-----------------------------------------------------------------------------
(* When every stored event is announced *)

\* Statements that fail without effect, and commands that Redis runs twice.
Harmless == {"pg", "publishResend", "addResend"}

\* No request is cancelled.
AllConnected == \A d \in Deliveries : ctx[d] = "live"

\* Every stored event is published, or claimed by a goroutine.
Announced ==
  \A e \in rows :
    \/ published[e] # 0
    \/ \E d \in Deliveries : HandlerClaims(d, e)
    \/ \E p \in Replicas : WorkerClaims(p, e)

LEMMA StayConnected ==
  ASSUME Faults \subseteq Harmless
  PROVE  Spec => []AllConnected
<1>1. Init => AllConnected
  BY DEF Init, AllConnected
<1>2. AllConnected /\ [Next]_vars => AllConnected'
  <2> SUFFICES ASSUME AllConnected, [Next]_vars PROVE AllConnected'
    OBVIOUS
  <2> USE DEF AllConnected, route, handlers, workers, redis, resends
  <2>1. ASSUME NEW p \in Replicas, ProcessStep(p) PROVE UNCHANGED ctx
    BY <2>1 DEF ProcessStep, Sigterm, Exit, Crash, Halt, Restart
  <2>2. ASSUME NEW p \in Replicas, WorkerStep(p) PROVE UNCHANGED ctx
    BY <2>2 DEF WorkerStep, WorkerPop, WorkerInsert, WorkerRequeue, WorkerBury,
                WorkerPublish, WorkerStop
  <2>3. ASSUME NEW d \in Deliveries, HandlerStep(d) PROVE UNCHANGED ctx
    BY <2>3 DEF HandlerStep, Receive, HandlerInsert, HandlerEnqueue, HandlerPublish
  <2>4. ASSUME NEW d \in Deliveries, Disconnect(d) PROVE FALSE
    BY <2>4 DEF Disconnect, Harmless
  <2>5. ASSUME (\E x \in late : RunAgain(x)) \/ Tick \/ UNCHANGED vars PROVE UNCHANGED ctx
    BY <2>5 DEF RunAgain, Tick, vars
  <2> QED
    BY <2>1, <2>2, <2>3, <2>4, <2>5 DEF Next
<1> QED
  BY <1>1, <1>2, PTL DEF Spec

\* A publication succeeds.
LEMMA PublishSucceeds ==
  ASSUME TypeOK, Faults \subseteq Harmless, NEW e \in Events, Publish(e, TRUE)
  PROVE  \E n \in {1, 2} : published' = [published EXCEPT ![e] = @ + n]
  BY DEF Publish, RedisCall, Runs, Harmless

LEMMA NextAnnounced ==
  ASSUME Faults \subseteq Harmless
  PROVE  /\ TypeOK /\ HandMatchesPc /\ AllUp /\ AllConnected /\ Announced
         /\ [Next]_vars
         => Announced'
<1> SUFFICES ASSUME TypeOK, HandMatchesPc, AllUp, AllConnected, Announced, [Next]_vars
             PROVE  Announced'
  OBVIOUS
<1> USE DEF TypeOK, Announced, HandlerClaims, WorkerClaims, route, handlers, workers, redis, resends
<1>1. ASSUME NEW d \in Deliveries, Receive(d) \/ HandlerEnqueue(d) \/ Disconnect(d)
      PROVE Announced'
  BY <1>1 DEF Receive, HandlerEnqueue, Disconnect
<1>2. ASSUME NEW d \in Deliveries, HandlerInsert(d) PROVE Announced'
  BY <1>2 DEF HandlerInsert, Insert, AllConnected, Harmless
<1>3. ASSUME NEW d \in Deliveries, HandlerPublish(d) PROVE Announced'
  <2>1. \E n \in {1, 2} : published' = [published EXCEPT ![body[d]] = @ + n]
    BY <1>3, PublishSucceeds DEF HandlerPublish, AllConnected
  <2> QED
    BY <1>3, <2>1 DEF HandlerPublish
<1>4. ASSUME NEW p \in Replicas, WorkerPop(p) PROVE Announced'
  BY <1>4 DEF WorkerPop
<1>5. ASSUME NEW p \in Replicas, WorkerInsert(p) PROVE Announced'
  <2>1. hand[p] \in Entry
    BY <1>5 DEF WorkerInsert, HandMatchesPc, Busy
  <2> QED
    BY <1>5, <2>1 DEF WorkerInsert, Insert, WorkerLive, AllUp, Harmless
<1>6. ASSUME NEW p \in Replicas, WorkerRequeue(p) \/ WorkerBury(p) PROVE Announced'
  BY <1>6 DEF WorkerRequeue, AfterRequeue, WorkerBury
<1>7. ASSUME NEW p \in Replicas, WorkerPublish(p) PROVE Announced'
  <2>1. hand[p].event \in Events
    BY <1>7 DEF WorkerPublish, HandMatchesPc, Busy, Entry
  <2>2. \E n \in {1, 2} : published' = [published EXCEPT ![hand[p].event] = @ + n]
    BY <1>7, <2>1, PublishSucceeds DEF WorkerPublish, WorkerLive, AllUp
  <2> QED
    BY <1>7, <2>1, <2>2 DEF WorkerPublish
<1>8. ASSUME NEW p \in Replicas, WorkerStop(p) \/ ProcessStep(p) PROVE FALSE
  BY <1>8 DEF WorkerStop, WorkerLive, ProcessStep, Sigterm, Exit, Crash, Restart, AllUp, Harmless
<1>9. ASSUME (\E x \in late : RunAgain(x)) \/ Tick \/ UNCHANGED vars PROVE Announced'
  BY <1>9 DEF RunAgain, Tick, vars
<1> QED
  BY <1>1, <1>2, <1>3, <1>4, <1>5, <1>6, <1>7, <1>8, <1>9 DEF Next, HandlerStep, WorkerStep

\* When the only failures are statements that fail without effect, and commands
\* that Redis runs more than once, no stored event is forgotten.  The assumption is
\* needed: a statement that commits and reports an error is later taken for a
\* duplicate (worker.go:92).
THEOREM EveryStoredIsBroadcast ==
  ASSUME Faults \subseteq Harmless
  PROVE  Spec => []StoredIsBroadcast
<1>1. Init => Announced
  BY DEF Init, Announced
<1>2. Faults \cap LossyFaults = {}
  BY DEF LossyFaults, Harmless
<1>3. Announced => StoredIsBroadcast
  BY DEF Announced, StoredIsBroadcast
<1> QED
  BY <1>1, <1>2, <1>3, TypeAndHand, StayUp, StayConnected, NextAnnounced, PTL DEF Spec

-----------------------------------------------------------------------------
(* An entry that is given up was tried over the whole schedule *)

\* At time t the entry e is old enough for its n-th attempt.
Aged(e, n, t) == t >= e.failedAt + Schedule[n]

\* No entry is ahead of the schedule: not in the retry set or on the wire to it, not in the hand of a worker,
\* who counts the attempt that failed before the wait for the next, and not among the dead.
OnSchedule ==
  /\ \A x \in retry \cup late : Aged(x.entry, x.entry.attempts, x.score)
  /\ \A p \in Replicas :
       /\ wpc[p] \in {"insert", "bury"} => Aged(hand[p], hand[p].attempts, clock)
       /\ wpc[p] = "requeue" => /\ hand[p].attempts >= 2
                                /\ Aged(hand[p], hand[p].attempts - 1, clock)
       /\ wpc[p] = "bury" => hand[p].attempts = MaxAttempts
  /\ \A e \in dead : e.attempts = MaxAttempts /\ Aged(e, MaxAttempts, clock)

\* The attempt after this one.
LEMMA NextAttempt ==
  ASSUME NEW e \in Entry
  PROVE  LET next == [e EXCEPT !.attempts = @ + 1] IN
           /\ next.failedAt = e.failedAt /\ next.attempts = e.attempts + 1
           /\ e.attempts + 1 >= 2 /\ (e.attempts + 1) - 1 = e.attempts
           /\ Exhausted(e) => e.attempts = MaxAttempts
  BY BackoffAssumption DEF Entry, Exhausted

LEMMA NextWait ==
  ASSUME NEW n \in Nat, n >= 2
  PROVE  /\ n - 1 \in Nat /\ Delay(n) \in Nat /\ Schedule[n - 1] \in Nat
         /\ Schedule[n] = Schedule[n - 1] + Delay(n)
<1>1. n - 1 \in Nat /\ n - 1 >= 1 /\ (n - 1) + 1 = n
  OBVIOUS
<1> QED
  BY <1>1, DelayType, ScheduleSteps

\* Every step keeps the entries on schedule: Delay is the wait that Schedule adds.
LEMMA NextOnSchedule ==
  TypeOK /\ HandMatchesPc /\ OnSchedule /\ [Next]_vars => OnSchedule'
<1> SUFFICES ASSUME TypeOK, HandMatchesPc, OnSchedule, [Next]_vars
             PROVE  OnSchedule'
  OBVIOUS
<1> USE DEF TypeOK, OnSchedule, Aged, route, handlers, workers, redis, resends
<1>1. ASSUME NEW d \in Deliveries,
             Receive(d) \/ HandlerInsert(d) \/ HandlerPublish(d) \/ Disconnect(d)
      PROVE OnSchedule'
  BY <1>1 DEF Receive, HandlerInsert, HandlerPublish, Disconnect
<1>2. ASSUME NEW d \in Deliveries, HandlerEnqueue(d) PROVE OnSchedule'
  BY <1>2, ScheduleSteps DEF HandlerEnqueue, enqueueAt, ZAdd, NewEntry
<1>3. ASSUME NEW p \in Replicas, WorkerPop(p) PROVE OnSchedule'
  BY <1>3, ScheduleSteps, BackoffAssumption
     DEF WorkerPop, Remove, IsOldestReady, Scheduled, Entry
<1>4. ASSUME NEW p \in Replicas, WorkerInsert(p) PROVE OnSchedule'
  <2> DEFINE n == hand[p].attempts
             next == [hand[p] EXCEPT !.attempts = @ + 1]
  <2>1. hand[p] \in Entry /\ hand[p] # NoEntry
    BY <1>4 DEF WorkerInsert, HandMatchesPc, Busy
  <2>2. /\ next.failedAt = hand[p].failedAt /\ next.attempts = n + 1
        /\ n + 1 >= 2 /\ (n + 1) - 1 = n
        /\ Exhausted(hand[p]) => n = MaxAttempts
    BY <2>1, NextAttempt
  <2>3. /\ UNCHANGED <<retry, late, dead, clock>> /\ Aged(hand[p], n, clock)
        /\ \A q \in Replicas \ {p} : wpc'[q] = wpc[q] /\ hand'[q] = hand[q]
    BY <1>4 DEF WorkerInsert
  <2>4. \/ wpc'[p] = "bury" /\ hand'[p] = hand[p] /\ Exhausted(hand[p])
        \/ wpc'[p] = "requeue" /\ hand'[p] = next
        \/ wpc'[p] \in {"publish", "poll"}
    BY <1>4 DEF WorkerInsert
  <2> HIDE DEF next
  <2> QED
    BY <2>2, <2>3, <2>4
<1>5. ASSUME NEW p \in Replicas, WorkerRequeue(p) PROVE OnSchedule'
  <2> DEFINE n == hand[p].attempts
  <2>1. hand[p] \in Entry /\ n \in Nat /\ n >= 2 /\ hand[p].failedAt \in Nat
    BY <1>5, BackoffAssumption DEF WorkerRequeue, HandMatchesPc, Busy, Entry
  <2>2. n - 1 \in Nat /\ Delay(n) \in Nat /\ Schedule[n - 1] \in Nat
    BY <2>1, NextWait
  <2>3. Schedule[n] = Schedule[n - 1] + Delay(n)
    BY <2>1, NextWait
  <2>4. clock >= hand[p].failedAt + Schedule[n - 1]
    BY <1>5 DEF WorkerRequeue
  <2>5. Aged(hand[p], n, clock + Delay(n))
    BY <2>1, <2>2, <2>3, <2>4
  <2> QED
    BY <1>5, <2>5 DEF WorkerRequeue, enqueueAt, ZAdd, AfterRequeue
<1>6. ASSUME NEW p \in Replicas, WorkerBury(p) PROVE OnSchedule'
  BY <1>6 DEF WorkerBury, MoveToDead
<1>7. ASSUME NEW p \in Replicas, WorkerPublish(p) \/ WorkerStop(p) PROVE OnSchedule'
  BY <1>7 DEF WorkerPublish, WorkerStop
<1>8. ASSUME NEW p \in Replicas, ProcessStep(p) PROVE OnSchedule'
  BY <1>8 DEF ProcessStep, Sigterm, Exit, Crash, Halt, Restart
<1>9. ASSUME Tick PROVE OnSchedule'
  <2>1. \A e \in Entry : e.failedAt \in Nat /\ e.attempts \in Nat
    BY BackoffAssumption DEF Entry
  <2>2. \A p \in Replicas : wpc[p] \in Busy => hand[p] \in Entry
    BY DEF HandMatchesPc
  <2>3. \A e \in Entry, n \in Nat : Aged(e, n, clock) => Aged(e, n, clock + 1)
    BY <2>1, ScheduleSteps
  <2> QED
    BY <1>9, <2>1, <2>2, <2>3, BackoffAssumption DEF Tick, Busy
<1>10. ASSUME UNCHANGED vars PROVE OnSchedule'
  BY <1>10 DEF vars
<1>11. ASSUME NEW x \in late, RunAgain(x) PROVE OnSchedule'
  BY <1>11 DEF RunAgain, ZAdd
<1> QED
  BY <1>1, <1>2, <1>3, <1>4, <1>5, <1>6, <1>7, <1>8, <1>9, <1>10, <1>11
     DEF Next, HandlerStep, WorkerStep

\* An entry in the dead list was tried MaxAttempts times over the documented schedule
\* (worker.go:67-80), under every fault and whichever replicas had it in hand: no outage
\* shorter than TotalBackoff kills an event.
THEOREM DeadWereOutlived == Spec => []DeadOutlivedBackoff
<1>1. Init => OnSchedule
  BY DEF Init, OnSchedule
<1>2. TypeOK /\ OnSchedule => DeadOutlivedBackoff
  BY ScheduleSteps, BackoffAssumption
     DEF TypeOK, OnSchedule, Aged, DeadOutlivedBackoff, TotalBackoff, Entry
<1> QED
  BY <1>1, <1>2, TypeAndHand, NextOnSchedule, PTL DEF Spec
=============================================================================
