--------------------------- MODULE BreakerProofs ----------------------------
(***************************************************************************)
(* Proofs about Breaker, for every number of callers, size of the pool and *)
(* setting of the breaker.                                                 *)
(***************************************************************************)
EXTENDS Breaker, FiniteSetTheorems, TLAPS

Running == {"exec", "row"}

\* A caller counted in the current generation is inside Execute, and a half-open
\* breaker has no expiry.
FreshIsRunning ==
  /\ \A c \in fresh : pc[c] \in Running
  /\ state = "half-open" => ~due

BreakerInv == BreakerTypeOK /\ FreshIsRunning /\ ProbesAccounted

-----------------------------------------------------------------------------
(* Sets of callers *)

LEMMA SizeType ==
  ASSUME NEW S \in SUBSET Callers
  PROVE  IsFiniteSet(S) /\ Cardinality(S) \in Nat /\ (Cardinality(S) = 0 <=> S = {})
  BY BreakerAssumption, FS_Subset, FS_CardinalityType, FS_EmptySet

LEMMA SizeAdd ==
  ASSUME NEW S \in SUBSET Callers, NEW c \in Callers
  PROVE  /\ c \notin S => Cardinality(S \cup {c}) = Cardinality(S) + 1
         /\ Cardinality(S \cup {c}) <= Cardinality(S) + 1
  BY SizeType, FS_AddElement

LEMMA SizeRemove ==
  ASSUME NEW S \in SUBSET Callers, NEW c \in Callers
  PROVE  /\ c \in S => Cardinality(S \ {c}) = Cardinality(S) - 1
         /\ Cardinality(S \ {c}) <= Cardinality(S)
  BY SizeType, FS_RemoveElement

-----------------------------------------------------------------------------
(* The breaker's counting *)

LEMMA NoCountsType ==
  /\ NoCounts \in Counts
  /\ NoCounts.requests = 0 /\ NoCounts.successes = 0
<1>1. 0 \in 0..MaxRequests /\ 0 \in 0..TripAfter
  BY BreakerAssumption
<1> QED
  BY <1>1 DEF NoCounts, Counts

LEMMA IncrementType ==
  ASSUME NEW b \in Nat, NEW n \in 0..b
  PROVE  Increment(n, b) \in 0..b
  BY DEF Increment

\* The counts keep their type when a result is counted.
LEMMA CountedType ==
  ASSUME NEW k \in Counts
  PROVE  /\ [k EXCEPT !.successes = Increment(@, MaxRequests), !.failures = 0] \in Counts
         /\ [k EXCEPT !.failures = Increment(@, TripAfter), !.successes = 0] \in Counts
<1>1. /\ 0 \in 0..MaxRequests /\ 0 \in 0..TripAfter
      /\ Increment(k.successes, MaxRequests) \in 0..MaxRequests
      /\ Increment(k.failures, TripAfter) \in 0..TripAfter
  BY BreakerAssumption, IncrementType DEF Counts
<1> QED
  BY <1>1 DEF Counts

\* What the other variables of the invariant see of currentState.
LEMMA NowInv ==
  ASSUME BreakerInv
  PROVE  /\ NowState \in {"closed", "half-open", "open"}
         /\ NowCounts \in Counts
         /\ NowFresh \subseteq Callers
         /\ \A c \in NowFresh : pc[c] \in Running
         /\ NowState = "half-open" =>
              /\ Cardinality(NowFresh) + NowCounts.successes = NowCounts.requests
              /\ NowCounts.requests = MaxRequests => NowFresh # {}
  BY BreakerAssumption, SizeType
     DEF BreakerInv, BreakerTypeOK, FreshIsRunning, ProbesAccounted, NowState, NowCounts,
         NowFresh, NoCounts, Counts

\* The part of the invariant that is about the breaker's own variables.
Accounts ==
  /\ state \in {"closed", "half-open", "open"}
  /\ counts \in Counts
  /\ due \in BOOLEAN
  /\ fresh \subseteq Callers
  /\ state = "half-open" =>
       /\ ~due
       /\ Cardinality(fresh) + counts.successes = counts.requests
       /\ counts.requests = MaxRequests => fresh # {}

LEMMA SettleInv ==
  ASSUME BreakerInv, Settle(NowCounts, NowFresh)
  PROVE  Accounts' /\ fresh' = NowFresh
  BY NowInv DEF Settle, Accounts

LEMMA SetStateInv ==
  ASSUME NEW s \in {"closed", "open"}, SetState(s)
  PROVE  Accounts' /\ fresh' = {}
  BY NoCountsType DEF SetState, Accounts

\* A call that is admitted adds one request and one probe.
LEMMA BeforeRequestInv ==
  ASSUME BreakerInv, NEW c \in Callers, pc[c] \notin Running, BeforeRequest(c)
  PROVE  Accounts' /\ fresh' = NowFresh \cup {c}
<1> DEFINE k == [NowCounts EXCEPT !.requests = Increment(@, MaxRequests)]
<1>1. /\ state' = NowState /\ counts' = k /\ due' = FALSE
      /\ fresh' = NowFresh \cup {c}
  BY DEF BeforeRequest, Settle
<1>2. k \in Counts /\ k.successes = NowCounts.successes
      /\ k.requests = Increment(NowCounts.requests, MaxRequests)
  BY NowInv, BreakerAssumption DEF Counts, Increment
<1>3. NowState = "half-open" => k.requests = NowCounts.requests + 1
  BY <1>2 DEF BeforeRequest, Admits, Increment
<1>4. Cardinality(NowFresh \cup {c}) = Cardinality(NowFresh) + 1
  BY NowInv, SizeAdd
<1>5. Cardinality(NowFresh) \in Nat /\ NowCounts.successes \in Nat /\ NowCounts.requests \in Nat
  BY NowInv, SizeType DEF Counts
<1> HIDE DEF k
<1>6. NowState = "half-open" =>
        Cardinality(NowFresh \cup {c}) + k.successes = k.requests
  BY <1>2, <1>3, <1>4, <1>5, NowInv
<1> QED
  BY <1>1, <1>2, <1>6, NowInv DEF Accounts

\* A probe that succeeds is a success and no longer a probe; the last one closes
\* the breaker, so that one is still running whenever the requests are used up.
LEMMA OnSuccessInv ==
  ASSUME BreakerInv, NEW c \in NowFresh, OnSuccess(c)
  PROVE  Accounts' /\ fresh' \subseteq NowFresh \ {c}
<1> DEFINE k == [NowCounts EXCEPT !.successes = Increment(@, MaxRequests), !.failures = 0]
<1>1. CASE NowState = "half-open" /\ Closes(k.successes)
  BY <1>1, SetStateInv DEF OnSuccess
<1>2. CASE ~(NowState = "half-open" /\ Closes(k.successes))
  <2>1. state' = NowState /\ counts' = k /\ due' = FALSE /\ fresh' = NowFresh \ {c}
    BY <1>2 DEF OnSuccess, Settle
  <2>2. k \in Counts /\ k.requests = NowCounts.requests
        /\ k.successes = Increment(NowCounts.successes, MaxRequests)
    BY NowInv, CountedType DEF Counts
  <2>3. NowState = "half-open" =>
          k.successes < MaxRequests /\ k.successes = NowCounts.successes + 1
    BY <1>2, <2>2, NowInv, BreakerAssumption DEF Closes, Increment, Counts
  <2>4. Cardinality(NowFresh \ {c}) = Cardinality(NowFresh) - 1
    BY NowInv, SizeRemove
  <2>5. /\ Cardinality(NowFresh) \in Nat /\ NowCounts.successes \in Nat
        /\ NowCounts.requests \in Nat /\ NowFresh \ {c} \in SUBSET Callers
    BY NowInv, SizeType DEF Counts
  <2> HIDE DEF k
  <2>6. NowState = "half-open" => Cardinality(NowFresh \ {c}) + k.successes = k.requests
    BY <2>2, <2>3, <2>4, <2>5, NowInv
  <2>7. NowState = "half-open" /\ k.requests = MaxRequests => NowFresh \ {c} # {}
    BY <2>3, <2>5, <2>6, SizeType, BreakerAssumption
  <2> QED
    BY <2>1, <2>2, <2>5, <2>6, <2>7, NowInv DEF Accounts
<1> QED
  BY <1>1, <1>2

LEMMA OnFailureInv ==
  ASSUME BreakerInv, NEW c \in NowFresh, OnFailure(c)
  PROVE  Accounts' /\ fresh' \subseteq NowFresh \ {c}
<1> DEFINE k == [NowCounts EXCEPT !.failures = Increment(@, TripAfter), !.successes = 0]
<1>1. CASE NowState = "half-open" \/ ReadyToTrip(k.failures)
  BY <1>1, SetStateInv DEF OnFailure
<1>2. CASE ~(NowState = "half-open" \/ ReadyToTrip(k.failures))
  <2>1. state' = NowState /\ counts' = k /\ due' = FALSE /\ fresh' = NowFresh \ {c}
    BY <1>2 DEF OnFailure, Settle
  <2>2. k \in Counts
    BY NowInv, CountedType
  <2> HIDE DEF k
  <2> QED
    BY <1>2, <2>1, <2>2, NowInv DEF Accounts
<1> QED
  BY <1>1, <1>2

LEMMA AfterRequestInv ==
  ASSUME BreakerInv, NEW c \in Callers, NEW success \in BOOLEAN, AfterRequest(c, success)
  PROVE  Accounts' /\ fresh' \subseteq NowFresh \ {c}
  BY SettleInv, OnSuccessInv, OnFailureInv DEF AfterRequest

-----------------------------------------------------------------------------
(* The steps *)

LEMMA StepInv == BreakerInv /\ [Next]_vars => BreakerInv'
<1> SUFFICES ASSUME BreakerInv, [Next]_vars PROVE BreakerInv'
  OBVIOUS
<1>a. /\ pc \in [Callers -> {"idle", "query", "scan", "exec", "row"}]
      /\ holds \in SUBSET Callers /\ broken \in SUBSET Callers
      /\ leaked \in Nat /\ up \in BOOLEAN
      /\ errors \in 0..TripAfter
      /\ Cardinality(holds) + leaked <= PoolSize
      /\ PoolSize \in Nat
  BY BreakerAssumption DEF BreakerInv, BreakerTypeOK
<1> DEFINE Rest == /\ pc \in [Callers -> {"idle", "query", "scan", "exec", "row"}]
                   /\ holds \subseteq Callers
                   /\ broken \subseteq Callers
                   /\ leaked \in Nat
                   /\ up \in BOOLEAN
                   /\ errors \in 0..TripAfter
                   /\ Cardinality(holds) + leaked <= PoolSize
                   /\ \A c \in fresh : pc[c] \in Running
<1>b. Accounts' /\ Rest' => BreakerInv'
  BY DEF Accounts, BreakerInv, BreakerTypeOK, FreshIsRunning, ProbesAccounted, Running
<1>1. ASSUME NEW c \in Callers, Execute(c) PROVE Accounts' /\ Rest'
  <2>1. pc[c] = "idle" /\ UNCHANGED <<holds, broken, leaked, up, errors>>
    BY <1>1 DEF Execute
  <2>2. CASE BeforeRequest(c) /\ pc' = [pc EXCEPT ![c] = "exec"]
    BY <2>1, <2>2, <1>a, BeforeRequestInv, NowInv DEF Running
  <2>3. CASE Reject /\ UNCHANGED pc
    BY <2>1, <2>3, <1>a, SettleInv, NowInv DEF Reject
  <2> QED
    BY <1>1, <2>2, <2>3 DEF Execute
<1>2. ASSUME NEW c \in Callers, QueryRow(c) PROVE Accounts' /\ Rest'
  <2>1. Accounts' /\ fresh' = NowFresh
    BY <1>2, SettleInv DEF QueryRow
  <2>2. pc[c] = "idle" /\ pc' \in {pc, [pc EXCEPT ![c] = "query"]}
        /\ UNCHANGED <<holds, broken, leaked, up, errors>>
    BY <1>2 DEF QueryRow
  <2>3. \A b \in fresh' : pc'[b] \in Running
    BY <2>1, <2>2, <1>a, NowInv DEF Running
  <2> QED
    BY <1>a, <2>1, <2>2, <2>3
<1>3. ASSUME NEW c \in Callers, IssueRow(c) PROVE BreakerInv'
  <2>1. /\ pc[c] = "query" /\ pc' = [pc EXCEPT ![c] = "scan"]
        /\ UNCHANGED <<state, counts, due, fresh, leaked, up, errors>>
    BY <1>3 DEF IssueRow, breaker
  <2>2. /\ broken' \in {broken, broken \cup {c}}
        /\ \/ holds' = holds
           \/ holds' = holds \cup {c} /\ Cardinality(holds) + leaked < PoolSize
    BY <1>3 DEF IssueRow, FreeConnection
  <2>3. Cardinality(holds') + leaked' <= PoolSize /\ holds' \subseteq Callers
    BY <1>a, <2>1, <2>2, SizeAdd, SizeType
  <2>4. \A b \in fresh : pc[b] \in Running /\ b # c
    BY <2>1 DEF BreakerInv, FreshIsRunning, Running
  <2>5. \A b \in fresh : pc'[b] = pc[b]
    BY <1>a, <2>1, <2>4 DEF BreakerInv, BreakerTypeOK
  <2>6. BreakerTypeOK'
    BY <1>a, <2>1, <2>2, <2>3 DEF BreakerInv, BreakerTypeOK
  <2> QED
    BY <2>1, <2>4, <2>5, <2>6 DEF BreakerInv, FreshIsRunning, ProbesAccounted, Running
<1>4. ASSUME NEW c \in Callers, Scan(c) PROVE Accounts' /\ Rest'
  <2>1. pc[c] = "scan" /\ UNCHANGED <<up, errors>>
    BY <1>4 DEF Scan
  <2>2. CASE /\ BeforeRequest(c)
             /\ pc' = [pc EXCEPT ![c] = "row"]
             /\ UNCHANGED <<holds, broken, leaked>>
    BY <2>1, <2>2, <1>a, BeforeRequestInv, NowInv DEF Running
  <2>3. CASE /\ Reject
             /\ pc' = [pc EXCEPT ![c] = "idle"]
             /\ holds' = holds \ {c}
             /\ broken' = broken \ {c}
             /\ leaked' = IF c \in holds THEN leaked + 1 ELSE leaked
    <3>1. Cardinality(holds') + leaked' <= PoolSize
      BY <1>a, <2>3, SizeRemove, SizeType
    <3>2. Accounts' /\ fresh' = NowFresh
      BY <2>3, SettleInv DEF Reject
    <3> QED
      BY <1>a, <2>1, <2>3, <3>1, <3>2, NowInv DEF Running
  <2> QED
    BY <1>4, <2>2, <2>3 DEF Scan
<1>5. ASSUME NEW c \in Callers, Return(c) PROVE Accounts' /\ Rest'
  <2>1. PICK out \in {"result", "absent", "error"} : ReturnWith(c, out)
    BY <1>5 DEF Return
  <2>2. Accounts' /\ fresh' \subseteq NowFresh \ {c}
    BY <2>1, AfterRequestInv DEF ReturnWith, Success
  <2>3. pc' = [pc EXCEPT ![c] = "idle"] /\ holds' = holds \ {c}
        /\ broken' = broken \ {c} /\ UNCHANGED <<leaked, up>>
    BY <2>1 DEF ReturnWith
  <2>4. Cardinality(holds') + leaked' <= PoolSize
    BY <1>a, <2>3, SizeRemove, SizeType
  <2>5. errors' \in 0..TripAfter
    BY <1>a, <2>1, BreakerAssumption DEF ReturnWith, Increment
  <2> QED
    BY <1>a, <2>2, <2>3, <2>4, <2>5, NowInv DEF Running
<1>6. ASSUME Expire PROVE BreakerInv'
  BY <1>6 DEF Expire, BreakerInv, BreakerTypeOK, FreshIsRunning, ProbesAccounted
<1>7. ASSUME Toggle PROVE BreakerInv'
  BY <1>7 DEF Toggle, breaker, BreakerInv, BreakerTypeOK, FreshIsRunning, ProbesAccounted
<1>8. ASSUME UNCHANGED vars PROVE BreakerInv'
  BY <1>8 DEF vars, BreakerInv, BreakerTypeOK, FreshIsRunning, ProbesAccounted
<1> HIDE DEF Rest
<1> QED
  BY <1>b, <1>1, <1>2, <1>3, <1>4, <1>5, <1>6, <1>7, <1>8 DEF Next

\* A new breaker is closed, and nobody has called.
LEMMA InitInv == Init => BreakerInv
<1> SUFFICES ASSUME Init PROVE BreakerInv
  OBVIOUS
<1>1. Cardinality(holds) + leaked <= PoolSize /\ 0 \in 0..TripAfter
  BY FS_EmptySet, BreakerAssumption DEF Init
<1>2. BreakerTypeOK
  BY <1>1, NoCountsType DEF Init, BreakerTypeOK
<1> QED
  BY <1>2 DEF Init, BreakerInv, FreshIsRunning, ProbesAccounted

LEMMA BreakerInvariant == Spec => []BreakerInv
  BY InitInv, StepInv, PTL DEF Spec

\* The variables keep their types, and rows in use and rows forgotten never take
\* more connections than the pool has.
THEOREM BreakerTypeCorrect == Spec => []BreakerTypeOK
  BY BreakerInvariant, PTL DEF BreakerInv

\* A half-open breaker never admits more than MaxRequests probes and never
\* refuses calls without a probe running that will decide.
THEOREM HalfOpenNeverStuck == Spec => []ProbesAccounted
  BY BreakerInvariant, PTL DEF BreakerInv

-----------------------------------------------------------------------------
(* What opens the breaker *)

\* The failures that gobreaker counts are errors, as long as the history of them
\* has not reached its bound.
FailuresAreErrors ==
  /\ errors < TripAfter => counts.failures <= errors
  /\ OpensOnlyOnFailures

LEMMA StepFailures ==
  BreakerInv /\ FailuresAreErrors /\ [Next]_vars => FailuresAreErrors'
<1> SUFFICES ASSUME BreakerInv, FailuresAreErrors, [Next]_vars PROVE FailuresAreErrors'
  OBVIOUS
<1>a. /\ state \in {"closed", "half-open", "open"} /\ counts \in Counts /\ leaked \in Nat
      /\ errors \in 0..TripAfter /\ TripAfter \in Nat /\ NowCounts \in Counts
      /\ pc \in [Callers -> {"idle", "query", "scan", "exec", "row"}]
  BY NowInv, BreakerAssumption DEF BreakerInv, BreakerTypeOK
<1>b. errors < TripAfter =>
        /\ NowState = "closed" /\ leaked = 0 /\ Admits
        /\ NowCounts.failures <= errors
  BY <1>a DEF FailuresAreErrors, OpensOnlyOnFailures, NowState, NowCounts, NoCounts, Admits
<1> USE DEF FailuresAreErrors, OpensOnlyOnFailures
<1>1. ASSUME NEW c \in Callers, Execute(c) PROVE FailuresAreErrors'
  BY <1>1, <1>a, <1>b DEF Execute, BeforeRequest, Reject, Settle, Counts
<1>2. ASSUME NEW c \in Callers, QueryRow(c) PROVE FailuresAreErrors'
  BY <1>2, <1>a, <1>b DEF QueryRow, Settle
<1>3. ASSUME NEW c \in Callers, IssueRow(c) PROVE FailuresAreErrors'
  BY <1>3 DEF IssueRow, breaker
<1>4. ASSUME NEW c \in Callers, Scan(c) PROVE FailuresAreErrors'
  BY <1>4, <1>a, <1>b DEF Scan, BeforeRequest, Reject, Settle, Counts
<1>5. ASSUME NEW c \in Callers, Return(c) PROVE FailuresAreErrors'
  <2>1. PICK out \in {"result", "absent", "error"} : ReturnWith(c, out)
    BY <1>5 DEF Return
  <2>2. CASE out # "error"
    <3>1. errors' = errors /\ leaked' = leaked /\ AfterRequest(c, TRUE)
      BY <2>1, <2>2 DEF ReturnWith, Success
    <3>2. ASSUME errors < TripAfter
          PROVE  state' = "closed" /\ counts'.failures <= errors
      <4> DEFINE k == [NowCounts EXCEPT !.successes = Increment(@, MaxRequests),
                                        !.failures = 0]
      <4>1. state' = "closed" /\ counts' \in {NowCounts, k}
        BY <3>1, <3>2, <1>b DEF AfterRequest, OnSuccess, Settle
      <4>2. k.failures = 0
        BY <1>a DEF Counts
      <4> HIDE DEF k
      <4> QED
        BY <3>2, <4>1, <4>2, <1>a, <1>b
    <3> QED
      BY <3>1, <3>2, <1>b
  <2>3. CASE out = "error"
    <3>1. /\ errors' = Increment(errors, TripAfter) /\ leaked' = leaked
          /\ AfterRequest(c, FALSE)
      BY <2>1, <2>3 DEF ReturnWith, Success
    <3>2. errors' < TripAfter => errors < TripAfter /\ errors' = errors + 1
      BY <3>1, <1>a DEF Increment
    <3>3. ASSUME errors' < TripAfter
          PROVE  state' = "closed" /\ counts'.failures <= errors + 1
      <4> DEFINE k == [NowCounts EXCEPT !.failures = Increment(@, TripAfter),
                                        !.successes = 0]
      <4>1. k.failures = Increment(NowCounts.failures, TripAfter)
        BY <1>a DEF Counts
      <4>2. NowCounts.failures \in Nat /\ NowCounts.failures <= errors
        BY <3>2, <3>3, <1>a, <1>b DEF Counts
      <4>3. k.failures <= errors + 1 /\ ~ReadyToTrip(k.failures)
        BY <3>2, <3>3, <4>1, <4>2, <1>a DEF Increment, ReadyToTrip
      <4>4. state' = "closed" /\ counts' \in {NowCounts, k}
        BY <3>1, <3>2, <3>3, <4>3, <1>b DEF AfterRequest, OnFailure, Settle
      <4> HIDE DEF k
      <4> QED
        BY <4>2, <4>3, <4>4, <1>a
    <3> QED
      BY <3>1, <3>2, <3>3, <1>b
  <2> QED
    BY <2>2, <2>3
<1>6. ASSUME Expire \/ Toggle \/ UNCHANGED vars PROVE FailuresAreErrors'
  BY <1>6 DEF Expire, Toggle, breaker, vars
<1> QED
  BY <1>1, <1>2, <1>3, <1>4, <1>5, <1>6 DEF Next

\* Under every trouble and interleaving, only TripAfter calls that ended in an error
\* open the breaker or cost a connection; absent rows and keys never do.
THEOREM OnlyFailuresOpen == Spec => []OpensOnlyOnFailures
<1>1. Init => FailuresAreErrors
  BY BreakerAssumption DEF Init, FailuresAreErrors, OpensOnlyOnFailures, NoCounts
<1>2. FailuresAreErrors => OpensOnlyOnFailures
  BY DEF FailuresAreErrors
<1> QED
  BY <1>1, <1>2, StepFailures, BreakerInvariant, PTL DEF Spec
=============================================================================
