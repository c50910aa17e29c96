---------------------------- MODULE BackoffProofs ----------------------------
(***************************************************************************)
(* The schedule of Backoff, for any number of attempts and any waits.      *)
(***************************************************************************)
EXTENDS Backoff, FiniteSetTheorems, WellFoundedInduction, TLAPS

\* The least-number principle, for a set of numbers: it stands for induction.
LEMMA LeastNumber ==
  ASSUME NEW T \in SUBSET Nat, T # {}
  PROVE  \E m \in T : \A k \in T : m <= k
  <1>1. \E m \in T : \A k \in T : <<k, m>> \notin OpToRel(<, Nat)
    BY NatLessThanWellFounded, WFMin
  <1>2. \A k, m \in Nat : <<k, m>> \notin OpToRel(<, Nat) => m <= k
    BY DEF OpToRel
  <1> QED
    BY <1>1, <1>2

\* A power of two counts the subsets of a set, so it is a natural number.
LEMMA PowerOfTwo ==
  ASSUME NEW k \in Nat
  PROVE  2^k \in Nat
  <1>1. IsFiniteSet(1..k) /\ Cardinality(1..k) = k
    BY FS_Interval
  <1>2. IsFiniteSet(SUBSET (1..k)) /\ Cardinality(SUBSET (1..k)) = 2^k
    BY <1>1, FS_SUBSET
  <1> QED
    BY <1>2, FS_CardinalityType

\* Every wait of the worker is a number of time units.
LEMMA DelayType == \A n \in Nat : Delay(n) \in Nat
  BY BackoffAssumption, SMT DEF Delay

\* The worker's arithmetic, with its guard against overflow, gives the documented wait.
LEMMA DelayAsDocumented ==
  ASSUME NEW n \in Nat, n >= 2
  PROVE  Delay(n) = Min({BackoffInitial * 2^(n - 2), BackoffMax})
  <1> DEFINE w == BackoffInitial * 2^(n - 2)
  <1>1. w \in Nat
    <2>1. 2^(n - 2) \in Nat
      BY PowerOfTwo
    <2> QED
      BY <2>1, BackoffAssumption
  <1> HIDE DEF w
  <1>2. Min({w, BackoffMax}) = IF w <= BackoffMax THEN w ELSE BackoffMax
    BY <1>1, BackoffAssumption DEF Min
  <1> QED
    BY <1>1, <1>2, BackoffAssumption DEF Delay, w

\* The documented wait before attempt n.
Wait(n) == Min({BackoffInitial * 2^(n - 2), BackoffMax})

\* f is the schedule up to attempt m.
SchedulesUpTo(f, m) ==
  /\ f \in [0..m -> Nat]
  /\ \A n \in 0..m : f[n] = IF n <= 1 THEN 0 ELSE f[n - 1] + Wait(n)

\* A schedule can be extended by one more attempt, without end.
LEMMA ScheduleExists == \A m \in Nat : \E f : SchedulesUpTo(f, m)
  <1> DEFINE T == {m \in Nat : ~\E f : SchedulesUpTo(f, m)}
  <1> SUFFICES ASSUME T # {}
               PROVE  FALSE
    OBVIOUS
  <1>1. PICK m \in T : \A k \in T : m <= k
    BY LeastNumber
  <1>2. m # 0
    <2>1. SchedulesUpTo([n \in 0..0 |-> 0], 0)
      BY DEF SchedulesUpTo
    <2> QED
      BY <1>1, <2>1
  <1>3. PICK f : SchedulesUpTo(f, m - 1)
    BY <1>1, <1>2
  <1> DEFINE g == [n \in 0..m |-> IF n < m THEN f[n]
                                  ELSE IF m <= 1 THEN 0 ELSE f[m - 1] + Wait(m)]
  <1>4. m >= 2 => Wait(m) \in Nat
    BY DelayAsDocumented, DelayType DEF Wait
  <1>5. g \in [0..m -> Nat]
    BY <1>2, <1>3, <1>4 DEF SchedulesUpTo
  <1>6. ASSUME NEW n \in 0..m
        PROVE  g[n] = IF n <= 1 THEN 0 ELSE g[n - 1] + Wait(n)
    BY <1>2, <1>3 DEF SchedulesUpTo
  <1> QED
    BY <1>1, <1>5, <1>6 DEF SchedulesUpTo

\* Two schedules agree on the attempts that both cover.
LEMMA ScheduleUnique ==
  ASSUME NEW k \in Nat, NEW m \in Nat, NEW f, NEW g,
         SchedulesUpTo(f, k), SchedulesUpTo(g, m)
  PROVE  \A n \in (0..k) \cap (0..m) : f[n] = g[n]
  <1> DEFINE T == {n \in (0..k) \cap (0..m) : f[n] # g[n]}
  <1> SUFFICES ASSUME T # {}
               PROVE  FALSE
    OBVIOUS
  <1> HIDE DEF T
  <1>1. PICK n \in T : \A i \in T : n <= i
    <2>1. T \in SUBSET Nat
      BY DEF T
    <2> QED
      BY <2>1, LeastNumber
  <1> USE DEF T
  <1>2. n >= 2 => f[n - 1] = g[n - 1]
    BY <1>1
  <1> QED
    BY <1>1, <1>2 DEF SchedulesUpTo

\* The schedule up to attempt m.
UpTo(m) == CHOOSE f : SchedulesUpTo(f, m)

\* Schedule satisfies its recursive definition: attempt n + 1 takes place one wait of the
\* worker after attempt n.
THEOREM ScheduleSteps ==
  /\ Schedule \in [Nat -> Nat]
  /\ Schedule[1] = 0
  /\ \A n \in Nat : n >= 1 => Schedule[n + 1] = Schedule[n] + Delay(n + 1)
  <1> DEFINE F == [n \in Nat |-> UpTo(n)[n]]
  <1>1. \A m \in Nat : SchedulesUpTo(UpTo(m), m)
    BY ScheduleExists DEF UpTo
  <1>2. ASSUME NEW n \in Nat
        PROVE  F[n] = IF n <= 1 THEN 0 ELSE F[n - 1] + Wait(n)
    <2>1. SchedulesUpTo(UpTo(n), n)
      BY <1>1
    <2>2. CASE n <= 1
      BY <2>1, <2>2 DEF SchedulesUpTo
    <2>3. CASE n >= 2
      <3>1. SchedulesUpTo(UpTo(n - 1), n - 1) /\ n - 1 \in Nat
        BY <1>1, <2>3
      <3>2. UpTo(n)[n - 1] = UpTo(n - 1)[n - 1]
        BY <2>1, <2>3, <3>1, ScheduleUnique
      <3>3. UpTo(n)[n] = UpTo(n)[n - 1] + Wait(n)
        BY <2>1, <2>3 DEF SchedulesUpTo
      <3> QED
        BY <2>3, <3>1, <3>2, <3>3
    <2> QED
      BY <2>2, <2>3
  <1>3. DOMAIN F = Nat
    OBVIOUS
  <1>4. F = [n \in Nat |-> IF n <= 1 THEN 0
                           ELSE F[n - 1] + Min({BackoffInitial * 2^(n - 2), BackoffMax})]
    BY <1>2 DEF Wait
  <1> HIDE DEF F
  <1>5. Schedule = [n \in Nat |->
                     IF n <= 1 THEN 0
                     ELSE Schedule[n - 1] + Min({BackoffInitial * 2^(n - 2), BackoffMax})]
    BY <1>4 DEF Schedule
  <1>6. \A n \in Nat : Schedule[n] = IF n <= 1 THEN 0 ELSE Schedule[n - 1] + Wait(n)
    BY <1>5 DEF Wait
  <1>7. \A n \in Nat : n >= 2 => Wait(n) = Delay(n) /\ Delay(n) \in Nat
    BY DelayAsDocumented, DelayType DEF Wait
  <1>8. \A n \in Nat : Schedule[n] \in Nat
    <2> DEFINE T == {n \in Nat : Schedule[n] \notin Nat}
    <2> SUFFICES ASSUME T # {}
                 PROVE  FALSE
      OBVIOUS
    <2> HIDE DEF T
    <2>1. PICK n \in T : \A i \in T : n <= i
      BY LeastNumber DEF T
    <2> USE DEF T
    <2>2. n >= 2
      BY <1>6, <2>1
    <2>3. n - 1 \in Nat /\ Schedule[n - 1] \in Nat
      BY <2>1, <2>2
    <2> QED
      BY <1>6, <1>7, <2>1, <2>2, <2>3
  <1>9. Schedule \in [Nat -> Nat]
    BY <1>5, <1>8
  <1>10. ASSUME NEW n \in Nat, n >= 1
         PROVE  Schedule[n + 1] = Schedule[n] + Delay(n + 1)
    BY <1>6, <1>7, <1>10
  <1> QED
    BY <1>6, <1>9, <1>10
=============================================================================
