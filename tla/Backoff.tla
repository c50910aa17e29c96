------------------------------ MODULE Backoff -------------------------------
(***************************************************************************)
(* How long the retry worker keeps trying: the attempts of an entry and    *)
(* the waits between them (dlq/worker.go, process).                        *)
(***************************************************************************)
EXTENDS Naturals, FiniteSetsExt

CONSTANTS
  MaxAttempts,      \* dlq.go:17
  BackoffInitial,   \* worker.go:13
  BackoffMax        \* worker.go:14

ASSUME BackoffAssumption ==
  /\ MaxAttempts \in Nat \ {0}
  /\ BackoffInitial \in Nat
  /\ BackoffMax \in Nat

\* Mutant: one attempt more than MaxAttempts.
ExhaustedLate(e) == e.attempts > MaxAttempts

\* process: entry.Attempts < MaxAttempts is false.
Exhausted(e) == e.attempts >= MaxAttempts

\* Mutant: the backoff is not doubled.
ConstantDelay(n) == BackoffInitial

\* min(backoffInitial << (n - 2), backoffMax), for the incremented attempts n.
Delay(n) ==
  LET shifted == BackoffInitial * 2^(n - 2)
  IN IF shifted \in 0..BackoffMax THEN shifted ELSE BackoffMax

\* The documented schedule: before attempt n, counting from the first failure, an
\* entry has waited n - 1 times, each wait twice the one before and BackoffMax at most.
Schedule[n \in Nat] ==
  IF n <= 1 THEN 0
  ELSE Schedule[n - 1] + Min({BackoffInitial * 2^(n - 2), BackoffMax})

TotalBackoff == Schedule[MaxAttempts]
=============================================================================
