----------------------------- MODULE MCBreaker ------------------------------
(* Instances of Breaker for TLC. *)
EXTENDS Breaker, TLC

\* Callers are interchangeable.
Interchangeable == Permutations(Callers)
=============================================================================
