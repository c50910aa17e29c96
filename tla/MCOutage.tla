----------------------------- MODULE MCOutage ------------------------------
(* Instances of Outage for TLC. *)
EXTENDS Outage, TLC

\* Good deliveries are interchangeable, and so are bad ones.
Interchangeable == Permutations(Deliveries \ Poison) \cup Permutations(Poison)
=============================================================================
