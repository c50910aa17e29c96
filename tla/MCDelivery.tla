----------------------------- MODULE MCDelivery -----------------------------
(* Instances of Delivery for TLC. *)
EXTENDS Delivery, TLC

\* Connections are interchangeable.
Interchangeable == Permutations(Conns)
=============================================================================
