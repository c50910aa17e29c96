------------------------------ MODULE MCIngest ------------------------------
(* Instances of Ingest for TLC. *)
EXTENDS Ingest, TLC

\* Deliveries are interchangeable, and so are replicas.
Interchangeable == Permutations(Deliveries) \cup Permutations(Replicas)
=============================================================================
