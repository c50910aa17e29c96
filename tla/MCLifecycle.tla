---------------------------- MODULE MCLifecycle -----------------------------
(* An instance of Lifecycle for TLC. *)
EXTENDS Lifecycle, TLC

\* Everything, with and without a collector, and nothing but one variable.
AllOrOneMissing ==
  {Required, Required \cup {"OTEL_EXPORTER_OTLP_ENDPOINT"}}
    \cup {Required \ {v} : v \in Required}
=============================================================================
