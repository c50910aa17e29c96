------------------------- MODULE NotificationLedger -------------------------
(***************************************************************************)
(* What the ingestion side of the service promises to a citizen, whatever  *)
(* the replicas, the retries and the failures behind it: an event is       *)
(* stored at most once and for good, and it is announced to the connected  *)
(* clients at most once, never before it can be read back over REST.       *)
(* Nothing is promised about an announcement actually happening: real-time *)
(* delivery is best effort.                                                *)
(***************************************************************************)
EXTENDS Naturals

CONSTANT Events     \* the distinct webhook bodies

VARIABLES
  stored,           \* the events readable through GET /notifications
  sent              \* sent[e]: how many times e was announced in real time

ledger == <<stored, sent>>

Init ==
  /\ stored = {}
  /\ sent = [e \in Events |-> 0]

Store(e) ==
  /\ e \notin stored
  /\ stored' = stored \cup {e}
  /\ UNCHANGED sent

Announce(e) ==
  /\ e \in stored
  /\ sent[e] = 0
  /\ sent' = [sent EXCEPT ![e] = 1]
  /\ UNCHANGED stored

Next == \E e \in Events : Store(e) \/ Announce(e)

Spec == Init /\ [][Next]_ledger
=============================================================================
