------------------------------ MODULE MCInbox -------------------------------
(* An instance of Inbox for TLC. *)
EXTENDS Inbox, TLC

CONSTANTS ana, bia

\* Ana has all the notifications, two of them with the same timestamp.
AllOfAna == [n \in Ids |-> ana]
OneTie == [n \in Ids |-> IF n = 2 THEN 2 ELSE 1]
=============================================================================
