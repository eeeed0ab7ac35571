----------------------------- MODULE MCNotifier -----------------------------
(* Notifier for TLC. *)
EXTENDS Notifier

MCRisks == [validators |-> {"val-count-low"}, bondedRatio |-> {}]
=============================================================================
