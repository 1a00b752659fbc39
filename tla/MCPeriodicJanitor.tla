-------------------------- MODULE MCPeriodicJanitor --------------------------
(* An instance of the controller with the periodic janitor beside it for TLC. *)
EXTENDS PeriodicJanitor

CONSTANTS s1

OneScan == {s1}
FailingPods == Jobs \X {"failed"}

=============================================================================
