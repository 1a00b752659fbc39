---------------------------- MODULE MCTargetPoller ----------------------------
(* Instances of the target poller for TLC. *)
EXTENDS TargetPollerProperties, TLC

CONSTANTS b1, b2, n1, n2, n3, n4, p, q

TwoBackups == {b1, b2}
OnePlan == [b \in Backups |-> p]
TwoPlans == [b \in Backups |-> IF b = b2 THEN q ELSE p]

NameSymmetry == Permutations(Names)

=============================================================================
