-------------------------- MODULE MCTargetController --------------------------
(* Instances of the Target controller for TLC. *)
EXTENDS TargetControllerProperties, TLC

CONSTANTS t1, t2, a, b

OneHash == [t \in Targets |-> {a}]
AnyHash == [t \in Targets |-> Hashes]
\* t1 may be edited, t2 has one of the credentials t1 may be given.
Editable == [t \in Targets |-> IF t = t1 THEN Hashes ELSE {a}]

TargetSymmetry == Permutations(Targets)

=============================================================================
