---------------------------- MODULE MCFileRecovery ----------------------------
(* An instance of file recovery for TLC. *)
EXTENDS FileRecoveryProperties, TLC

CONSTANTS r1, r2, r3, r4

\* Recoveries of the machine "vm".  The backup of the first has a volume of another
\* machine too, and a snapshot of an operator that is not looked at.  The second is
\* of another backup, of the other disk.  The third cannot be made, nor the fourth,
\* whose custom object is looked at alone and has no volumes.
Of(disk, owner) == [disk |-> disk, owner |-> owner]

Backups ==
    (r1 :> [vm |-> "vm", available |-> TRUE, keyed |-> TRUE, custom |-> {},
            helm |-> {{Of("k1", "vm")}, {Of("k2", "other")}},
            operators |-> {{Of("k2", "vm")}}]) @@
    (r2 :> [vm |-> "vm", available |-> TRUE, keyed |-> TRUE,
            custom |-> {{Of("k2", "vm")}}, helm |-> {}, operators |-> {}]) @@
    (r3 :> [vm |-> "vm", available |-> FALSE, keyed |-> FALSE,
            custom |-> {{Of("k2", "vm")}}, helm |-> {}, operators |-> {}]) @@
    (r4 :> [vm |-> "vm", available |-> TRUE, keyed |-> TRUE, custom |-> {{}},
            helm |-> {{Of("k2", "vm")}}, operators |-> {}])

Alike == Permutations(Devices) \union Permutations(Scripts)

=============================================================================
