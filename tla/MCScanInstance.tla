---------------------------- MODULE MCScanInstance ----------------------------
(* Instances of the ScanInstance controller for TLC. *)
EXTENDS ScanInstanceProperties, TLC

CONSTANTS s1, s2

OneScan == {s1}
TwoScans == {s1, s2}
NoTrouble == {}
FailingPods == Jobs \X {"failed"}

\* Each kind of trouble with a job the controller looks at.  Of a janitor job it does
\* not see how it fares.
EachTrouble ==
    ({"preScan", "scan"} \X {"failed"})
        \cup {<<"preScan", "blocked">>, <<"scan", "badImage">>}

Everything == {"ScanInstance", "Job", "Deployment", "Service", "Config"}
Symmetry == Permutations(ScanInstances)

=============================================================================
