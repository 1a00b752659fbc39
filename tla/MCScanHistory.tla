----------------------------- MODULE MCScanHistory -----------------------------
(* Instances of the ScanInstance controller with its history for TLC. *)
EXTENDS ScanInstanceHistory, MCScanInstance

=============================================================================
