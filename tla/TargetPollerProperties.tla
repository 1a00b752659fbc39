------------------------ MODULE TargetPollerProperties ------------------------
(* What the target poller must, and what it claims to, guarantee. *)
EXTENDS TargetPoller

\* "Remove stale ScanInstance CRs for deleted backups/backupplans" (README.md:10
\* of the poller): a ScanInstance is deleted only after its backup.
RemovesOnlyStale ==
    [][\A n \in Names :
          scans[n] # NoScan /\ ~scans[n].deleting
          /\ scans'[n] # NoScan /\ scans'[n].deleting
          => backup[scans[n].backup] = "gone"]_vars

\* Discovery begins when the cleanup is done: nothing is created while something
\* is still to be deleted (base_handler.py:267-273).
CleanupFirst ==
    creationQueue # {} \/ creating # {} => cleanupQueue = {} /\ cleaning = {}

\* A backup has one ScanInstance, if pre-scans succeed and end before the next
\* poll (base_handler.py:369-375, 407-409).
OneScanPerBackup ==
    \A m, n \in Names :
        scans[m] # NoScan /\ scans[n] # NoScan /\ scans[m].backup = scans[n].backup
        => m = n

\* Every backup that is to be scanned gets a ScanInstance
\* (base_handler.py:342-416).
EveryBackupScanned ==
    \A b \in Enabled :
        backup[b] = "available" ~>
            \/ backup[b] = "gone"
            \/ \E n \in Names : scans[n] # NoScan /\ scans[n].backup = b

\* A labelled ScanInstance does not outlive its backup for long
\* (base_handler.py:161-273).
StaleRemoved ==
    \A n \in Names :
        n \in Listed /\ backup[scans[n].backup] = "gone" ~> scans[n] = NoScan

=============================================================================
