------------------------------- MODULE JobPods -------------------------------
(***************************************************************************)
(* The containers together: validators, an uploader and a pre-scan with    *)
(* their mounts, over one target, while pods are killed and the backup is  *)
(* being deleted.                                                          *)
(***************************************************************************)
EXTENDS TargetValidator, ReportUploader, PreScanDetector

vars == <<setup, at, credentials, faults, mountVars, bucketVars, uploadVars,
          tree, detectVars>>

Init ==
    /\ TargetInit
    /\ MountInit
    /\ ValidatorInit
    /\ UploadInit
    /\ DetectorInit

\* What a container does of itself.
Script(p) ==
    \/ MountStep(p) /\ UNCHANGED <<bucketVars, uploadVars, tree, detectVars>>
    \/ ValidatorStep(p) /\ UNCHANGED <<uploadVars, tree, detectVars>>
    \/ UploadStep(p) /\ UNCHANGED <<bucketVars, tree, detectVars>>
    \/ DetectorStep(p) /\ UNCHANGED <<bucketVars, uploadVars>>

Fuse(p) == FuseStep(p) /\ UNCHANGED <<bucketVars, uploadVars, tree, detectVars>>

\* The job is deleted, or its deadline passes; with the pod goes its mount.
Killed(p) ==
    /\ at[p] \notin Ended
    /\ Faulty(p)
    /\ OneMoreFault(p)
    /\ Goto(p, "killed")
    /\ UNCHANGED <<setup, credentials, mountVars, bucketVars, uploadVars, tree, detectVars>>

Retention ==
    /\ RetentionDeletes
    /\ UNCHANGED <<setup, at, credentials, faults, mountVars, bucketVars, uploadVars,
                   detectVars>>

Next ==
    \/ \E p \in Pods : Script(p) \/ Fuse(p) \/ Killed(p)
    \/ Retention

\* A running script goes on; s3fuse and retention may take their time.
Spec == Init /\ [][Next]_vars /\ \A p \in Pods : WF_vars(Script(p))

=============================================================================
