------------------------ MODULE ScanInstanceProperties ------------------------
(* What the ScanInstance controller must, and what it claims to, guarantee. *)
EXTENDS ScanInstanceController

(***************************************************************************)
(* Whatever the caches lag behind.                                         *)
(***************************************************************************)

\* A ScanInstance whose backup has virtual machines to scan is never shown as
\* Completed without its report: the completion for lack of virtual machines
\* (controller_helper.go:595-601) could take a stale copy for a final one.
NoSkippedScan ==
    \A n \in ScanInstances :
        si[n].status = "Completed" /\ si[n].locations = "some" => si[n].report

\* The pre-scan phase is completed only when the container has reported what it
\* found, even if the event of its job overtakes the event of its patch
\* (controller.go:160-174, prescan/cli.py:155-165).
LocationsKnown ==
    \A n \in ScanInstances :
        Has(si[n], "PreScan", "Completed") => si[n].locations # "unknown"

(***************************************************************************)
(* With fresh reads of ScanInstances and jobs, through faults, deletions    *)
(* and new incarnations.                                                   *)
(***************************************************************************)

\* A pre-scan job has no owner reference, so that the garbage collector would
\* never find it: it must not outlive its ScanInstance (controller.go:104,
\* controller_helper.go:76-88).
NoOrphanJob ==
    \A n \in ScanInstances :
        si[n].incarnation = 0 => res[n]["preScan"] = NoObject

\* The status and the conditions, written by separate patches, never tell
\* different stories: a failure has a failed phase, a completion has none
\* (controller.go:135-145, 176-218; controller_helper.go:489-499, 509-579).
StatusExplained ==
    \A n \in ScanInstances :
        /\ si[n].status = "Failed" => \E c \in si[n].conditions : c[2] = "Failed"
        /\ si[n].status = "Completed" =>
              \A c \in si[n].conditions : c[2] # "Failed"

\* A backup is scanned once: no scan job is created for a ScanInstance that is
\* already in, or past, its scanning phase (controller_helper.go:589-591).
ScannedOnce ==
    [][\A n \in ScanInstances :
          res[n]["scan"] = NoObject /\ res'[n]["scan"] # NoObject
          => \A c \in si[n].conditions : c[1] # "Scanning"]_vars

\* The jobs that occupy a slot: those that have not finished.
ScanningJobs ==
    {n \in ScanInstances : res[n]["scan"].state \notin {"absent", "succeeded", "failed"}}

(***************************************************************************)
(* Liveness, without faults.                                               *)
(***************************************************************************)

\* Every ScanInstance is decided: each wait of the reconciler, for a job, for
\* Redis or for a slot, is ended by an event or a requeue.
Settles ==
    \A n \in ScanInstances :
        si[n].incarnation # 0 ~>
            si[n].incarnation = 0 \/ si[n].status \in Terminal

\* From the report of a scan on, its completion and the janitor follow: what the
\* scan needed is removed, unless the janitor job itself fails
\* (controller_helper.go:476-506, cmd/janitor/main.go:168-259).
CleanedUp ==
    \A n \in ScanInstances :
        si[n].report /\ si[n].status \notin Terminal ~>
            \/ res[n]["janitor"].state = "failed"
            \/ \A k \in {"preScan", "scan", "configMap", "redis", "service"} :
                  res[n][k] = NoObject

\* A deleted ScanInstance disappears together with all that was made for it
\* (controller_helper.go:42-68, and the owner references).
Disappears ==
    \A n \in ScanInstances :
        si[n].deleting ~>
            /\ si[n].incarnation = 0
            /\ \A k \in Kinds : res[n][k] = NoObject

(***************************************************************************)
(* Refinement: the life cycle a watcher of the API sees.                   *)
(***************************************************************************)

Life(record) ==
    IF record.incarnation = 0
    THEN [status |-> "none", locations |-> "unknown", report |-> FALSE]
    ELSE [status |-> record.status, locations |-> record.locations,
          report |-> record.report]

Lifecycle == INSTANCE ScanLifecycle WITH life <- [n \in ScanInstances |-> Life(si[n])]

\* Without faults and with fresh reads the controller implements ScanLifecycle:
\* every change of status is one the webhook calls logical
\* (scaninstance_validator.go:67-120), backed by its evidence.
ImplementsLifecycle == Lifecycle!Spec

(***************************************************************************)
(* Claims of the documentation that runs refute.                           *)
(***************************************************************************)

\* "Check if PreScan phase has failed (terminal state)" (controller.go:103): a
\* ScanInstance whose pre-scan failed reaches its terminal status.
PreScanFailureIsTerminal ==
    \A n \in ScanInstances :
        Has(si[n], "PreScan", "Failed") ~>
            si[n].incarnation = 0 \/ si[n].status = "Failed"

=============================================================================
