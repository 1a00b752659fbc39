---------------------- MODULE TargetControllerProperties ----------------------
(* What the Target controller must, and what it claims to, guarantee. *)
EXTENDS TargetController

Living(t) == target[t].exists /\ ~target[t].deleting

\* A Target is available only if its credentials were validated, for a Target
\* of its kind (controller_helper.go:584-628, 397-495).
AvailableProven ==
    \A t \in Targets :
        target[t].status = "Available" =>
            <<target[t].creds, t \in Reporting>> \in proven

\* The volume of a hash stays while a living Target is annotated with it
\* (controller_helper.go:74-180).
VolumeKept ==
    \A t \in Targets :
        Living(t) /\ target[t].hash = target[t].creds /\ target[t].hash \in NFS
        => volume[target[t].hash].state = "exists"

\* Users do no more than MaxEdits things, so that "in the end" is []<>.

\* In the end every Target is decided and annotated, and a deleted one is gone
\* (controller.go:49-211, controller_helper.go:23-72).
TargetsSettle ==
    []<>(\A t \in Targets :
            \/ ~target[t].exists
            \/ /\ ~target[t].deleting
               /\ target[t].status \in {"Available", "Unavailable"}
               /\ target[t].hash = target[t].creds)

Used(h) == \E t \in Targets : h \in {target[t].creds, target[t].hash}

\* In the end the job and the volume of credentials no Target has are gone, unless a
\* call was refused (controller_helper.go:74-180, 239-309).
HashesForgotten ==
    []<>(\A h \in Hashes :
            Used(h) \/ faults > 0 \/ (job[h] = NoJob /\ volume[h] = NoVolume))

\* "Idempotent: Safe to reconcile multiple times, no-op if already up to date"
\* (TARGET_CRONJOB_RECONCILIATION.md:141): each CronJob comes to rest, if no two
\* available Targets for backups have the same credentials, and so share it
\* (controller_helper.go:753-883).
CronJobSettles ==
    \A h \in Hashes : \E t \in Targets \cup {NoTarget} : <>[](cron[h] = t)

=============================================================================
