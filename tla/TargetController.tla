--------------------------- MODULE TargetController ---------------------------
(***************************************************************************)
(* The Target reconciler (controllers/target) with the cluster around it.  *)
(* A Target names a backup store; what the reconciler makes for it (a      *)
(* validation job, the cached verdict, NFS volumes, the CronJob that polls *)
(* it) is named by a hash of its credentials, and shared by all Targets    *)
(* with that hash.  A Target counts as a user of a hash once the hash is   *)
(* annotated on it, which is the last thing its reconciliation does.       *)
(*                                                                         *)
(* Caches are caught up at every step; between two API writes jobs         *)
(* progress, users create, edit and delete Targets, calls are refused and  *)
(* the process may crash.  Only the controller writes the status of a      *)
(* Target, so that the record it read and the one stored differ only in    *)
(* what users change.                                                      *)
(***************************************************************************)
EXTENDS Naturals, FiniteSets

CONSTANTS
    Targets,     \* names of Targets
    Reporting,   \* those that take reports, the others hold backups
    Hashes,      \* credentials, each with its hash
    NFS,         \* those that name an NFS export
    Choices,     \* the credentials users may give each Target
    NoHash, NoTarget,
    MaxEdits,    \* bound: Targets created, edited and deleted
    MaxFaults,   \* bound: refused API writes and crashes
    Trouble      \* what else may happen: "failed" jobs, "blocked" pods, pods with
                 \* a "badImage"

ASSUME ConstantsAssumption ==
    /\ Targets # {}
    /\ Reporting \subseteq Targets
    /\ NFS \subseteq Hashes
    /\ Choices \in [Targets -> SUBSET Hashes]
    /\ NoHash \notin Hashes
    /\ NoTarget \notin Targets
    /\ MaxEdits \in Nat
    /\ MaxFaults \in Nat
    /\ Trouble \subseteq {"failed", "blocked", "badImage"}

VARIABLES
    target,   \* the Targets the API server stores
    job,      \* the validation job of each hash
    entry,    \* the validation ConfigMap
    cron,     \* the Target each poller CronJob polls, by hash
    volume,   \* the NFS volume and claim of each hash
    proven,   \* history: the credentials a validation has succeeded with, and as
              \* what kind of Target
    queue,    \* names the work queue holds, those waiting for a delay included
    at,       \* next step of the worker
    cur,      \* name the worker reconciles
    spec,     \* the credentials in its copy of the Target, which every patch renews
    hash,     \* its currentSpecCredentialsHash
    updated,  \* its isTargetCredentialsUpdated
    outcome,  \* the job status it read
    edits,    \* how many Targets were created, edited and deleted
    faults    \* how many faults occurred

objects == <<job, entry, cron, volume, proven>>
worker == <<at, cur, spec, hash, updated, outcome>>
bounds == <<edits, faults>>
vars == <<target, objects, queue, worker, bounds>>

-----------------------------------------------------------------------------
(* Data. *)

Outcomes == {"InProgress", "Completed", "Failed"}  \* what conditions record
JobStatuses == Outcomes \cup {"none", "overdue"}

\* hash is the annotation; reason the hash the last condition about credentials
\* names; validation the statuses of the conditions about validation.
Record == [exists : BOOLEAN, deleting : BOOLEAN, finalizer : BOOLEAN,
           creds : Hashes \cup {NoHash},
           hash : Hashes \cup {NoHash},
           status : {"", "InProgress", "Available", "Unavailable"},
           reason : Hashes \cup {NoHash}, validation : SUBSET Outcomes]

NoRecord == [exists |-> FALSE, deleting |-> FALSE, finalizer |-> FALSE,
             creds |-> NoHash, hash |-> NoHash, status |-> "", reason |-> NoHash,
             validation |-> {}]

\* by is the Target whose name the job's container is given; mounts says whether
\* it mounts the volume of the hash, deleting that the job waits for its pods or
\* the garbage collector.
Job == [state : {"absent", "new", "overdue", "active", "badImage", "succeeded",
                 "failed"},
        by : Targets \cup {NoTarget}, mounts : BOOLEAN, deleting : BOOLEAN]
NoJob == [state |-> "absent", by |-> NoTarget, mounts |-> FALSE,
          deleting |-> FALSE]

\* export is what a volume was made from.
Volume == [state : {"absent", "exists", "deleting"},
           export : Hashes \cup {NoHash}]
NoVolume == [state |-> "absent", export |-> NoHash]

Labels == {"idle", "addFinalizer", "read", "cleanup", "removeFinalizer", "mark",
           "release", "volume", "validate", "started", "completed", "available",
           "begin", "deleteJob", "removeEntry", "createJob", "verdict",
           "verdictCondition", "verdictStatus", "deleteValidated",
           "annotateAndWait", "annotate", "poller"}

TypeOK ==
    /\ target \in [Targets -> Record]
    /\ job \in [Hashes -> Job]
    /\ entry \in [Hashes -> {"none", "Valid", "Invalid"}]
    /\ cron \in [Hashes -> Targets \cup {NoTarget}]
    /\ volume \in [Hashes -> Volume]
    /\ proven \subseteq Hashes \X BOOLEAN
    /\ queue \subseteq Targets
    /\ at \in Labels
    /\ cur \in Targets
    /\ spec \in Hashes \cup {NoHash}
    /\ hash \in Hashes \cup {NoHash}
    /\ hash = NoHash => at \in {"idle", "addFinalizer", "read", "cleanup",
                               "removeFinalizer"}
    /\ updated \in BOOLEAN
    /\ outcome \in JobStatuses
    /\ edits \in 0..MaxEdits
    /\ faults \in 0..MaxFaults

Init ==
    /\ target = [t \in Targets |-> NoRecord]
    /\ job = [h \in Hashes |-> NoJob]
    /\ entry = [h \in Hashes |-> "none"]
    /\ cron = [h \in Hashes |-> NoTarget]
    /\ volume = [h \in Hashes |-> NoVolume]
    /\ proven = {}
    /\ queue = {}
    /\ at = "idle"
    /\ cur \in Targets
    /\ spec = NoHash
    /\ hash = NoHash
    /\ updated = FALSE
    /\ outcome = "none"
    /\ edits = 0
    /\ faults = 0

-----------------------------------------------------------------------------
(* What wakes the controller. *)

\* The predicate compares the counters of a job's status.
Visible(state) ==
    CASE state = "overdue" -> "new"
      [] state = "badImage" -> "active"
      [] OTHER -> state

\* Events of what is made for a hash wake the Targets annotated with it.
Touched(h) ==
    \/ Visible(job'[h].state) # Visible(job[h].state)
    \/ cron'[h] # cron[h]
    \/ volume'[h] # volume[h]

\* Those of a Target count if its generation changes; those of the ConfigMap wake
\* every Target.
Woken ==
    {t \in Targets :
        /\ target'[t].exists
        /\ \/ ~target[t].exists
           \/ target'[t].creds # target[t].creds
           \/ target'[t].deleting # target[t].deleting
           \/ entry' # entry
           \/ target[t].hash \in Hashes /\ Touched(target[t].hash)}

-----------------------------------------------------------------------------
(* What the worker's steps are made of. *)

Fault == faults < MaxFaults /\ faults' = faults + 1

Ends ==
    /\ at' = "idle"
    /\ spec' = NoHash
    /\ hash' = NoHash
    /\ updated' = FALSE
    /\ outcome' = "none"
    /\ UNCHANGED cur

\* A reconciliation that returns an error, or asks to be requeued, puts its
\* Target back into the queue.
Continue(label, copy) ==
    CASE label = "retry" -> Ends /\ queue' = queue \cup {cur} \cup Woken
      [] label = "idle" -> Ends /\ queue' = queue \cup Woken
      [] OTHER -> /\ at' = label
                  /\ spec' = copy
                  /\ queue' = queue \cup Woken
                  /\ UNCHANGED <<cur, hash, updated, outcome>>

Goto(label) == Continue(label, spec)

Move(label) ==
    /\ UNCHANGED <<target, objects, bounds>>
    /\ Goto(label)

\* Mutant: the error is logged, not returned.
RefusedSilently ==
    /\ Fault
    /\ UNCHANGED <<target, objects, edits>>
    /\ Goto("idle")

Refused ==
    /\ Fault
    /\ UNCHANGED <<target, objects, edits>>
    /\ Goto("retry")

Patch(record, label) ==
    \/ /\ target' = [target EXCEPT ![cur] = record]
       /\ UNCHANGED <<objects, bounds>>
       /\ Continue(label, record.creds)
    \/ Refused

\* A Target can be gone before it has its finalizer.
PatchObject(record, label) ==
    IF target[cur].exists THEN Patch(record, label) ELSE Move("retry")

PatchStatus(status, label) == Patch([target[cur] EXCEPT !.status = status], label)

PatchCondition(status, label) ==
    IF status \in target[cur].validation
    THEN Move(label)
    ELSE Patch([target[cur] EXCEPT !.validation = @ \cup {status}], label)

\* Targets annotated with a hash; a deletion counts only those that live on.
Users(h) == {t \in Targets : target[t].exists /\ target[t].hash = h}

\* Mutant: only Targets that are available count.
AvailableUsers(h) ==
    {t \in Users(h) : ~target[t].deleting /\ target[t].status = "Available"}

LivingUsers(h) == {t \in Users(h) : ~target[t].deleting}

JobStatus(state) ==
    CASE state = "succeeded" -> "Completed"
      [] state \in {"failed", "badImage"} -> "Failed"
      [] state = "overdue" -> "overdue"
      [] OTHER -> "InProgress"

-----------------------------------------------------------------------------
(* Reconcile: finalizer, credentials and volumes. *)

AfterRelease(copy) == IF copy \in NFS THEN "volume" ELSE "validate"

AfterMark(changed, old, copy) ==
    IF changed /\ old # NoHash THEN "release" ELSE AfterRelease(copy)

Start(t) ==
    /\ at = "idle"
    /\ t \in queue
    /\ queue' = queue \ {t}
    /\ cur' = t
    /\ spec' = target[t].creds
    /\ at' = CASE ~target[t].exists -> "idle"
               [] target[t].exists /\ target[t].deleting -> "cleanup"
               [] OTHER -> IF target[t].finalizer THEN "read" ELSE "addFinalizer"
    /\ UNCHANGED <<target, objects, hash, updated, outcome, bounds>>

AddFinalizer ==
    /\ at = "addFinalizer"
    /\ PatchObject([target[cur] EXCEPT !.finalizer = TRUE], "read")

\* Credentials are marked as changed unless the last condition says so already.
ReadCredentials ==
    /\ at = "read"
    /\ LET r == target[cur]
           changed == r.hash # spec
       IN /\ at' = IF (changed \/ r.status = "") /\ r.reason # spec
                   THEN "mark" ELSE AfterMark(changed, r.hash, spec)
          /\ updated' = changed
    /\ hash' = spec
    /\ UNCHANGED <<target, objects, bounds, queue, cur, spec, outcome>>

MarkInProgress ==
    /\ at = "mark"
    /\ Patch([target[cur] EXCEPT !.reason = hash, !.status = "InProgress"],
             AfterMark(updated, target[cur].hash, target[cur].creds))

\* The deletion of a volume waits for the pods that mount it.
Removing(v) == IF v.state = "exists" THEN [v EXCEPT !.state = "deleting"] ELSE v

\* Mutant: the job of the old hash stays.
CleanupVolumeForHash ==
    /\ at = "release"
    /\ volume' = IF Users(target[cur].hash) = {cur}
                 THEN [volume EXCEPT ![target[cur].hash] = Removing(@)] ELSE volume
    /\ UNCHANGED <<target, job, entry, cron, proven, bounds>>
    /\ Goto(AfterRelease(spec))

\* What was made for the old hash goes, unless another Target is annotated with
\* it: the volume, then the job, which waits for the garbage collector.
CleanupForHash ==
    /\ at = "release"
    /\ LET old == target[cur].hash
           withoutVolume == [volume EXCEPT ![old] = Removing(@)]
           next == AfterRelease(spec)
       IN IF Users(old) \ {cur} # {}
          THEN Move(next)
          ELSE \/ /\ volume' = withoutVolume
                  /\ job' = [job EXCEPT ![old].deleting = (@ \/ job[old] # NoJob)]
                  /\ UNCHANGED <<target, entry, cron, proven, bounds>>
                  /\ Goto(next)
               \/ /\ Fault
                  /\ volume' \in {volume, withoutVolume}
                  /\ UNCHANGED <<target, job, entry, cron, proven, edits>>
                  /\ Goto("retry")

\* A volume that is being deleted cannot be created again yet.
ReconcileVolume ==
    /\ at = "volume"
    /\ LET made == [volume EXCEPT ![hash] =
                       [state |-> "exists", export |-> spec]]
       IN CASE volume[hash].state = "deleting" -> Move("retry")
            [] volume[hash].state = "exists" -> Move("validate") \/ Refused
            [] volume[hash].state = "absent" ->
                  \/ /\ volume' = made
                     /\ UNCHANGED <<target, job, entry, cron, proven, bounds>>
                     /\ Goto("validate")
                  \/ /\ Fault
                     /\ volume' \in {volume, made}
                     /\ UNCHANGED <<target, job, entry, cron, proven, edits>>
                     /\ Goto("retry")

-----------------------------------------------------------------------------
(* Reconcile: validation. *)

AfterUpdate(r) ==
    IF r.status = "Available" /\ cur \notin Reporting THEN "poller" ELSE "idle"

AfterValidation(r) == IF updated THEN "annotate" ELSE AfterUpdate(r)

AfterJob(r) == IF updated THEN "annotateAndWait" ELSE AfterUpdate(r)

ByJob == IF job[hash] = NoJob \/ entry[hash] = "Invalid" THEN "begin" ELSE "verdict"

\* Mutant: any entry will do.
AfterAnyEntry(r) ==
    IF entry[hash] # "none"
    THEN IF r.status = "Available" THEN AfterValidation(r) ELSE "available"
    ELSE IF updated \/ job[hash] # NoJob \/ r.status = "InProgress"
         THEN ByJob ELSE AfterValidation(r)

AfterEntry(r) ==
    CASE entry[hash] = "Valid" /\ r.status = "Available" -> AfterValidation(r)
      [] entry[hash] = "Valid" /\ r.status # "Available" ->
            IF r.validation \cap {"Completed", "Failed"} # {}
            THEN "available" ELSE "started"
      [] entry[hash] = "Invalid" /\ r.status = "Unavailable" -> "idle"
      [] OTHER ->
            IF updated \/ job[hash] # NoJob \/ r.status = "InProgress"
            THEN ByJob ELSE AfterValidation(r)

\* A valid entry makes the Target available; an invalid one ends the matter for
\* a Target that is unavailable; otherwise the job decides, and is created if
\* credentials changed or the Target waits for it.
ProcessValidationConfigMap ==
    /\ at = "validate"
    /\ UNCHANGED <<target, objects, bounds>>
    /\ IF AfterEntry(target[cur]) = "verdict"
       THEN /\ at' = "verdict"
            /\ outcome' = JobStatus(job[hash].state)
            /\ UNCHANGED <<queue, cur, spec, hash, updated>>
       ELSE Goto(AfterEntry(target[cur]))

AddStarted == at = "started" /\ PatchCondition("InProgress", "completed")

AddCompleted == at = "completed" /\ PatchCondition("Completed", "available")

MarkAvailable ==
    /\ at = "available"
    /\ PatchStatus("Available",
                   AfterValidation([target[cur] EXCEPT !.status = "Available"]))

BeginValidation ==
    /\ at = "begin"
    /\ PatchCondition("InProgress",
                      IF job[hash] # NoJob THEN "deleteJob" ELSE "removeEntry")

\* In the foreground: the job stays until its pods are gone.
DeleteJob(label) ==
    \/ /\ job' = [job EXCEPT ![hash].deleting = (@ \/ job[hash] # NoJob)]
       /\ UNCHANGED <<target, entry, cron, volume, proven, bounds>>
       /\ Goto(label)
    \/ Refused

DeleteFailedJob == at = "deleteJob" /\ DeleteJob("removeEntry")

\* A failure to remove the entry is logged.
RemoveCredHash ==
    /\ at = "removeEntry"
    /\ \/ /\ entry' = [entry EXCEPT ![hash] = "none"]
          /\ UNCHANGED bounds
       \/ Fault /\ UNCHANGED <<entry, edits>>
    /\ UNCHANGED <<target, job, cron, volume, proven>>
    /\ Goto("createJob")

CreateValidationJob ==
    /\ at = "createJob"
    /\ \/ /\ job[hash] = NoJob
          /\ job' = [job EXCEPT ![hash] =
                        [state |-> "new", by |-> cur, mounts |-> spec \in NFS,
                         deleting |-> FALSE]]
          /\ UNCHANGED <<target, entry, cron, volume, proven, bounds>>
          /\ Goto(AfterJob(target[cur]))
       \/ job[hash] # NoJob /\ Move("retry")
       \/ Refused

\* Mutant: a job that is overdue keeps its own status.
EnterVerdict ==
    /\ at = "verdict"
    /\ entry' = CASE outcome = "Completed" -> [entry EXCEPT ![hash] = "Valid"]
                  [] outcome = "Failed" -> [entry EXCEPT ![hash] = "Invalid"]
                  [] OTHER -> entry
    /\ UNCHANGED <<target, job, cron, volume, proven, bounds>>
    /\ Goto(IF target[cur].status = "Available" THEN "verdictStatus"
            ELSE "verdictCondition")

\* The verdict of the job is entered for all Targets of the hash.
UpdateValidationConfigMap ==
    /\ at = "verdict"
    /\ \/ /\ entry' = CASE outcome = "Completed" -> [entry EXCEPT ![hash] = "Valid"]
                        [] outcome = "Failed" -> [entry EXCEPT ![hash] = "Invalid"]
                        [] OTHER -> entry
          /\ UNCHANGED <<target, job, cron, volume, proven, bounds>>
          /\ at' = IF target[cur].status = "Available"
                   THEN "verdictStatus" ELSE "verdictCondition"
          /\ outcome' = CASE outcome # "overdue" -> outcome
                          [] target[cur].status = "Available" -> "InProgress"
                          [] OTHER -> "Failed"
          /\ queue' = queue \cup Woken
          /\ UNCHANGED <<cur, spec, hash, updated>>
       \/ outcome \in {"Completed", "Failed"} /\ Refused

AddVerdict == at = "verdictCondition" /\ PatchCondition(outcome, "verdictStatus")

Verdict ==
    CASE outcome = "Completed" -> "Available"
      [] outcome = "Failed" -> "Unavailable"
      [] OTHER -> "InProgress"

MarkVerdict ==
    /\ at = "verdictStatus"
    /\ PatchStatus(Verdict,
                   IF outcome = "Completed" THEN "deleteValidated"
                   ELSE AfterJob([target[cur] EXCEPT !.status = Verdict]))

DeleteValidatedJob ==
    at = "deleteValidated" /\ DeleteJob(AfterJob(target[cur]))

UpdateCredentialsHash ==
    \/ /\ at = "annotateAndWait"
       /\ PatchObject([target[cur] EXCEPT !.hash = hash], "retry")
    \/ /\ at = "annotate"
       /\ PatchObject([target[cur] EXCEPT !.hash = hash], AfterUpdate(target[cur]))

\* (Mutation: a CronJob is deleted to be created again.)
ReplacePollerCronJob ==
    /\ at = "poller"
    /\ cron' = [cron EXCEPT ![hash] = IF @ = NoTarget THEN cur ELSE NoTarget]
    /\ UNCHANGED <<target, job, entry, volume, proven, bounds>>
    /\ Goto("idle")

\* The container of the poller is given the name of the Target.
ReconcilePollerCronJob ==
    /\ at = "poller"
    /\ \/ /\ cron' = [cron EXCEPT ![hash] = cur]
          /\ UNCHANGED <<target, job, entry, volume, proven, bounds>>
          /\ Goto("idle")
       \/ cron[hash] # cur /\ Refused

-----------------------------------------------------------------------------
(* Reconcile: deletion. *)

\* The entries of hashes no living Target is annotated with are dropped.
Synced == [h \in Hashes |-> IF LivingUsers(h) = {} THEN "none" ELSE entry[h]]

\* What was made for the annotated hash goes unless a living Target shares it:
\* the job with its pods, the CronJob and the volume.  A failure to drop entries
\* is logged, any other ends the cleanup.
CleanupTarget ==
    /\ at = "cleanup"
    /\ LET old == target[cur].hash
           noJob == [job EXCEPT ![old] = NoJob]
           noCron == [cron EXCEPT ![old] = NoTarget]
           noVolume == IF spec \in NFS
                       THEN [volume EXCEPT ![old] = Removing(@)] ELSE volume
       IN CASE old = NoHash -> Move("removeFinalizer")
            [] old # NoHash /\ LivingUsers(old) \ {cur} # {} ->
                  /\ \/ entry' = Synced /\ UNCHANGED bounds
                     \/ Fault /\ UNCHANGED <<entry, edits>>
                  /\ UNCHANGED <<target, job, cron, volume, proven>>
                  /\ Goto("removeFinalizer")
            [] OTHER ->
                  \/ /\ job' = noJob /\ cron' = noCron /\ volume' = noVolume
                     /\ \/ entry' = Synced /\ UNCHANGED bounds
                        \/ Fault /\ UNCHANGED <<entry, edits>>
                     /\ UNCHANGED <<target, proven>>
                     /\ Goto("removeFinalizer")
                  \/ /\ Fault
                     /\ \E done \in {<<job, cron>>, <<noJob, cron>>, <<noJob, noCron>>} :
                           job' = done[1] /\ cron' = done[2]
                     /\ UNCHANGED <<target, entry, volume, proven, edits>>
                     /\ Goto("retry")

RemoveFinalizer ==
    /\ at = "removeFinalizer"
    /\ PatchObject(NoRecord, "idle")

WorkerStep ==
    \/ AddFinalizer \/ ReadCredentials \/ MarkInProgress \/ CleanupForHash
    \/ ReconcileVolume \/ ProcessValidationConfigMap
    \/ AddStarted \/ AddCompleted \/ MarkAvailable
    \/ BeginValidation \/ DeleteFailedJob \/ RemoveCredHash \/ CreateValidationJob
    \/ UpdateValidationConfigMap \/ AddVerdict \/ MarkVerdict \/ DeleteValidatedJob
    \/ UpdateCredentialsHash \/ ReconcilePollerCronJob
    \/ CleanupTarget \/ RemoveFinalizer

\* A new process reconciles every Target.
Crash ==
    /\ Fault
    /\ Ends
    /\ queue' = {t \in Targets : target[t].exists}
    /\ UNCHANGED <<target, objects, edits>>

-----------------------------------------------------------------------------
(* Users and the cluster. *)

Outside == queue' = queue \cup Woken /\ UNCHANGED <<worker, faults>>

Edit(t, record) ==
    /\ edits < MaxEdits
    /\ edits' = edits + 1
    /\ target' = [target EXCEPT ![t] = record]
    /\ UNCHANGED objects
    /\ Outside

\* The webhook admits a reporting Target when none is available.
OneReporting(t) ==
    t \in Reporting =>
        \A u \in Reporting : target[u].exists => target[u].status # "Available"

UserCreates(t) ==
    /\ ~target[t].exists
    /\ OneReporting(t)
    /\ \E c \in Choices[t] :
          Edit(t, [NoRecord EXCEPT !.exists = TRUE, !.creds = c])

UserEdits(t) ==
    /\ target[t].exists
    /\ \E c \in Choices[t] \ {target[t].creds} :
          Edit(t, [target[t] EXCEPT !.creds = c])

UserDeletes(t) ==
    /\ target[t].exists
    /\ ~target[t].deleting
    /\ Edit(t, IF target[t].finalizer
               THEN [target[t] EXCEPT !.deleting = TRUE] ELSE NoRecord)

Becomes(h, from, to) ==
    /\ job[h].state \in from
    /\ job' = [job EXCEPT ![h].state = to]
    /\ UNCHANGED <<target, entry, cron, volume, edits>>

JobStarts(h) ==
    /\ job[h].mounts => volume[h].state = "exists"
    /\ Becomes(h, {"new", "overdue"}, "active") /\ UNCHANGED proven /\ Outside

JobBlocked(h) ==
    /\ "blocked" \in Trouble
    /\ Becomes(h, {"new"}, "overdue") /\ UNCHANGED proven /\ Outside

ImageMissing(h) ==
    /\ "badImage" \in Trouble
    /\ Becomes(h, {"active"}, "badImage") /\ UNCHANGED proven /\ Outside

ImageFound(h) == Becomes(h, {"badImage"}, "active") /\ UNCHANGED proven /\ Outside

\* The container mounts the volume of the hash, or reads the credentials that
\* the Target of its name has by now.
Tested(h) == IF job[h].mounts THEN volume[h].export ELSE target[job[h].by].creds

JobSucceeds(h) ==
    /\ Becomes(h, {"active"}, "succeeded")
    /\ target[job[h].by].exists
    /\ Tested(h) # NoHash
    /\ proven' = proven \cup {<<Tested(h), job[h].by \in Reporting>>}
    /\ Outside

\* It fails when its Target is gone.
JobFails(h) ==
    /\ "failed" \in Trouble \/ (job[h] # NoJob /\ ~target[job[h].by].exists)
    /\ Becomes(h, {"active"}, "failed") /\ UNCHANGED proven /\ Outside

JobCollected(h) ==
    /\ job[h].deleting
    /\ job' = [job EXCEPT ![h] = NoJob]
    /\ UNCHANGED <<target, entry, cron, volume, proven, edits>>
    /\ Outside

VolumeCollected(h) ==
    /\ volume[h].state = "deleting"
    /\ volume' = [volume EXCEPT ![h] = NoVolume]
    /\ UNCHANGED <<target, job, entry, cron, proven, edits>>
    /\ Outside

Cluster ==
    \/ \E t \in Targets :
          UserCreates(t) \/ UserEdits(t) \/ UserDeletes(t)
    \/ \E h \in Hashes :
          \/ JobStarts(h) \/ JobBlocked(h) \/ ImageMissing(h) \/ ImageFound(h)
          \/ JobSucceeds(h) \/ JobFails(h)
          \/ JobCollected(h) \/ VolumeCollected(h)

Next ==
    \/ \E t \in Targets : Start(t)
    \/ WorkerStep
    \/ Crash
    \/ Cluster

Spec == Init /\ [][Next]_vars

\* The queue is first in, first out; jobs run and end, and the garbage collector
\* collects.  Users, faults and pods in trouble are under no obligation.
Progress(h) ==
    JobStarts(h) \/ JobSucceeds(h) \/ JobFails(h) \/ JobCollected(h) \/ VolumeCollected(h)

Fairness ==
    /\ \A t \in Targets : SF_vars(Start(t))
    /\ WF_vars(WorkerStep)
    /\ WF_vars(\E h \in Hashes : Progress(h))

FairSpec == Spec /\ Fairness

=============================================================================
