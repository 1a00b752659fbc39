# Threat scanning: verification

This directory is a TLA+ development of the threat-scanning operator: models of
its reconcilers, of the target poller, of the scripts that its jobs run, and of the
file recovery script; instances of them that TLC checks, and theorems about them
that TLAPS proves for every value of the parameters. Source
paths are relative to the root of the repository.

Contents

1. [The system](#1-the-system): an inventory of its parts
2. [Modules](#2-modules): which models what, and how state and actions correspond
3. [Abstractions](#3-abstractions)
4. [Runs](#4-runs): what is checked, with which bounds
5. [Fairness](#5-fairness)
6. [Proofs](#6-proofs)
7. [Where code and documentation part](#7-where-code-and-documentation-part)
8. [What is not modelled](#8-what-is-not-modelled)
9. [Plan](#9-plan)

## 1. The system

The operator scans backups of virtual machines for malware. A **Target** resource
names a backup store (NFS export or S3 bucket); a **ScanInstance** resource asks for
the scan of one backup on one Target. A Go manager reconciles both kinds; Python
containers do the work in Kubernetes jobs; a janitor removes what is left.

```
 user ----creates, edits, deletes----> Target ------+----> ScanInstance <---- user
                                         |          |            |   ^
              Target controller <--------+          |            |   | labels, locations
                |        |     |                    |            v   |
    validation job   volumes   poller CronJob       |   ScanInstance controller
    (tests the       (NFS)        |                 |      |       |       |
     store)                    poller job ----------+   pre-scan  Redis,  janitor
                                                          job     scan job  job
```

Components communicate through the API server only. The manager
(`cmd/manager/main.go`) is one process with one worker per controller (no
`MaxConcurrentReconciles`, one replica, leader election); all its reads are served
from informer caches; its writes go to the API server and are visible to its own
reads only when the watch event arrives.

| component | state it keeps | operations | interacts with |
|---|---|---|---|
| ScanInstance controller (`controllers/scaninstance`) | the status, conditions, finalizer of ScanInstances; in memory only its work queue and caches | Reconcile: finalizer, initial status, pre-scan job, Redis, slot limit, scan job, report, janitor job; cleanup | API server, informers, jobs it makes, janitor, pre-scan container |
| ScanInstance API and admission (`api/v1`, `pkg/webhook/scaninstance`) | none | defaults and validation of creations and updates, table of status changes | API server |
| pre-scan container (`datastore-attacher/prescan`) | none | finds a backup's disks, patches locations and labels | ScanInstance of its name |
| janitor (`cmd/janitor`) | none | removes jobs and Redis of one completed scan; periodic sweep of failed ones | ScanInstance by name, jobs |
| Target controller (`controllers/target`) | status, conditions, finalizer, hash annotation of Targets; a ConfigMap of verdicts; volumes, validation jobs, CronJobs named by a hash of credentials | Reconcile: change of credentials, volumes, validation, verdicts, poller CronJob; cleanup shared by hash | API server, validation job, poller |
| Target admission (`pkg/webhook/target`) | none | spec checks, one available reporting Target, no deletion while scanned | API server |
| target poller (`datastore-attacher/targetPoller`) | two queues, two pools of threads, snapshot of the store; nothing persists | read the store, delete stale ScanInstances, create new ones | store, ScanInstances |
| mount command (`datastore-attacher/mount_utility`) | a configuration file, an s3fuse in the background | read the Target with its Secrets, start s3fuse, wait for the mount, start over once | API server, s3fuse, the command after it |
| validation scripts (`scripts/target_validations.py`) | test objects with fixed names in the bucket | read a backup target through its mount; try out sixteen operations on a reporting target | the bucket, other validators of it |
| backup detection (`shared/backup_detection`) | none | read the files of a backup, one by one, to find virtual machines | the mounted target, retention of the backup product |
| report uploader (`report_uploader`) | none | check the Target and the bucket, send each file | the bucket |
| file recovery (`scripts/vm_qcow2_mount.py`) | overlays, NBD devices, mounts, one record for each recovery | mount a recovery's disks, unmount all | other runs on the same machine |

What is hard, and what makes each part correct:

* **ScanInstance controller.** A reconciliation is up to a dozen API calls with no
  transaction: any may be refused or be the last before a crash, and status and
  conditions are separate patches. Reads lag behind writes. Two processes patch the
  status (controller and pre-scan container). Waiting is left to events and
  requeues, and several kinds of event wake nobody. It is correct if no scan is
  skipped silently, every ScanInstance is decided, status and conditions agree,
  slots are respected, and nothing is left behind or deleted too soon.
* **Janitor.** It deletes by name, without identity, at a time of its own: it must
  not meet a running scan, and it never comes back if a deletion fails.
* **Target controller.** Everything it makes belongs to a *hash*, not to a Target:
  several Targets share a job, a verdict, a volume and a CronJob, while each of
  them can be edited or deleted at any step. It is correct if no Target is Available
  without a successful validation of its credentials, no volume is taken from
  a Target that needs it, every Target is decided, and what nobody uses goes away.
* **Poller.** Threads, a queue length that is read while workers take messages,
  a snapshot of a store that changes underneath, and a walk that stops early. It is
  correct if it deletes only what is stale and every backup is scanned, once.
* **Scripts of the jobs.** Two commands joined by "&&", the first of which exits with 0 in one of
  its failures; an s3fuse that reads its configuration when it comes to it, while the retry
  rewrites it; validators that share the names of their test objects; a backup that retention
  deletes while it is read. They are correct if nothing succeeds without what it claims: a mount,
  every permission, every file sent, every virtual machine found.
* **File recovery.** Nothing keeps two runs apart; devices are looked for and then taken; what a run
  has connected is written down last. It is correct if a record names the devices of its disks, no run
  releases what is not its own, and what is connected can be released.
* **Admission** checks one request against a cache: correctness across concurrent
  requests is not its to give.

`PROJECT.json` lists all components with their coverage, and 40 hazards with the
line where each bites and the properties that catch it going wrong. Where the code simply falls for a hazard, a property can
only be stated for what remains: such a hazard names no property, and its note says which property it breaks, under which
condition that one is checked, and what TLC finds without the condition.

## 2. Modules

| module | what it is |
|---|---|
| `ScanInstanceController` | the reconciler with API server, informers, jobs, garbage collector, pre-scan container, janitor and users |
| `ScanLifecycle` | abstract specification: the life of a ScanInstance as a watcher of the API sees it, from the webhook's transition table |
| `ScanInstanceProperties` | its invariants, action and liveness properties, the refinement mapping |
| `ScanInstanceHistory` | the controller with a memory of what its stale reads did not show, and what may be lost by them |
| `MCScanInstance`, `MCScanHistory` | constants for TLC |
| `ScanInstanceTypes`, `ScanInstanceSafety`, `ScanInstanceFresh` | proofs: types; what holds on stale reads; what fresh reads add, and the refinement |
| `PeriodicJanitor`, `MCPeriodicJanitor` | the periodic sweep of the janitor on top of `ScanInstanceController`, with its properties; instances |
| `PeriodicJanitorSafety` | proofs about the sweep and about the controller beside it |
| `TargetController` | the Target reconciler with jobs, volumes, users and the garbage collector |
| `TargetControllerProperties`, `MCTargetController` | properties, instances |
| `TargetControllerSafety` | proofs |
| `TargetPoller` | one polling job after another: main thread, two pools, the store, the pre-scan labels |
| `TargetPollerProperties`, `MCTargetPoller`, `TargetPollerSafety` | properties, instances, proofs |
| `PodTarget` | what the containers of the jobs share: the target, its bucket, how a script reads the Target resource, faults |
| `PodMount` | the mount command and s3fuse; extends `PodTarget` |
| `TargetValidator`, `ReportUploader`, `PreScanDetector` | the three scripts, each on top of `PodMount` |
| `JobPods` | the composition: several containers over one target, killed pods, retention |
| `JobPodsProperties`, `MCJobPods` | properties, instances |
| `JobPodsSafety` | proofs |
| `FileRecovery` | runs of the file recovery script on one machine |
| `FileRecoveryProperties`, `MCFileRecovery`, `FileRecoverySafety` | properties, instance, proofs |

Every definition that stands for code has a `map` entry in `PROJECT.json` with the
lines it translates. Definitions marked "Mutation" or "Mutant" are not part of any
specification: each is the form a plausible bug would give the definition after it,
and is used to see that the properties notice.

### ScanInstanceController

One worker, with a program counter `at`. Each API write of `Reconcile` and its
helpers is a step, as is each cached read a decision depends on; the order of the
steps, their guards and early returns are those of the code. Between two steps
caches catch up, jobs progress, users act, and the process may crash.

| state | code |
|---|---|
| `si` | the ScanInstances in the API server: identity, deletion mark, finalizer, status, set of conditions (phase and status), whether locations are reported and empty, report path |
| `res` | for each name the jobs (pre-scan, scan, janitor), Redis deployment and service, config map, secret, each with its state and owner |
| `siCache`, `resCache` | the informers |
| `queue`, `at`, `cur`, `copy` | work queue, next step, name in hand, the `scanInstance` variable |

`Goto` is the end of a step: `"retry"` is every return with an error or a requeue,
`"idle"` a return without. `PatchStatus` and `PatchCondition` are merge patches from
the copy (`updateScanInstanceStatus`, `updateScanInstanceCondition`): they are not
versioned, the patch of a list carries the whole list, and an accepted patch
replaces the copy. `AtVersion` is an update or a patch that names a version.
`UpdateReport` and `MarkCompleted` reflect that the original is not refreshed after
the report's update, so that the next patch names a stale version and may conflict.

### ScanInstanceHistory

Decisions on stale copies do damage here: conditions are erased, a final status is written over, a slot is given twice. The
question is what else they can do. Two history variables, which no step reads, record at the moment of a read what it does
not show. `unread` are the conditions and the status (`Facts`) that the server has of the ScanInstance in hand and that the copy has not, which
a reconciliation began with (`controller.go:53`). `overlooked` are the names with an unfinished scan job that the list of jobs did not show when slots were
counted (`controller_helper.go:824`), for as long as the job is unfinished. `ForgetsOnlyUnread`, `ReopensOnlyUnread` and
`SlotsOverlooked` say, with all informers lagging, that no more than that is lost.

### PeriodicJanitor

`SweepNext` is the `Next` of `ScanInstanceController` with the CronJob of the janitor (`--status=Failed`) beside it. `listed` is
what `runCleanup` has kept of its list and is yet to come to, `swept` the ScanInstance in hand, `next` its place in
`SweepOrder`: Redis and its service at once, then, if the ScanInstance is older than the `Threshold`, the jobs and the
ConfigMap. Its age is a choice at that point. Each deletion is a step, goes by name, and may fail, which the code passes over; a sweep
may be killed (`SweepKilled`), and the next one lists anew. An item of the list carries the incarnation it was read from,
which the code does not look at, and `SweepSpares` does.

### TargetController

The same style, with caches always caught up; interleavings come from jobs, users
and crashes. What is named by a hash of credentials is a function of `Hashes`:
`job`, `entry` (the ConfigMap), `cron`, `volume`. `spec` is the worker's copy of
the credentials, renewed by each patch's response, `hash` the hash computed once per
reconciliation: an edit in between makes them differ, as in the code. `proven` is a
history variable: which credentials a validation has really tested, and for which kind
of Target. `Woken` is the event filters with `findTargetsForX`: which Targets an event
of a Target, job, volume, CronJob or ConfigMap enqueues.

### TargetPoller

`at` is the phase of the main thread (`handlers/base_handler.py` and the TVK handler),
`cleanupQueue`, `cleaning`, `creationQueue`, `creating` the two queues and what their
workers hold. `storage` orders the backups of the store by the time of their last
update, `recent` are those of the last five minutes, `known` is the snapshot the
poll took. `rested` separates polls: the CronJob starts the next when pre-scans have
ended, which six hours justify; `Surprises` take such comforts away one by one.

### JobPods

`setup`, chosen in the initial state and never changed, says which script each container runs and
what it finds: the Target's fields, the permissions of the bucket, the backup. `at` is the next step of
each container's commands; a container of an object store that is not called directly begins with the
mount command (`MountsFirst`), and `"main"` is where the script proper begins.

| state | code |
|---|---|
| `conf` | the configuration file as a reader finds it: absent, its section line, or with credentials |
| `fuse`, `attempt` | the s3fuse of each of the two attempts of `mount_datastore`, and which attempt runs |
| `credentials` | what the last read of the Target gave: a Secret that cannot be read is logged, and leaves empty ones |
| `bucket` | the versions of each test object, by the validator that wrote them, or a delete marker |
| `op`, `headed`, `errors` | where a validator is in its list of operations, the version `delete_object_version` has found, whether `validation_errors` has entries |
| `todo`, `sent`, `failed` | the uploader's files |
| `tree`, `mode`, `left`, `locations` | what is left of the backup; which kind the detector takes it for; its loop over the children; `scan_locations` |

`crossed` is a history variable: did two validators of the bucket overlap? `Retry` is what a call that is
retried three times ends with; `ReadTarget` follows the errors: of those of the API server an
`ApiException` is raised, of any other there is no target, and the mount command answers the first with exit
code 0 and the second with 1 (`ReadForMount`). Each call of `verify_s3_methods` is one step that
completes, is refused, or gets no answer, whether carried out or not; the two calls of
`delete_object_version` are two steps.

### FileRecovery

`Scripts` are places in which runs are made one after another, `at` their program counters through
`perform_action`. `device` is what each NBD device is connected to, `mnt` what is mounted below `/mnt`,
`record` the `nbds` of each recovery's JSON file; `torn` are the files that were opened for writing and
not yet written. A run that unmounts lists the records (`listed`), reads one after another into `held` and then works
through `queue`. `overlaps`,
`runs` and `faults` are history: properties say under which of them they hold.

## 3. Abstractions

Data that no decision reads is left out: specs, labels, messages, times, events.
What each abstraction does to the runs:

* **Versions.** Two records are the same version if they are equal. A conflict the
  code would see between equal values is therefore missed; it ends in a requeue.
* **Informers.** A delivery brings one informer up to date in one step. Intermediate
  states a watch shows one by one are passed over; a reconciliation reads only the
  latest anyway. `Lagging` names the informers a step may read before they caught
  up; those outside it are caught up before every step.
* **Delays.** `RequeueAfter` and rate limiting put the name back into the queue at
  once: when it is taken is the scheduler's choice. `RetryOnConflict` in place is
  the wait for a fresh read, or a requeue.
* **Deadlines.** The pending deadline of a job is the state `overdue`, entered at any
  time; the controllers see it only when they look, as in the code.
* **Pods** are folded into the state of their job (`badImage`, `blocked`, retries
  within `active`).
* **Cleanup** reads its caches once, and `AddFinalizer` reads what the patch is
  computed from at the moment of the write.
* **Pre-scan patch**: locations and labels in one step. They are separate calls in
  the code; the labels matter only to the poller's model.
* **Target**: one informer cache, never late (the controller's reads of a Target are
  of one it has just patched; the lag of caches is the subject of the ScanInstance
  model). A persistent volume and its claim are one object, patches of existing
  volumes are refused or not, the ConfigMap always exists, what an update of the
  CronJob changes besides the name is left out. Only one controller writes the status
  of a Target, so that patches need no conflict.
* **Poller**: the snapshot of the store is atomic, the metadata of a plan's backups is
  read in one step, workers take messages in any order. Child plans of a cluster
  plan, and plans without scan configuration, are plans that are not enabled.
* **Containers**: faults meet one container of a behavior (`Faulty`): which of two that share nothing but
  the bucket fails first is not the question. The two minutes of `wait_until_mount` may pass at any moment, so that
  s3fuse may come late for the first attempt. The file of a Target's certificate, retries within a call, and the
  content of files are left out; a backup's file is there or not, and parses or not. The API calls of the uploader
  that read the Target are those of the mount command.
* **File recovery**: each disk has one file system, on the whole device; overlays are known by the disk's name,
  as in `/overlays/vms`. A file system that is mounted over another is one more mount. `qemu-nbd -d` on a device
  that is not connected does nothing.

Bounds. They are constants, and the guard each sits in is the only place it has
effect.

| bound | in | meaning |
|---|---|---|
| `MaxIncarnations` | `UserCreate` | how often a name is created |
| `MaxFaults` | `Fault` | refused calls, failed reads, crashes, restarts of Redis |
| `MaxSweepFaults` | `Mishap` | failed deletions of a periodic sweep, killed sweeps |
| `MaxEdits` | `Edit` | Targets created, edited and deleted, together |
| `Names` | `ProcessCreation` | ScanInstances that exist at a time |
| `MaxFaults` | `Faulty` (containers) | calls without an answer, killed pods, crashes of s3fuse, of one container |
| `MaxRuns`, `Scripts` | `Starts` | runs of the file recovery script in all, and at a time |
| `MaxFaults` | `Fault` (`FileRecovery`) | kinds of faults; those that may happen may happen again and again |

`MaxConcurrentScans` and `NumWorkers` are parameters of the program, not bounds.

## 4. Runs

Twelve runs, each with the properties of its `.cfg`. Every property of a passing run
has been checked to fail for a mutated definition (`mutants` in `PROJECT.json`):
without the finalizer, with a missing return, with an invalid verdict taken for a
valid one, and so on. The type invariants of the poller and of file recovery are
proved (section 6) and not repeated in a run. Ten runs must hold, two refute what the documentation says. Deadlock is not checked where the system may stop: when all
ScanInstances or Targets are settled and no user may do more, nothing need happen.

### ScanInstance controller

| run | instance | shows |
|---|---|---|
| `Stale` | one name, used once, deletable, one fault, every informer may lag; 1.8 million states | `TypeOK`, `NoSkippedScan`, `LocationsKnown`, `ForgetsOnlyUnread`, `ReopensOnlyUnread`: what holds on any read |
| `Fresh` | one name used twice, one fault, each kind of trouble with pods, deletions, late informers of Redis; 2.0 million states | `NoOrphanJob`, `StatusExplained`, `ScannedOnce` |
| `Settle` | one name, failing pods, deletions, late informers of all the controller makes but jobs, the periodic sweep of the janitor with one mishap, fairness; 47 thousand states | `Settles`, `Disappears`, `CleanedUp`, that the controller implements `ScanLifecycle`, and for the sweep `SweepSpares`, `StaysSwept` |
| `Turns` | two names, one slot, an informer of jobs that may lag, fairness; 0.16 million states | `SlotsOverlooked` and, for the one that waits, `Settles` |
| `LostFailure` | one name, one fault | refutes "PreScan failed is terminal" (section 7) |

Why these bounds: the controller keeps nothing in memory between reconciliations,
so one ScanInstance meets another only through slots (`Turns`) and through its own
name used again (`Fresh`). One fault at any of some forty steps already splits every
pair of writes the code hopes to do together; a second one only delays the retry.
A name used once is the rule for ScanInstances the poller creates, their names
carry a UUID; with a name used twice *and* a Job informer that lags, TLC refutes
`LocationsKnown` and `NoSkippedScan`: the cleanup does not see the pre-scan job of the
first incarnation, and the second takes its result for its own. The two halves are
separated because together they exceed what can be explored, and
because the properties of `Fresh` are false on stale reads of ScanInstances or of jobs (section 7). `PodTrouble` names the job it
concerns; of a janitor job only the failure matters (`Settle`), since the controller does not see how it fares. By hand, `Fresh` was explored with every trouble of
both other jobs and of the janitor (3.6 million states); it is cut to what each kind needs, a pre-scan that is blocked and a scan without its image. What the stale reads of `Stale` and `Turns` do break is seen by
leaving the memory out: with `{}` for `unread` or `overlooked` TLC refutes each of the three properties of
`ScanInstanceHistory` in the instance that checks it.
`Settle` has no faults but those of the sweep: `CleanedUp` and the life cycle are false with others (section 7). By hand, the sweep
was explored beside a name used twice with a fault of the controller (0.8 million states): the properties of `Fresh`,
`NoSkippedScan` and `SweepSpares` hold. With an informer of jobs that lags as well, `Disappears` is false, because the cleanup
does not see the pre-scan job it should delete; the others of the run hold, by hand, in that instance too.

### Target controller

| run | instance | shows |
|---|---|---|
| `Shared` | two Targets with one NFS export, five creations, edits or deletions, one fault, failing, blocked and image-less pods; 0.6 million states | `TypeOK`, `AvailableProven`, `VolumeKept` |
| `Changing` | two Targets, one reporting, two exports between which one is edited, three edits, one fault, fairness; 0.3 million states | `TargetsSettle`, `HashesForgotten`, `CronJobSettles` |

Two Targets are enough for every question of sharing, since the code asks only
whether *another* Target has the hash; `Shared` was also explored with three Targets
(four and five edits, 2.2 and 5.4 million states, no violation). With five edits a
Target is created, validated, deleted and created again while the other lives.
`AvailableProven` is checked for Targets whose credentials do not change and who share
a kind: with edits, or a reporting and a backup Target with equal credentials, it is
false (section 7). Under these two conditions it is proved for any number (section 6). `Changing` has no trouble with pods: two Targets that share
credentials that fail validate for ever (section 7). `TargetsSettle` was also checked
for two Targets that may both be edited. `CronJobSettles` needs that no two available Targets for backups have the
same credentials, as in this instance (section 7).

"In the end" is `[]<>` in these properties: users do no more than `MaxEdits` things, so
that what holds again and again after them is not undone by new work.

### Target poller

| run | instance | shows |
|---|---|---|
| `Poll` | two plans, two threads a pool, one fault, all surprises; 0.25 million states | `CleanupFirst` |
| `PollProgress` | one plan with two backups, one of which asks for old backups too, four names, two threads a pool, fairness | `OneScanPerBackup`, `RemovesOnlyStale`, `EveryBackupScanned`, `StaleRemoved` |

Two backups of one plan are the shortest chain on which the walk from the latest to
the oldest can stop early, and two plans the least for queues to mix. Four names
leave room for a duplicate of each. By hand, `RemovesOnlyStale` was also explored with three
backups, and with overlapping backups and a fault (1.4 million states); it is proved
for any number (section 6).

### Containers of the jobs

| run | instance | shows |
|---|---|---|
| `Pods` | 91 setups: backup targets of both types with and without a certificate, files and permissions; two validators of one reporting bucket, plain, versioned, locked, or with a permission missing; uploads; pre-scans of cluster and namespace backups with children that are not placed or not whole; one fault; 0.26 million states | `TypeOK`, `OnlyThroughMount`, `VerdictSound`, `FailureExplained`, `NothingLeft`, `UploadComplete`, `LocationsExact`, and under fairness `EveryPodEnds` |
| `SkippedChildren` | the pre-scans of `Pods` | refutes that all children with virtual machines are listed (section 7) |

Containers of different kinds share nothing but the Target, so that two at a time are needed only for
validators of one bucket; a third adds no new order of two calls on an object. Two children are the least for one to be
passed over and another to be found; two files the least for an upload to fail half way. One fault is enough
for each handler: the mount is tried twice only, and each of the calls around it is retried before it counts.

### File recovery

| run | instance | shows |
|---|---|---|
| `Recover` | two places, two disks, two devices, four recoveries (two of which cannot be made: one backup lacks its key, another has an object without volumes), four runs, any one kind of fault again and again; 0.81 million states | `RecordsTrue`, `OwnFiles`, `ForgottenByFailure`, `NoForeignRelease`, `AllReleased` |

Four runs are a mount and an unmount, twice, or two mounts that find each other's devices and two unmounts.
The instance with three devices and three runs (1.05 million states) and that with five runs (4.1 million) hold too.

## 5. Fairness

* The work queue is first in, first out and the worker never stops: a name in the queue
  is taken again and again however often others are put back. A worker that is busy
  disables `Start`, hence `SF` for `Start(n)`, `WF` for `WorkerStep`.
* Watches deliver: `WF` for each informer.
* Kubernetes finishes what it starts: `WF` for jobs that start and end, Redis that
  becomes ready, and the garbage collector. For Targets this is one condition over all
  hashes, which is the weaker assumption.
* Janitor: the CronJob starts sweeps again and again and a sweep goes on (`WF` for `Sweep`); time passes, so that a ScanInstance
  that sweeps come to again and again is older than the threshold in the end (`SF` for `SweepDeletes` at the `Threshold`).
* Poller: the CronJob starts polls, threads run (`WF` per message), pre-scans end and the
  ScanInstance controller removes what is deleted. `Rest` is fair: between two polls, six
  hours apart by default (`internal/constants.go:225`), pre-scans end and five minutes pass.
* Containers: a script that can go on does (`WF` for `Script(p)`). Nothing is assumed of s3fuse: a mount that never
  comes ends in the timeout of the script. None of retention and of faults.
* `FileRecovery` has no fairness: its properties say what a step may not do.
* No fairness for users, edits, faults, crashes, changes of backups, pods that cannot be
  scheduled or pull their image.

## 6. Proofs

All theorems hold for every value of the constants, with the named assumptions of the
modules (`ConstantsAssumption`, `NoScanAssumption`) and those stated here. TLC agreed with
each formula, and with the inductive invariants, on the instances before they were
proved.

**`ScanInstanceTypes!TypeCorrect`**: `Spec => []TypeOK`. One lemma per action; the type of
`at` is the one that could go wrong, since steps compute labels in nested decisions.

**`ScanInstanceSafety!NeverSkipped`, `LocationsFirst`**: if names are used once
(`MaxIncarnations = 1`), `[]NoSkippedScan` and `[]LocationsKnown`, however the informers lag,
whatever fails. The difficulty is that the decision is made on a copy of unknown age. The
inductive invariant `IInv` says:

* `Records`: the server's record *reflects* every older one, cached or in the worker's
  hand: an existing ScanInstance keeps its identity, and what the older record knows of
  locations, report and the completed pre-scan is still true;
* `Working`: what the step the worker is at relies on. At `preScanCompleted` a pre-scan job
  has succeeded, so that locations are reported on the server, even if not in the copy;
  at `scanPhase` and later the copy itself was returned by the server after that, so its
  locations are final; at `noVMs` they are none;
* `JobsTell`: a pre-scan job that has reported belongs to a ScanInstance whose locations are
  known, one that has not to one whose locations are not; the janitor exists only after
  the report;
* `Leaving`: a pre-scan job that has reported disappears only after the scan, or by a
  cleanup the reconciler does not come back from; otherwise a second job would report
  again, and could contradict the first;
* `UnusedNames`: a name that was never created has left no trace.

The key step is `MarkPreScanCompleted`: the event of the finished job may overtake that of
the container's patch, but the response of the controller's own patch replaces the copy
and carries the locations. `WorkerSafe` treats a step of the worker in general; the lemmas
after it (`PatchStatusSafe`, `PatchConditionSafe`, `CreateSafe`, `MoveSafe`) apply it to the
forms steps have, and one lemma per group of actions instantiates these.

**`ScanInstanceSafety!SlotsKept`**: `HistorySpec => []SlotsOverlooked`, with no hypothesis: all informers may lag, names are used any
number of times, anything fails. `SlotsHeld` says that at most as many unfinished jobs as there are slots are not overlooked, and one less
from the count of the jobs to the creation of one more. At the count, what the list does not show is overlooked from then on, and
what it shows is fewer than the slots; until the one worker creates its job, jobs only finish or disappear (`NoneAdded`). A crash in between gives the slot
up. That overlooked jobs do occur is what TLC finds without the memory: two scans in one slot (section 7).

**`ScanInstanceSafety!NoOrphans`**: `[]NoOrphanJob` if the informers of ScanInstances and of jobs do not lag. `Cared` says that
a pre-scan job has a ScanInstance with its finalizer; that every step that may lead to one is taken for a ScanInstance with
its finalizer, which users can mark but not remove; and that when the finalizer is taken off the job is gone, because
the one worker creates none meanwhile. A deletion that is refused or a crash before the finalizer is removed starts again
at the cleanup.

**`ScanInstanceFresh`** has what fresh reads add. Its hypotheses about caches are `Fresh`, the informer of ScanInstances
does not lag, without which TLC refutes all that follows, and `OneReport`, that moreover either that of jobs does not lag or names
are used once. Without the second TLC refutes, with two faults and two incarnations, `StatusExplained`: a reconciliation that has
not seen the pre-scan job creates a second one where the janitor of the incarnation before has just deleted the first, its cache now
shows the first as succeeded, and what the second reports changes the locations of a scan whose Redis has failed.

* `Flow` is a table: from which step past the finalizer a reconciliation goes to which other, and what it writes into the
  record on the way. `Flows` says that each step of the worker past the finalizer is a line of it. The proofs that follow speak of
  the table, not of the forty actions of the worker.
* `InHand`: past the finalizer the worker's copy agrees with the server in status, conditions and report. Nobody else writes
  them, and a ScanInstance with its finalizer is not taken away, so that a copy that was fresh when it was read stays so.
* `Told`: conditions and status tell one story (`Consistent`: a phase is entered only after the one before it was
  completed, none both completes and fails, a final status has its reason), and each step finds the record as it is `Due`.
* `Placed`: once the pre-scan is completed its job does not report again, and the copy has the server's locations.
* `Seen`: of a name that is used once, a pre-scan job that the cache shows as succeeded is the first and last, however old the cache
  is. That is what lets `Placed` do without a fresh informer of jobs. It takes that a job which succeeded has reported and that none is
  created after a report (`Answered`): `IInv` says so of the controller alone, and `Reports`, below, with sweeps beside it.

**`ConditionsKept`, `StatusKept`**: `HistorySpec => ForgetsOnlyUnread` and `HistorySpec => ReopensOnlyUnread`, with no hypothesis. `Recalled` says
that each condition the server has of the ScanInstance in hand is in the worker's copy or in `unread`, that the same goes for a final status, and that
at the steps that still decide (`Deciding`) a final status of the copy is in `unread` too, because a reconciliation ends at once when it reads one. Only the
controller adds such facts, to the server and in the response to its copy at once, so that the difference between the
two never grows past what it was at the read. The table of `Flow` is not needed, nor true here, since it speaks of copies that agree with the server. `Guarded`, that
what is marked as deleted has its finalizer in every copy, is why a reconciliation that has read a final status can only end or clean up.

**`OneScanEach`**: `Fresh => (Spec => ScannedOnce)`, from `Story`, which is `TypeOK /\ InHand /\ Told`: a scan job is created at a step before
which no scanning phase is entered. **`Explained`**: `[]StatusExplained` under `OneReport`, from `Story /\ Placed`. Both hold for any faults,
crashes, deletions and incarnations.

**`Refinement`**: `Faultless => (Spec => ImplementsLifecycle)`: initial states map to initial states, and each step of the
worker, the cluster or a user to a step of `ScanLifecycle` or none. `Paths` says that the status leaves Queued before
there is a pre-scan job, or one in the cache; `Evident`, which follows from `IInv` and `Placed`, what a scan has to show before it is called Completed
and that a container that is yet to report is the first to do so. `Faultless` is `Fresh` and two bounds; all other informers may lag. TLC refutes the refinement without any of the three. `MaxFaults = 0`: a patch that
is refused after the first condition leaves the status Queued beside a job, and a pre-scan that finds nothing then goes from
Queued to Completed, which the table of the webhook does not list. `MaxIncarnations = 1`: a janitor job works by name, and one that is
late may delete the pre-scan job of a new ScanInstance of the name, whose second container then reports again.

**`PeriodicJanitorSafety!SparesOthers`**: `Fresh => (SweepSpec => SweepSpares)`, for any number of sweeps, faults and incarnations. A
sweep acts on a list it read long ago. `Remembering` says that a name it has listed is still that of the failed
ScanInstance, of none, or of a newer one: a name's incarnation only gets newer (`Renewed`), and Failed is final, which is where `Story`
comes in.

**`HistoryBeside`, `OnceBeside`, `StateBeside`, `LifecycleBeside`**: what was proved of the controller alone holds with sweeps beside it: the
three properties of `ScanInstanceHistory` without a hypothesis, `ScannedOnce` with an informer of ScanInstances that is not behind, `NoOrphanJob` and
`StatusExplained` with one of jobs that is not behind either. The steps of a
sweep leave all but objects alone (`Beside`) and objects only disappear by them (`TakesAway`), which keeps `Recalled`, `SlotsHeld`, `Story`, `Placed`
and `Cared`. The refinement, which is what `Settle` checks, needs more: `IInv` is not preserved, because a sweep removes the
pre-scan job of a failed ScanInstance after it reported. `Reports` takes its place; it says that such a job stays until the ScanInstance is
decided, so that what a sweep takes is never the evidence of a transition still to come. `Seen` and `Reports` need each other and are shown
together. Faults of the sweep itself are not restricted. `StateBeside` is about a fresh informer of jobs (`FreshForJobs`); it needs no
bound on faults or incarnations.

**`TargetPollerSafety!PollerTypes`**: types, and that no pool holds more messages than it has
threads, with the cardinality facts of the library.
**`CleanupBeforeDiscovery`**: `[]CleanupFirst` from `Phases`, which says what each queue may
hold in each phase. No assumption.
**`DeletesOnlyStale`**: `NoSurprise => (Spec => RemovesOnlyStale)`, where `NoSurprise` allows
overlapping backups and any fault but excludes touched backups, unseen files and immediate
retries. The invariant: ScanInstances exist only for backups that have finished
(`OnlyFinished`); when a poll begins, what has a ScanInstance is not among the recent ones
(`RestedSettled`), so the snapshot has it unless it is gone (`CleanupKnows`); and what is queued
for deletion is gone (`QueuedGone`). Each assumption is needed: TLC refutes the property with any
one of the surprises.

**`ScannedOnlyOnce`**: `NoSurprise /\ NoFault => (Spec => []OneScanPerBackup)`. What a worker creates was decided on a map
made in an earlier phase, so the invariant has to carry it along: when a poll begins, every ScanInstance is labelled, and so
listed, or its backup is gone (`Labelled`); the map has every other ScanInstance until its plan has been processed
(`MapServes`); and what is queued or held by a worker is there once, of a plan that is not processed again, and
without a ScanInstance (`Claims`). A fault breaks it: a list that fails is an empty map.

**`TargetControllerSafety!TypeCorrect`**: `Spec => []TypeOK`. It is not a matter of the types
alone. A worker that goes on must hold a Target that is stored, which needs `Held`: once the
finalizer is on it, only the worker takes a Target away; its locals must be set, which needs
`Copied` and the part of `TypeOK` that says a hash is computed before it is used; the verdict it
enters must be one (`Judged`); and a job that runs has the name of a Target.

**`TargetControllerSafety!AvailableValidated`, `VolumesKept`**: if users do not change the
credentials of a Target (`Fixed`) and Targets that share a hash are of one kind (`OneKind`),
`[]AvailableProven` and `[]VolumeKept`, for any number of Targets that share hashes in any way, are
deleted and created again, with any faults and crashes. The difficulty is that what one Target
relies on was made, tested and entered by others. `SInv`, on top of the type invariant `TInv`:

* `Named`: a Target has the credentials it was given and is annotated with no others, so that
  another Target counts it as a user of the right hash;
* `Anchored`: a job tests for the Target of its name, which has the credentials of its hash, and a
  volume was made from those of its hash;
* `Evidence`: a job that has succeeded, a valid entry and the status Available each rest on a
  validation that is `Good` for every Target that may have the credentials: success hands it to the
  entry, the entry to the status, and no cleanup takes it back;
* `Local`: the worker's copy and hash are those of the Target in hand, the outcome Completed was read
  from a job that succeeded, and from the reconciliation of the volume to the annotation the
  volume exists: the Target is not yet counted as a user then, so this needs that nobody
  else releases it meanwhile, which one worker ensures.

Section 7 says how `AvailableProven` fails without `Fixed` and without `OneKind`. `VolumesKept` does
not depend on `OneKind`, but is proved together with the other.

**`JobPodsSafety!TypeCorrect`**: `Spec => []TypeOK`; that there is no third attempt is part of it.

**`JobPodsSafety!MountRequired`, `VerdictIsSound`, `UploadIsComplete`, `LocationsAreExact`**: `[]OnlyThroughMount`,
`[]VerdictSound`, `[]UploadComplete`, `[]LocationsExact`, for any number of containers over any target. `Inv` says of each
container:

* `OwnSteps`: it is only at steps of the script it runs, so that a verdict is that of its own script;
* `Relied`: past the point where it is looked at there was a mount, which may have crashed since but needed permission to
  list the bucket;
* `Tried`: a validator without errors has been granted what the operations before `op` need. Only
  `create_directory` may be refused without an error, and it needs what `put_object` before it needs; that is where
  the order of `Operations` comes in;
* `Counted`: an uploader's files are to be tried, sent or failed, and it has begun only with the right target;
* `Accounted`: of the children of a cluster backup each is still to be looked at, or listed, or without virtual machines, or
  not to be read. That it could not be read stays true (`tree` only shrinks, a crashed mount does not
  come back), and this is what makes it inductive beside retention.

The lemma `OfOthers` reduces a step of one container to that container: what the invariant says of the others does
not mention what the step changes. It has one lemma per script, and one per kind of step that is nobody's.

**`NoFalseAlarm`, `NothingShows`**: `[]FailureExplained` and `[]NothingLeft`, of validators that never ran beside another, although any
number of others came before, were killed half way and left objects, or come later. `Tidy` says of each validator:

* `Undisturbed`: as long as it has met no other in the bucket there is none, so that what it wrote is still on top;
* `Unblamed`: with every permission it has no error yet, and what its next operations read is there: `test` from `put_object` to
  its deletion, `test_copy` from the copy to the deletion of its version;
* `Cleared`: it has one version of `test_copy` at most, which is the current one until it is deleted by its id; of
  the other objects, once they are deleted, a marker is above what it wrote. Later ones put versions and markers on top and uncover
  none: the one deletion of a version is that of a version of `test_copy`, where nothing of it is left.

**`FileRecoverySafety!TypeCorrect`**: `Spec => []TypeOK`. It needs `Typed`: that a run has a recovery, and a device for each
disk it is to mount, follows from the loops before it having been through.

**`RecordsAreTrue`, `OnlyOwnReleased`**: `[]RecordsTrue` and `NoForeignRelease`, for any number of runs, recoveries, disks and
devices. A run may mount while another unmounts; what is excluded (`Calm`) is that two of a kind do, that commands fail, and
that the machine is rebooted or a run that unmounts is killed. No lock protects devices or records, so the invariant
says who relies on what. A device passes from the run that connected it to a record, and from the record to the run that has read
it; at each moment one of them answers for it:

* `Alone`: of each kind there is one run at most;
* `Owned`: the devices of a run that mounts are connected to its disks, and no record that *stands* has them. A record
  stands unless a run that has read it is yet to write it back: until then it may name devices that are released already;
* `Standings`: a record that stands is true, and shares no device with another that does;
* `Dooms`: what a run has read and is yet to release is connected still, nobody else's, and released once; a record
  written since cannot have the device, since nobody finds it unused before it is released;
* `Free`: between `_find_unused` and `qemu-nbd -c`, between the check of an overlay and its connection, what was found
  unused stays so.

`Frame` reduces steps that leave devices and records alone to what they change of one run; the others (`ConnectSafe`, `WriteSafe`,
`ReadSafe`, `ReleaseSafe`, `WriteBackSafe`) each hand a device on.

**`MountsAreOwn`, `NothingStays`, `OnlyFailuresForget`**: `[]OwnFiles`, `AllReleased` and `ForgottenByFailure`, which speak of runs made one
after another (`overlaps = {}`) and each of certain faults; the theorems have no hypothesis. The difficulty is what a run finds of
runs that were killed. `Hand` says what a run has while it is at a step; `ByTurns`, with one run at a time (`OneRun`):

* `Read`: what a run that unmounts has read is what the records are, and it has all that name a device still before it: hence
  none does when it ends, whatever was killed before;
* `Unmounted`: past the loop that unmounts nothing is mounted, unless a command failed;
* `Attached`: the devices a run that mounts has are connected to its disks, which is why what it mounts is that disk;
* `Left`: a device of the record in hand is connected only until its turn, so that a record written back empty loses none.

Only model-checked: the liveness properties (`Settles`, `Disappears`, `CleanedUp`, `StaysSwept`, `EveryBackupScanned`, `StaleRemoved`,
`TargetsSettle`, `HashesForgotten`, `CronJobSettles`, `EveryPodEnds`). They rest on fairness, and so on ENABLED, which the prover
does not handle. Every invariant and every action property of a passing run, and the refinement, is a theorem.

## 7. Where code and documentation part

Two runs refute what documentation or comments say; `findings` in `PROJECT.json` quotes them.

* `LostFailure`: condition PreScan/Failed and status Failed are two patches; if the second is
  refused, the next reconciliation finds the condition and returns, and the ScanInstance
  stays InProgress for ever (`controllers/scaninstance/controller.go:103`).
* `SkippedChildren`: the metadata of a cluster backup has "scan_locations for all children with VMs"
  (`tvk_detector.py:284`); a child whose file cannot be reached is passed over (`tvk_detector.py:361`), also when the mount
  has died after the first files were read, and the pre-scan succeeds.

Further observations, without a run of their own. Each was met while modelling; most can be
reproduced by changing the constants of a run.

ScanInstance controller:

* The limit on concurrent scans ("Limits the number of scan jobs running concurrently",
  `CONCURRENT_SCAN_LIMIT_QUICK_REF.md:4`) counts what the Job informer shows (`controller_helper.go:823`); in the instance
  of `Turns` two scans run in the only slot. `SlotsOverlooked` says exactly by which jobs the limit is exceeded.
* The container of a deleted ScanInstance patches the next one of its name; the webhook of Targets looks at a
  cache for ScanInstances and for other Targets.
* The pending deadline is looked at only when something else reconciles the ScanInstance; a
  job whose pod is never created stays unnoticed.
* On stale reads (`Lagging = {"ScanInstance"}` or `{"Job"}`): conditions are erased by the patch
  of the whole list (those and only those the copy did not have: `ForgetsOnlyUnread`); a terminal status becomes Queued again from a copy read before the first
  status (`ReopensOnlyUnread`); a completed scan whose job the janitor has deleted looks like a lost job and becomes
  Failed; an object that exists but is not in the cache fails the ScanInstance; a cleanup on an
  old Job informer leaves the pre-scan job, which has no owner.
* With a fault between condition and status at the start of the pre-scan the status is never
  InProgress, and a backup with nothing to scan goes from Queued to Completed, which the
  webhook's table excludes.
* A crash between the Completed status and the janitor job loses the cleanup for good:
  terminal ScanInstances are not reconciled.
* A crash between the creation of the scan job and its condition makes the scan wait for the
  slot its own job holds, and take its end for a lost job.
* A janitor that runs late deletes the objects of the next ScanInstance of its name. So does a periodic sweep that comes
  to a name of its list after it was used again (`cmd/janitor/main.go:141`): the new scan loses its Redis or
  its jobs and may fail; it is neither skipped nor run twice.

Target controller:

* Two available backup Targets with the same credentials rewrite the name in their common CronJob for ever
  (`controllers/target/controller_helper.go:847`), though "Safe to reconcile multiple times, no-op if already up to date"
  (`md_docs/TARGET_CRONJOB_RECONCILIATION.md:141`): `CronJobSettles` fails in `Changing` with `Reporting = {}`,
  `Hashes = {a}`, `MaxEdits = 2`, `MaxFaults = 0`.
* After a change of credentials the CronJob of the old hash is never deleted, though
  `md_docs/POLLER_IMPLEMENTATION.md:115` says "Poller cronjobs are automatically deleted when
  target is deleted".
* The validation job is named by the hash but tests the Target it is given by name, with the
  credentials that has when the job runs. If that Target is edited meanwhile, the verdict is
  entered for credentials that were not tested; if it is deleted, the job fails for all
  that share the hash ("Share validation results across targets with same credentials",
  `md_docs/CONTROLLER_README.md:59`).
* A reporting Target with the credentials of a validated backup Target becomes Available
  without a validation as reporting Target.
* An edit between the read and a patch mixes the old hash with the new credentials: a volume
  named by one is made from the other. Edits A to B to A to B with an error in between can
  leave a Target Available with B not validated.
* Two Targets that share credentials which fail can validate for ever: the one that is
  Unavailable enters the verdict of the job the other has just begun, which then begins again
  ("avoid recreation of validation jobs for failed Targets", `controller.go:163-164`).
* The job of a failed validation is deleted in the foreground and created again at once: the
  creation fails, and the retry reads the failed job that is going.
* A Target deleted after a fault, before it is annotated, leaves its job and volume. A job
  whose image is found after all leaves its Target Unavailable.
* Uniqueness of the reporting Target looks only at Available ones, in a cache.
* If the Secret of a Target is deleted first, the webhook refuses the removal of the
  finalizer.

Poller:

* A creation that is refused is not repeated once a later backup of the plan has a ScanInstance (`base_handler.py:358`), though
  "Create ScanInstances for all Available backups without ScanInstances" is expected (`targetPoller/QUICKSTART.md:197`):
  `EveryBackupScanned` fails in `PollProgress` with `MaxFaults = 1`.
* A list of ScanInstances that fails is an empty list, and ScanInstances without labels are
  invisible: each gives every backup of theirs a second ScanInstance.
* A backup touched within five minutes of the poll, a file passed over while walking an NFS store,
  or a retry right after a poll that failed deletes the ScanInstance of a backup that is there.
* Two backups of a plan that overlap leave the older one without a ScanInstance if the younger
  completes after the listing.
* The label set at creation is empty (`k8s/client.py:79` reads `name` outside `metadata`); "latest backup only"
  (`base_handler.py:287`) is not what the walk does; a ScanInstance that never got its labels
  is never cleaned up; the age of a file compares UTC with local time on NFS; the
  number of minutes to ignore is a string when it comes from the environment; the TVO
  handler returns an empty state, for which everything would be stale.

Containers of the jobs:

* "If mount fails, entire job fails (clear error state)" (`SCAN_JOB_MOUNT_AND_SCAN.md:147`): the mount command exits with 0 after
  an `ApiException` (`mount_datastores.py:82`). The scripts of the validator and of the pre-scan look at the mount
  themselves, which is what `OnlyThroughMount` rests on (its mutant leaves that out).
* A Secret with credentials that cannot be read is logged, and empty credentials are written for s3fuse: the job then waits
  two minutes, twice, for a mount that cannot come.
* A backup target whose root has directories only is found valid without a read of any file.
* Two validators of one reporting bucket at a time (two Targets with one bucket and different credentials) may make each
  other fail, and leave objects; without versions `delete_object_version` leaves `test_copy` in the bucket.

File recovery:

* Runs that mount at the same time may be given the same device, and both note it down; the exit code of `qemu-nbd` is not
  looked at.
* A run that is killed or raises after it connected its overlays leaves devices no record names. One that is killed while it
  writes leaves a file that is not JSON, on which every later "unmount" fails.
* After a reboot the records name devices that other overlays may have since.
* No logical volume is ever mounted: `mountvolumes` compares names of disks with names of devices; a volume that `lvs` lists
  later than `lvdisplay` ends the run with a KeyError.

## 8. What is not modelled

* **Creation and update checks of the webhooks**: planned.
* **Janitor**: its dry run, which changes nothing; a sweep of one name only, which the CronJob does not ask for.
* **Target**: deletion of its Secret, schedule and image of the CronJob, partial creation of
  volume and claim, patches of existing volumes.
* **Scripts**: the minio gateway for Azure, mounting by secret or by credentials, the NFS mount by command and
  `qemu_verification`, which no job of this repository uses; `detect` and `detect_vm_workload`, which the pre-scan does not
  call; the detector for TVO, which is not implemented; the annotation of a failed job with its error; the scan itself and the
  search for malware in mounted disks, which are not in the repository.
* **File recovery**: partitions, the encryption of overlays, what is printed.
* **Certificates, flags, metrics, leader election**: the manager is one process; its restart is
  `Crash`.
* **TVO handler of the poller**: a stub in the code.

## 9. Plan

Done in this order, most important first: ScanInstance controller with its cluster, its life
cycle as an abstract specification, proofs of types and of the two properties on stale reads;
the poller with its proofs; the Target controller with its proofs; the containers of the jobs
with their proofs; file recovery with its proofs; the periodic sweep of the janitor with its proofs;
the properties that need fresh reads, and the refinement. Next:

1. *Proofs*: the refinement for names used more than once, with a life cycle that has incarnations; with faults, with a
   life cycle that has the transitions they lead to; `VolumeKept` for Targets whose credentials change.
2. *Admission*: two reporting Targets at once, deletion of a Target in use: a module composing ScanInstances with
   their Target.
3. *Target*: the deletion of Secrets, the schedule and image of the CronJob.
