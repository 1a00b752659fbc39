------------------------ MODULE ScanInstanceController ------------------------
(***************************************************************************)
(* The ScanInstance reconciler (controllers/scaninstance) together with    *)
(* the parts of a Kubernetes cluster it works against: the API server, the *)
(* informer caches all its reads are served from, the Job and Deployment   *)
(* controllers, the garbage collector, the pre-scan container, the janitor *)
(* job and the users who create and delete ScanInstances.                  *)
(*                                                                         *)
(* The manager runs one worker.  A reconciliation is a sequence of steps,  *)
(* one per API write or per cached read, named by the program counter at;  *)
(* between two steps caches catch up, jobs progress, users act, and the    *)
(* process may crash.                                                      *)
(***************************************************************************)
EXTENDS Naturals, Sequences, FiniteSets

CONSTANTS
    ScanInstances,       \* names of ScanInstances
    MaxConcurrentScans,  \* MAX_CONCURRENT_SCANS, 0 for unlimited
    MaxIncarnations,     \* bound: times a name may be created
    MaxFaults,           \* bound: refused API writes and crashes
    Deletions,           \* whether users delete ScanInstances
    Lagging,             \* informers that a step may read before they caught up
    PodTrouble           \* what may go wrong with the pods of which job

ASSUME ConstantsAssumption ==
    /\ ScanInstances # {}
    /\ MaxConcurrentScans \in Nat
    /\ MaxIncarnations \in Nat
    /\ MaxFaults \in Nat
    /\ Deletions \in BOOLEAN
    /\ Lagging \subseteq {"ScanInstance", "Job", "Deployment", "Service", "Config"}
    /\ PodTrouble \subseteq
          {"preScan", "scan", "janitor"} \X {"failed", "blocked", "badImage"}

VARIABLES
    si,        \* the ScanInstances the API server stores
    res,       \* the objects created for each of them, by name and kind
    siCache,   \* the ScanInstance informer
    resCache,  \* the Job, Deployment, Service, ConfigMap and Secret informers
    queue,     \* names the work queue holds, those waiting for a delay included
    at,        \* next step of the worker
    cur,       \* name the worker reconciles
    copy,      \* its scanInstance variable, in step with originalScanInstance
    created,   \* how often each name was created
    faults     \* how many faults occurred

vars == <<si, res, siCache, resCache, queue, at, cur, copy, created, faults>>
server == <<si, res>>
caches == <<siCache, resCache>>
worker == <<at, cur, copy>>
bounds == <<created, faults>>

-----------------------------------------------------------------------------
(* Data. *)

Statuses == {"", "Queued", "InProgress", "Completed", "Failed"}
Terminal == {"Completed", "Failed"}

\* A condition of a ScanInstance is known by its phase and status: the
\* controller asks nothing else of the list (HasCondition).
Conditions ==
    {"PreScan", "RedisDeployment", "Scanning"} \X
        {"InProgress", "Ready", "Completed", "Failed"}

\* incarnation is the identity of the object (its UID), 0 when there is none;
\* locations says whether the pre-scan container reported ScanLocations yet,
\* and whether it found any.
Record == [incarnation : Nat, deleting : BOOLEAN, finalizer : BOOLEAN,
           status : Statuses, conditions : SUBSET Conditions,
           locations : {"unknown", "none", "some"}, report : BOOLEAN]

NoRecord == [incarnation |-> 0, deleting |-> FALSE, finalizer |-> FALSE,
             status |-> "", conditions |-> {}, locations |-> "unknown",
             report |-> FALSE]

Jobs == {"preScan", "scan", "janitor"}
Kinds == Jobs \cup {"redis", "service", "configMap", "secret"}

\* A job is new until the Job controller starts it; active covers every
\* attempt, also those between two retries; blocked is a started job whose pod
\* cannot be created, overdue one that has been so past its deadline; badImage
\* is a pending pod that cannot pull its image; reported is a pre-scan pod that
\* has patched its ScanInstance.
JobStates == {"new", "blocked", "overdue", "active", "badImage", "reported",
              "succeeded", "failed"}
Object == [state : JobStates \cup {"absent", "starting", "ready", "exists"},
           owner : Nat]
NoObject == [state |-> "absent", owner |-> 0]

\* Objects with an owner reference to their ScanInstance; the pre-scan job has
\* none.
Owned == Kinds \ {"preScan"}

\* The informers of what is created for ScanInstances, the kinds each carries,
\* and those whose events wake the controller.
Informers == {"Job", "Deployment", "Service", "Config"}
KindsOf(informer) ==
    CASE informer = "Job" -> Jobs
      [] informer = "Deployment" -> {"redis"}
      [] informer = "Service" -> {"service"}
      [] informer = "Config" -> {"configMap", "secret"}
Watched == {"Job", "Deployment"}

\* What the update predicate compares: the counters of a job's status, not its
\* start time nor its pods, and the readiness of a deployment.
Visible(state) ==
    CASE state \in {"blocked", "overdue"} -> "new"
      [] state \in {"badImage", "reported"} -> "active"
      [] OTHER -> state

Labels == {"idle", "addFinalizer", "cleanup", "removeFinalizer",
           "queued", "preScan", "preScanStarted", "preScanInProgress",
           "createPreScanJob", "preScanRejected", "preScanCompleted",
           "preScanFailed", "preScanRunning", "preScanOverdue", "scanPhase",
           "noVMs", "redisGaveUp", "redisStarted", "redis", "redisExists",
           "service", "serviceReady", "serviceExists", "serviceReadyExists",
           "redisReady", "redisFailed", "configMap", "secret", "scanJob",
           "scanRejected", "scanStarted", "scanRunning", "scanOverdue",
           "scanFailed", "report", "completedLocked",
           "completed", "scanCompleted", "janitor", "failed", "failedRetry"}

TypeOK ==
    /\ si \in [ScanInstances -> Record]
    /\ res \in [ScanInstances -> [Kinds -> Object]]
    /\ siCache \in [ScanInstances -> Record]
    /\ resCache \in [ScanInstances -> [Kinds -> Object]]
    /\ queue \subseteq ScanInstances
    /\ at \in Labels
    /\ cur \in ScanInstances
    /\ copy \in Record
    /\ created \in [ScanInstances -> 0..MaxIncarnations]
    /\ faults \in 0..MaxFaults

Init ==
    /\ si = [n \in ScanInstances |-> NoRecord]
    /\ res = [n \in ScanInstances |-> [k \in Kinds |-> NoObject]]
    /\ siCache = si
    /\ resCache = res
    /\ queue = {}
    /\ at = "idle"
    /\ cur \in ScanInstances
    /\ copy = NoRecord
    /\ created = [n \in ScanInstances |-> 0]
    /\ faults = 0

-----------------------------------------------------------------------------
(* What the worker's steps are made of. *)

Has(c, phase, status) == <<phase, status>> \in c.conditions

CaughtUp(informer) ==
    \A n \in ScanInstances, k \in KindsOf(informer) : resCache[n][k] = res[n][k]

\* A step waits for the caches that do not lag.
At(label) ==
    /\ at = label
    /\ "ScanInstance" \notin Lagging => siCache = si
    /\ \A i \in Informers \ Lagging : CaughtUp(i)

Fault == faults < MaxFaults /\ faults' = faults + 1

\* (Mutation: an error is not told from a next step.)
GotoUnchecked(label, c) ==
    /\ at' = label
    /\ queue' = queue
    /\ copy' = c
    /\ UNCHANGED cur

\* A reconciliation that returns an error, or asks to be requeued now or after
\* a delay, puts its name back into the queue; one that returns gives up c.
Goto(label, c) ==
    /\ at' = IF label = "retry" THEN "idle" ELSE label
    /\ queue' = IF label = "retry" THEN queue \cup {cur} ELSE queue
    /\ copy' = IF label \in {"idle", "retry"} THEN NoRecord ELSE c
    /\ UNCHANGED cur

Move(label) == Goto(label, copy) /\ UNCHANGED <<server, caches, bounds>>

\* (Mutation: the response of a write is not read back.)
AcceptedUnread(record, label) ==
    /\ si[cur].incarnation # 0
    /\ si' = [si EXCEPT ![cur] = record]
    /\ Goto(label, [record EXCEPT !.locations = copy.locations])
    /\ UNCHANGED <<res, caches, bounds>>

\* An accepted write: the response replaces the local copy.
Accepted(record, label) ==
    /\ si[cur].incarnation # 0
    /\ si' = [si EXCEPT ![cur] = record]
    /\ Goto(label, record)
    /\ UNCHANGED <<res, caches, bounds>>

\* A refused write, of an object that is gone or because the call failed.
Refused ==
    /\ \/ si[cur].incarnation = 0 /\ UNCHANGED faults
       \/ si[cur].incarnation # 0 /\ Fault
    /\ Goto("retry", copy)
    /\ UNCHANGED <<server, caches, created>>

\* A merge patch carries what differs between the local copy and the original
\* it was read as: never a status the copy had already.
PatchStatus(status, label) ==
    \/ Accepted(IF copy.status = status THEN si[cur]
                ELSE [si[cur] EXCEPT !.status = status], label)
    \/ Refused

\* (Mutation: the list starts anew.)
PatchOnlyCondition(phase, status, label) ==
    \/ Accepted([si[cur] EXCEPT !.conditions = {<<phase, status>>}], label)
    \/ Refused

\* A condition the copy has is not added again; the patch of a list is the whole
\* list, so what the copy did not know of is overwritten.
PatchCondition(phase, status, label) ==
    IF Has(copy, phase, status)
    THEN Move(label)
    ELSE \/ Accepted([si[cur] EXCEPT !.conditions =
                         copy.conditions \cup {<<phase, status>>}], label)
         \/ Refused

\* A write that names the version it was computed from conflicts with any other.
AtVersion(base, write) == IF base = si[cur] THEN write ELSE Move("retry")

\* The creation of an object that may be there, or may be refused.
Create(kind, state, accepted, exists, rejected) ==
    \/ /\ res[cur][kind] = NoObject
       /\ res' = [res EXCEPT ![cur][kind] =
                     [state |-> state,
                      owner |-> IF kind \in Owned THEN copy.incarnation ELSE 0]]
       /\ Goto(accepted, copy)
       /\ UNCHANGED <<si, caches, bounds>>
    \/ res[cur][kind] # NoObject /\ Move(exists)
    \/ /\ Fault
       /\ Goto(rejected, copy)
       /\ UNCHANGED <<server, caches, created>>

Cached(kind) == resCache[cur][kind].state

JobStatus(state) ==
    CASE state = "succeeded" -> "Completed"
      [] state = "failed" -> "Failed"
      [] OTHER -> "InProgress"

\* The same with the job's pending pods looked at.
JobStatusWithPodCheck(state) ==
    IF state = "badImage" THEN "Failed" ELSE JobStatus(state)

DeadlineExceeded(state) == state = "overdue"

-----------------------------------------------------------------------------
(* Reconcile: finalizer, status and pre-scan. *)

Route(c) ==
    CASE Has(c, "PreScan", "Completed") -> "scanPhase"
      [] ~Has(c, "PreScan", "Completed") /\ Has(c, "PreScan", "Failed") -> "idle"
      [] OTHER -> "preScan"

AfterFinalizer(c) == IF c.status = "" THEN "queued" ELSE Route(c)

FirstStep(c) ==
    CASE c.incarnation = 0 -> "idle"
      [] c.incarnation # 0 /\ c.deleting ->
            IF c.finalizer THEN "cleanup" ELSE AfterFinalizer(c)
      [] OTHER ->
            IF c.status \in Terminal THEN "idle"
            ELSE IF c.finalizer THEN AfterFinalizer(c) ELSE "addFinalizer"

Start(n) ==
    /\ At("idle")
    /\ n \in queue
    /\ queue' = queue \ {n}
    /\ cur' = n
    /\ at' = FirstStep(siCache[n])
    /\ copy' = IF at' = "idle" THEN NoRecord ELSE siCache[n]
    /\ UNCHANGED <<server, caches, bounds>>

\* The finalizer is added to a record read again from the cache.
AddFinalizer ==
    /\ At("addFinalizer")
    /\ AtVersion(siCache[cur],
          LET record == [si[cur] EXCEPT !.finalizer = TRUE]
          IN Accepted(record, AfterFinalizer(record)) \/ Refused)

\* (Mutation: the pre-scan job is left to the garbage collector.)
CleanupOwned == <<"scan", "configMap", "secret", "redis", "service">>

CleanupOrder ==
    <<"preScan", "scan", "configMap", "secret", "redis", "service">>

Deleted(n, kinds) ==
    [res EXCEPT ![n] = [k \in Kinds |-> IF k \in kinds THEN NoObject ELSE res[n][k]]]

\* Deletes, in this order, what the caches show, and stops at the first refusal.
Cleanup ==
    /\ At("cleanup")
    /\ \E last \in 0..Len(CleanupOrder) :
          /\ res' = Deleted(cur, {k \in {CleanupOrder[i] : i \in 1..last} :
                                     Cached(k) # "absent"})
          /\ IF last = Len(CleanupOrder)
             THEN Goto("removeFinalizer", copy) /\ UNCHANGED bounds
             ELSE /\ Cached(CleanupOrder[last + 1]) # "absent"
                  /\ Fault
                  /\ Goto("retry", copy)
                  /\ UNCHANGED created
    /\ UNCHANGED <<si, caches>>

\* Without its finalizer a ScanInstance that is being deleted is gone.
RemoveFinalizer ==
    /\ At("removeFinalizer")
    /\ IF siCache[cur].incarnation = 0
       THEN Move("idle")
       ELSE AtVersion(siCache[cur],
               \/ Accepted(IF si[cur].deleting THEN NoRecord
                           ELSE [si[cur] EXCEPT !.finalizer = FALSE], "idle")
               \/ Refused)

MarkQueued ==
    /\ At("queued")
    /\ LET record == [si[cur] EXCEPT !.status = "Queued"]
       IN Accepted(record, Route(record)) \/ Refused

ReadPreScanJob ==
    /\ At("preScan")
    /\ LET job == Cached("preScan")
       IN Move(CASE job = "absent" ->
                       IF Has(copy, "PreScan", "InProgress")
                       THEN "createPreScanJob" ELSE "preScanStarted"
                 [] JobStatusWithPodCheck(job) = "Completed" -> "preScanCompleted"
                 [] JobStatusWithPodCheck(job) = "Failed" -> "preScanFailed"
                 [] DeadlineExceeded(job) -> "preScanOverdue"
                 [] OTHER -> "preScanRunning")

\* (Mutation: the status is left to a later reconciliation.)
MarkPreScanStartedOnly ==
    /\ At("preScanStarted")
    /\ PatchCondition("PreScan", "InProgress", "createPreScanJob")

MarkPreScanStarted ==
    /\ At("preScanStarted")
    /\ PatchCondition("PreScan", "InProgress", "preScanInProgress")

MarkPreScanInProgress ==
    /\ At("preScanInProgress")
    /\ PatchStatus("InProgress", "createPreScanJob")

\* A job that exists already is an error here, unlike for every other object.
CreatePreScanJob ==
    /\ At("createPreScanJob")
    /\ Create("preScan", "new", "idle", "preScanRejected", "preScanRejected")

MarkPreScanRejected ==
    /\ At("preScanRejected")
    /\ PatchCondition("PreScan", "Failed", "failedRetry")

MarkPreScanCompleted ==
    /\ At("preScanCompleted")
    /\ PatchCondition("PreScan", "Completed", "scanPhase")

MarkPreScanFailed ==
    /\ At("preScanFailed")
    /\ IF Has(copy, "PreScan", "Failed")
       THEN Move("idle")
       ELSE PatchCondition("PreScan", "Failed", "failed")

MarkPreScanRunning ==
    /\ at \in {"preScanRunning", "preScanOverdue"}
    /\ At(at)
    /\ LET next == IF at = "preScanOverdue" THEN "preScanFailed" ELSE "idle"
       IN IF copy.status = "InProgress"
          THEN Move(next)
          ELSE PatchStatus("InProgress", next)

\* The last write of every failing path, and whether the path ends in an error.
MarkFailed ==
    /\ at \in {"failed", "failedRetry"}
    /\ At(at)
    /\ PatchStatus("Failed", IF at = "failed" THEN "idle" ELSE "retry")

-----------------------------------------------------------------------------
(* Reconcile: the scan phase. *)

\* (Mutation: only jobs with running pods count.)
RunningScanJobs ==
    {n \in ScanInstances : resCache[n]["scan"].state = "active"}

ActiveScanJobs ==
    {n \in ScanInstances : /\ resCache[n]["scan"].state # "absent"
                           /\ JobStatus(resCache[n]["scan"].state) = "InProgress"}

CanStartNewScan ==
    MaxConcurrentScans = 0 \/ Cardinality(ActiveScanJobs) < MaxConcurrentScans

RedisRoute(c) ==
    CASE Has(c, "RedisDeployment", "Failed") ->
            IF c.status = "Failed" THEN "idle" ELSE "redisGaveUp"
      [] ~Has(c, "RedisDeployment", "Failed")
         /\ Has(c, "RedisDeployment", "InProgress") -> "redis"
      [] OTHER -> "redisStarted"

\* (Mutation: a scan without a slot is not requeued.)
BeforeScanForgetful(c) ==
    IF c.locations # "some" THEN "noVMs"
    ELSE IF ~Has(c, "RedisDeployment", "Ready") THEN RedisRoute(c)
    ELSE IF CanStartNewScan THEN "configMap" ELSE "idle"

\* A scan without a slot is requeued, a minute later.
BeforeScan(c) ==
    IF c.locations # "some" THEN "noVMs"
    ELSE IF ~Has(c, "RedisDeployment", "Ready") THEN RedisRoute(c)
    ELSE IF CanStartNewScan THEN "configMap" ELSE "retry"

\* (Mutation: a job that is missing is created again.)
ScanJobRouteHealing(c, job) ==
    CASE job = "absent" -> "configMap"
      [] JobStatusWithPodCheck(job) = "Completed" ->
            IF c.report THEN "completed" ELSE "report"
      [] JobStatusWithPodCheck(job) = "Failed" -> "scanFailed"
      [] DeadlineExceeded(job) -> "scanOverdue"
      [] OTHER -> "scanRunning"

ScanJobRoute(c, job) ==
    CASE job = "absent" -> "scanFailed"
      [] JobStatusWithPodCheck(job) = "Completed" ->
            IF c.report THEN "completed" ELSE "report"
      [] JobStatusWithPodCheck(job) = "Failed" -> "scanFailed"
      [] DeadlineExceeded(job) -> "scanOverdue"
      [] OTHER -> "scanRunning"

ReconcileScanPhase ==
    /\ At("scanPhase")
    /\ Move(IF \E s \in Terminal : Has(copy, "Scanning", s) THEN "idle"
            ELSE IF Has(copy, "Scanning", "InProgress")
                 THEN ScanJobRoute(copy, Cached("scan"))
                 ELSE BeforeScan(copy))

\* (Mutation: the missing return.)
MarkNoVMsAndGoOn == At("noVMs") /\ PatchStatus("Completed", "redisStarted")

MarkNoVMs == At("noVMs") /\ PatchStatus("Completed", "idle")

MarkRedisGaveUp == At("redisGaveUp") /\ PatchStatus("Failed", "idle")

MarkRedisStarted ==
    /\ At("redisStarted")
    /\ PatchCondition("RedisDeployment", "InProgress", "redis")

RedisFound == IF Cached("redis") = "ready" THEN "serviceReady" ELSE "service"

\* A deployment just created has no ready replica.
CreateRedisDeployment ==
    /\ At("redis")
    /\ IF Cached("redis") # "absent"
       THEN Move(RedisFound)
       ELSE Create("redis", "starting", "service", "redisExists", "redisFailed")

\* What exists already is read again, from the cache.
RefetchRedisDeployment ==
    /\ At("redisExists")
    /\ Move(IF Cached("redis") # "absent" THEN RedisFound ELSE "redisFailed")

ServiceFound(label) ==
    IF label \in {"serviceReady", "serviceReadyExists"} THEN "redisReady" ELSE "idle"

CreateRedisService ==
    /\ at \in {"service", "serviceReady"}
    /\ At(at)
    /\ IF Cached("service") # "absent"
       THEN Move(ServiceFound(at))
       ELSE Create("service", "exists", ServiceFound(at),
                   IF at = "service" THEN "serviceExists" ELSE "serviceReadyExists",
                   "redisFailed")

RefetchRedisService ==
    /\ at \in {"serviceExists", "serviceReadyExists"}
    /\ At(at)
    /\ Move(IF Cached("service") # "absent" THEN ServiceFound(at)
                                            ELSE "redisFailed")

\* (Mutation: no requeue.)
MarkRedisReadyAndWait ==
    At("redisReady") /\ PatchCondition("RedisDeployment", "Ready", "idle")

\* The deployment is ready and will not wake the controller again: requeue.
MarkRedisReady ==
    /\ At("redisReady")
    /\ IF Has(copy, "RedisDeployment", "Ready")
       THEN Move("idle")
       ELSE PatchCondition("RedisDeployment", "Ready", "retry")

MarkRedisFailed ==
    /\ At("redisFailed")
    /\ PatchCondition("RedisDeployment", "Failed", "failedRetry")

CreateScanConfigMap ==
    /\ At("configMap")
    /\ Create("configMap", "exists", "secret", "secret", "scanRejected")

CreateScanSecret ==
    /\ At("secret")
    /\ Create("secret", "exists", "scanJob", "scanJob", "scanRejected")

CreateScanJob ==
    /\ At("scanJob")
    /\ IF Cached("scan") # "absent"
       THEN Move("scanStarted")
       ELSE Create("scan", "new", "scanStarted", "scanRejected", "scanRejected")

MarkScanRejected ==
    /\ At("scanRejected")
    /\ PatchCondition("Scanning", "Failed", "failedRetry")

MarkScanStarted ==
    /\ At("scanStarted")
    /\ PatchCondition("Scanning", "InProgress", "idle")

MarkScanRunning ==
    /\ at \in {"scanRunning", "scanOverdue"}
    /\ At(at)
    /\ LET next == IF at = "scanOverdue" THEN "scanFailed" ELSE "idle"
       IN IF copy.status = "InProgress"
          THEN Move(next)
          ELSE PatchStatus("InProgress", next)

\* (Mutation: the status without its condition.)
MarkScanFailedOnly == At("scanFailed") /\ PatchStatus("Failed", "idle")

MarkScanFailed ==
    /\ At("scanFailed")
    /\ IF Has(copy, "Scanning", "Failed")
       THEN Move("idle")
       ELSE PatchCondition("Scanning", "Failed", "failed")

\* The report path is an update of the whole status.  The original is not
\* refreshed after it, so that the patch that follows names a version too.
UpdateReport ==
    /\ At("report")
    /\ AtVersion(copy, \/ Accepted([si[cur] EXCEPT !.report = TRUE],
                                   "completedLocked")
                       \/ Refused)

MarkCompleted ==
    \/ At("completed") /\ PatchStatus("Completed", "scanCompleted")
    \/ /\ At("completedLocked")
       /\ AtVersion(copy, PatchStatus("Completed", "scanCompleted"))

\* (Mutation: no janitor.)
MarkScanCompletedOnly ==
    At("scanCompleted") /\ PatchCondition("Scanning", "Completed", "idle")

MarkScanCompleted ==
    /\ At("scanCompleted")
    /\ PatchCondition("Scanning", "Completed", "janitor")

\* A janitor job that cannot be created is logged and never retried.
CreateJanitorJob ==
    /\ At("janitor")
    /\ IF Cached("janitor") # "absent"
       THEN Move("idle")
       ELSE Create("janitor", "new", "idle", "idle", "idle")

WorkerStep ==
    \/ AddFinalizer \/ Cleanup \/ RemoveFinalizer \/ MarkQueued
    \/ ReadPreScanJob \/ MarkPreScanStarted \/ MarkPreScanInProgress
    \/ CreatePreScanJob \/ MarkPreScanRejected \/ MarkPreScanCompleted
    \/ MarkPreScanFailed \/ MarkPreScanRunning \/ MarkFailed
    \/ ReconcileScanPhase \/ MarkNoVMs \/ MarkRedisGaveUp \/ MarkRedisStarted
    \/ CreateRedisDeployment \/ RefetchRedisDeployment
    \/ CreateRedisService \/ RefetchRedisService
    \/ MarkRedisReady \/ MarkRedisFailed
    \/ CreateScanConfigMap \/ CreateScanSecret \/ CreateScanJob
    \/ MarkScanRejected \/ MarkScanStarted \/ MarkScanRunning \/ MarkScanFailed
    \/ UpdateReport \/ MarkCompleted \/ MarkScanCompleted \/ CreateJanitorJob

-----------------------------------------------------------------------------
(* The manager: informers and restarts. *)

DeliverScanInstances ==
    /\ siCache # si
    /\ siCache' = si
    /\ queue' = queue \cup
          {n \in ScanInstances :
              \/ siCache[n].incarnation # si[n].incarnation
              \/ siCache[n].deleting # si[n].deleting}
    /\ UNCHANGED <<server, resCache, worker, bounds>>

Noticed(old, new) ==
    old.owner # new.owner \/ Visible(old.state) # Visible(new.state)

Deliver(informer) ==
    /\ ~CaughtUp(informer)
    /\ resCache' = [n \in ScanInstances |-> [k \in Kinds |->
                       IF k \in KindsOf(informer) THEN res[n][k]
                                                  ELSE resCache[n][k]]]
    /\ queue' = queue \cup
          {n \in ScanInstances :
              /\ informer \in Watched
              /\ \E k \in KindsOf(informer) : Noticed(resCache[n][k], res[n][k])}
    /\ UNCHANGED <<server, siCache, worker, bounds>>

\* A new process lists everything and starts with a create event for each
\* ScanInstance and each watched object.
Crash ==
    /\ Fault
    /\ at' = "idle"
    /\ copy' = NoRecord
    /\ siCache' = si
    /\ resCache' = res
    /\ queue' = {n \in ScanInstances :
                    \/ si[n].incarnation # 0
                    \/ \E k \in Jobs \cup {"redis"} : res[n][k] # NoObject}
    /\ UNCHANGED <<server, cur, created>>

-----------------------------------------------------------------------------
(* The cluster around the manager. *)

Outside == UNCHANGED <<caches, queue, worker, faults>>

UserCreate(n) ==
    /\ si[n].incarnation = 0
    /\ created[n] < MaxIncarnations
    /\ created' = [created EXCEPT ![n] = @ + 1]
    /\ si' = [si EXCEPT ![n] = [NoRecord EXCEPT !.incarnation = created[n] + 1]]
    /\ UNCHANGED res
    /\ Outside

UserDelete(n) ==
    /\ Deletions
    /\ si[n].incarnation # 0
    /\ ~si[n].deleting
    /\ si' = [si EXCEPT ![n] = IF @.finalizer THEN [@ EXCEPT !.deleting = TRUE]
                                              ELSE NoRecord]
    /\ UNCHANGED <<res, created>>
    /\ Outside

Becomes(n, kind, from, to) ==
    /\ res[n][kind].state \in from
    /\ res' = [res EXCEPT ![n][kind].state = to]
    /\ UNCHANGED <<si, created>>
    /\ Outside

JobStarts(n, k) == Becomes(n, k, {"new"}, "active")

JobBlocked(n, k) ==
    /\ <<k, "blocked">> \in PodTrouble
    /\ \/ Becomes(n, k, {"new"}, "blocked")
       \/ Becomes(n, k, {"blocked"}, "overdue")

JobUnblocked(n, k) == Becomes(n, k, {"blocked", "overdue"}, "active")

ImageMissing(n, k) ==
    <<k, "badImage">> \in PodTrouble /\ Becomes(n, k, {"active"}, "badImage")

ImageFound(n, k) == Becomes(n, k, {"badImage"}, "active")

\* A job that has used up its retries.
JobFails(n, k) ==
    <<k, "failed">> \in PodTrouble /\ Becomes(n, k, {"active", "reported"}, "failed")

\* The pre-scan container patches the ScanInstance of its name, whichever
\* incarnation that is, and fails when there is none.
PreScanReports(n) ==
    /\ res[n]["preScan"].state = "active"
    /\ IF si[n].incarnation = 0
       THEN /\ res' = [res EXCEPT ![n]["preScan"].state = "failed"]
            /\ UNCHANGED si
       ELSE /\ res' = [res EXCEPT ![n]["preScan"].state = "reported"]
            /\ \E l \in {"none", "some"} :
                  si' = [si EXCEPT ![n].locations = l]
    /\ UNCHANGED created
    /\ Outside

\* (Mutation: the container exits with success though its patch failed.)
JobSucceedsUnreported(n) ==
    \/ Becomes(n, "preScan", {"active", "reported"}, "succeeded")
    \/ Becomes(n, "scan", {"active"}, "succeeded")

JobSucceeds(n) ==
    \/ Becomes(n, "preScan", {"reported"}, "succeeded")
    \/ Becomes(n, "scan", {"active"}, "succeeded")

JanitorDeletes == {"preScan", "scan", "configMap", "redis", "service"}

JanitorDone(n, kinds) ==
    res' = [Deleted(n, kinds) EXCEPT ![n]["janitor"].state = "succeeded"]

\* The janitor deletes by name whatever it finds, if there is a ScanInstance of
\* its name; a deletion that fails is logged and passed over.
JanitorRuns(n) ==
    /\ res[n]["janitor"].state = "active"
    /\ \/ si[n].incarnation = 0 /\ JanitorDone(n, {}) /\ UNCHANGED faults
       \/ si[n].incarnation # 0 /\ JanitorDone(n, JanitorDeletes) /\ UNCHANGED faults
       \/ /\ si[n].incarnation # 0
          /\ \E k \in JanitorDeletes : JanitorDone(n, JanitorDeletes \ {k})
          /\ Fault
    /\ UNCHANGED <<si, caches, queue, worker, created>>

\* Its time to live after it finished, 300 seconds, is over.
JanitorExpires(n) ==
    /\ res[n]["janitor"].state \in {"succeeded", "failed"}
    /\ res' = [res EXCEPT ![n]["janitor"] = NoObject]
    /\ UNCHANGED <<si, created>>
    /\ Outside

RedisStarts(n) == Becomes(n, "redis", {"starting"}, "ready")

RedisRestarts(n) ==
    /\ res[n]["redis"].state = "ready"
    /\ Fault
    /\ res' = [res EXCEPT ![n]["redis"].state = "starting"]
    /\ UNCHANGED <<si, caches, queue, worker, created>>

\* The garbage collector deletes what belongs to an object that is gone.
GarbageCollect(n, k) ==
    /\ k \in Owned
    /\ res[n][k] # NoObject
    /\ res[n][k].owner # si[n].incarnation
    /\ res' = [res EXCEPT ![n][k] = NoObject]
    /\ UNCHANGED <<si, created>>
    /\ Outside

Cluster(n) ==
    \/ UserCreate(n) \/ UserDelete(n)
    \/ \E k \in Jobs :
          \/ JobStarts(n, k) \/ JobBlocked(n, k) \/ JobUnblocked(n, k)
          \/ ImageMissing(n, k) \/ ImageFound(n, k) \/ JobFails(n, k)
    \/ PreScanReports(n) \/ JobSucceeds(n)
    \/ JanitorRuns(n) \/ JanitorExpires(n)
    \/ RedisStarts(n) \/ RedisRestarts(n)
    \/ \E k \in Kinds : GarbageCollect(n, k)

Next ==
    \/ \E n \in ScanInstances : Start(n)
    \/ WorkerStep
    \/ DeliverScanInstances
    \/ \E i \in Informers : Deliver(i)
    \/ Crash
    \/ \E n \in ScanInstances : Cluster(n)

Spec == Init /\ [][Next]_vars

\* The queue is first in, first out, so that every name gets its turn; what the
\* kubelet and the controllers of Kubernetes start they also finish.  Users,
\* faults, and pods that cannot be created or pulled are under no obligation.
Progress(n) ==
    \/ \E k \in Jobs : JobStarts(n, k)
    \/ PreScanReports(n) \/ JobSucceeds(n) \/ JanitorRuns(n) \/ RedisStarts(n)
    \/ \E k \in Kinds : GarbageCollect(n, k)

Fairness ==
    /\ \A n \in ScanInstances : SF_vars(Start(n)) /\ WF_vars(Progress(n))
    /\ WF_vars(WorkerStep)
    /\ WF_vars(DeliverScanInstances)
    /\ \A i \in Informers : WF_vars(Deliver(i))

FairSpec == Spec /\ Fairness

=============================================================================
