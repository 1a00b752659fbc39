--------------------------- MODULE ScanInstanceFresh ---------------------------
(***************************************************************************)
(* What the ScanInstance controller guarantees of the history that status  *)
(* and conditions tell together.  When the informer of ScanInstances does  *)
(* not lag: all of it, through any faults, deletions and incarnations, and *)
(* without faults and second incarnations the life cycle of ScanLifecycle. *)
(* When informers lag: that nothing is lost but what a reconciliation did  *)
(* not read.                                                               *)
(***************************************************************************)
EXTENDS ScanInstanceSafety

Fresh == "ScanInstance" \notin Lagging

-----------------------------------------------------------------------------
(* The way of a reconciliation past the finalizer.                         *)

Sets(r, status) == [r EXCEPT !.status = status]

Adds(r, phase, status) ==
    [r EXCEPT !.conditions = r.conditions \cup {<<phase, status>>}]

RedisSteps == {"redis", "redisExists", "service", "serviceReady", "serviceExists",
               "serviceReadyExists", "redisReady", "redisFailed"}

\* From the step from, with r the record and job the state of the pre-scan job, a
\* reconciliation goes on to the step to and leaves the record s.
PreScanFlow(from, r, job, to, s) ==
    \/ /\ from = "queued" /\ s = Sets(r, "Queued") /\ to = Route(s)
    \/ /\ from = "preScan" /\ s = r
       /\ \/ to = "preScanStarted" /\ job = "absent"
          \/ /\ to = "createPreScanJob" /\ job = "absent"
             /\ Has(r, "PreScan", "InProgress")
          \/ to = "preScanCompleted" /\ job = "succeeded"
          \/ /\ to \in {"preScanFailed", "preScanOverdue", "preScanRunning"}
             /\ job # "absent"
    \/ /\ from = "preScanStarted" /\ s = Adds(r, "PreScan", "InProgress")
       /\ to = "preScanInProgress"
    \/ /\ from = "preScanInProgress" /\ s = Sets(r, "InProgress")
       /\ to = "createPreScanJob"
    \/ from = "createPreScanJob" /\ s = r /\ to = "preScanRejected"
    \/ /\ from = "preScanRejected" /\ s = Adds(r, "PreScan", "Failed")
       /\ to = "failedRetry"
    \/ /\ from = "preScanCompleted" /\ s = Adds(r, "PreScan", "Completed")
       /\ to = "scanPhase"
    \/ /\ from = "preScanFailed" /\ s = Adds(r, "PreScan", "Failed")
       /\ to = "failed"
    \/ /\ from = "preScanOverdue" /\ s = Sets(r, "InProgress")
       /\ to = "preScanFailed"

\* The same in the scan phase, with locations in hand.
ScanFlow(from, r, locations, to, s) ==
    \/ /\ from = "scanPhase" /\ s = r
       /\ \A t \in Terminal : ~Has(r, "Scanning", t)
       /\ \/ /\ Has(r, "Scanning", "InProgress")
             /\ to \in {"scanFailed", "scanOverdue", "scanRunning", "report",
                        "completed"}
          \/ /\ ~Has(r, "Scanning", "InProgress")
             /\ \/ to = "noVMs" /\ locations # "some"
                \/ /\ to = "redisGaveUp" /\ locations = "some"
                   /\ Has(r, "RedisDeployment", "Failed")
                \/ /\ to \in {"redis", "redisStarted"} /\ locations = "some"
                   /\ \A t \in {"Ready", "Failed"} : ~Has(r, "RedisDeployment", t)
                \/ /\ to = "configMap" /\ locations = "some"
                   /\ Has(r, "RedisDeployment", "Ready")
    \/ /\ from = "redisStarted" /\ s = Adds(r, "RedisDeployment", "InProgress")
       /\ to = "redis"
    \/ from \in RedisSteps /\ s = r /\ to \in RedisSteps
    \/ /\ from = "redisReady" /\ s = Adds(r, "RedisDeployment", "Ready")
       /\ to = "retry"
    \/ /\ from = "redisFailed" /\ s = Adds(r, "RedisDeployment", "Failed")
       /\ to = "failedRetry"
    \/ /\ from \in Claiming /\ s = r
       /\ to \in Claiming \cup {"scanRejected", "scanStarted"}
    \/ /\ from = "scanRejected" /\ s = Adds(r, "Scanning", "Failed")
       /\ to = "failedRetry"
    \/ from = "scanStarted" /\ s = Adds(r, "Scanning", "InProgress") /\ to = "idle"
    \/ from = "scanOverdue" /\ s = Sets(r, "InProgress") /\ to = "scanFailed"
    \/ from = "scanFailed" /\ s = Adds(r, "Scanning", "Failed") /\ to = "failed"
    \/ /\ from = "report" /\ s = [r EXCEPT !.report = TRUE]
       /\ to = "completedLocked"
    \/ /\ from = "scanCompleted" /\ s = Adds(r, "Scanning", "Completed")
       /\ to = "janitor"

\* The changes of the status that end a reconciliation or all of them.
StatusFlow(from, r, to, s) ==
    \/ s = r /\ to \in {"idle", "retry"}
    \/ /\ from \in {"preScanRunning", "scanRunning"}
       /\ s = Sets(r, "InProgress") /\ to = "idle"
    \/ /\ from \in {"failed", "failedRetry"}
       /\ s = Sets(r, "Failed") /\ to \in {"idle", "retry"}
    \/ from = "redisGaveUp" /\ s = Sets(r, "Failed") /\ to = "idle"
    \/ from = "noVMs" /\ s = Sets(r, "Completed") /\ to = "idle"
    \/ /\ from \in {"completed", "completedLocked"}
       /\ s = Sets(r, "Completed") /\ to = "scanCompleted"

Flow(to, s) ==
    \/ PreScanFlow(at, si[cur], Cached("preScan"), to, s)
    \/ ScanFlow(at, si[cur], copy.locations, to, s)
    \/ StatusFlow(at, si[cur], to, s)

\* The step to that, with all that it leaves alone.
Went(to, s) ==
    /\ si[cur].incarnation # 0
    /\ si' = [si EXCEPT ![cur] = s]
    /\ cur' = cur
    /\ at' = IF to = "retry" THEN "idle" ELSE to
    /\ at' # "idle" => copy' = s \/ (copy' = copy /\ s = si[cur])

\* What the worker holds of the ScanInstance at hand past the finalizer: nobody
\* else writes its status, its conditions or its report, and nobody takes it away.
InHand ==
    /\ \A n \in ScanInstances :
          /\ si[n].deleting => si[n].finalizer
          /\ si[n].finalizer => si[n].incarnation # 0
          /\ ~si[n].finalizer =>
                si[n].status = "" /\ si[n].conditions = {} /\ ~si[n].report
    /\ at = "addFinalizer" => ~si[cur].finalizer
    /\ at \in {"cleanup", "removeFinalizer"} => si[cur].deleting
    /\ at \notin Unprotected =>
          /\ si[cur].finalizer
          /\ copy.status = si[cur].status
          /\ copy.conditions = si[cur].conditions
          /\ copy.report = si[cur].report

-----------------------------------------------------------------------------
(* Every step of the worker past the finalizer goes one of these ways.     *)

Flows == \E to, s : Flow(to, s) /\ Went(to, s)

LEMMA QuietWent ==
  ASSUME TypeOK, si[cur].incarnation # 0, NEW label, Move(label)
  PROVE  Went(label, si[cur])
  <1>1. si' = [si EXCEPT ![cur] = si[cur]]
    BY DEF Move, server, TypeOK
  <1>2. Goto(label, copy)
    BY DEF Move
  <1> QED
    BY <1>1, <1>2 DEF Goto, Went

LEMMA RefusedWent ==
  ASSUME TypeOK, si[cur].incarnation # 0, Refused
  PROVE  Went("retry", si[cur])
  <1>1. si' = [si EXCEPT ![cur] = si[cur]]
    BY DEF Refused, server, TypeOK
  <1>2. Goto("retry", copy)
    BY DEF Refused
  <1> QED
    BY <1>1, <1>2 DEF Goto, Went

LEMMA AcceptedWent ==
  ASSUME NEW r, NEW label, Accepted(r, label)
  PROVE  Went(label, r)
  BY DEF Accepted, Goto, Went

LEMMA HandFacts ==
  ASSUME TypeOK, InHand, at \notin Unprotected
  PROVE  /\ si[cur].incarnation # 0 /\ si[cur] \in Record
         /\ copy.status = si[cur].status /\ copy.conditions = si[cur].conditions
         /\ copy.report = si[cur].report
         /\ \A p, t : Has(copy, p, t) <=> Has(si[cur], p, t)
  BY DEF TypeOK, InHand, Has

LEMMA PatchStatusWent ==
  ASSUME TypeOK, InHand, at \notin Unprotected, NEW status, NEW label,
         PatchStatus(status, label)
  PROVE  Went("retry", si[cur]) \/ Went(label, Sets(si[cur], status))
  <1>1. CASE Refused
    BY <1>1, HandFacts, RefusedWent
  <1>2. CASE Accepted(IF copy.status = status THEN si[cur]
                      ELSE [si[cur] EXCEPT !.status = status], label)
    <2>1. (IF copy.status = status THEN si[cur]
           ELSE [si[cur] EXCEPT !.status = status]) = Sets(si[cur], status)
      BY HandFacts DEF Sets, Record
    <2> QED
      BY <1>2, <2>1, AcceptedWent
  <1> QED
    BY <1>1, <1>2 DEF PatchStatus

LEMMA SameStatus ==
  ASSUME NEW r \in Record
  PROVE  Sets(r, r.status) = r
  BY DEF Sets, Record

LEMMA SameConditions ==
  ASSUME NEW r \in Record, NEW phase, NEW status, Has(r, phase, status)
  PROVE  Adds(r, phase, status) = r
  <1>1. r.conditions \cup {<<phase, status>>} = r.conditions
    BY DEF Has
  <1> QED
    BY <1>1 DEF Adds, Record

LEMMA PatchConditionWent ==
  ASSUME TypeOK, InHand, at \notin Unprotected, NEW phase, NEW status, NEW label,
         PatchCondition(phase, status, label)
  PROVE  \/ Went("retry", si[cur])
         \/ Went(label, Adds(si[cur], phase, status))
  <1>1. CASE Has(copy, phase, status)
    <2>1. Move(label) /\ Adds(si[cur], phase, status) = si[cur]
      BY <1>1, HandFacts, SameConditions DEF PatchCondition
    <2> QED
      BY <2>1, HandFacts, QuietWent
  <1>2. CASE ~Has(copy, phase, status)
    <2>1. [si[cur] EXCEPT !.conditions = copy.conditions \cup {<<phase, status>>}]
             = Adds(si[cur], phase, status)
      BY HandFacts DEF Adds
    <2> QED
      BY <1>2, <2>1, HandFacts, AcceptedWent, RefusedWent DEF PatchCondition
  <1> QED
    BY <1>1, <1>2

LEMMA CreateWent ==
  ASSUME TypeOK, si[cur].incarnation # 0, NEW kind, NEW state, NEW accepted,
         NEW exists, NEW rejected, Create(kind, state, accepted, exists, rejected)
  PROVE  \E label \in {accepted, exists, rejected} : Went(label, si[cur])
  <1>1. si' = [si EXCEPT ![cur] = si[cur]]
    BY DEF Create, Move, server, TypeOK
  <1>2. PICK label \in {accepted, exists, rejected} : Goto(label, copy)
    BY DEF Create, Move
  <1> QED
    BY <1>1, <1>2 DEF Goto, Went

LEMMA PastFinalizer ==
  ASSUME WorkerStep, at \notin Unprotected
  PROVE  ~(AddFinalizer \/ Cleanup \/ RemoveFinalizer)
  BY DEF Unprotected, AddFinalizer, Cleanup, RemoveFinalizer, At

LEMMA PreScanFlows ==
  ASSUME TypeOK, InHand, at \notin Unprotected,
         \/ MarkQueued \/ ReadPreScanJob
         \/ MarkPreScanStarted \/ MarkPreScanInProgress \/ CreatePreScanJob
         \/ MarkPreScanRejected \/ MarkPreScanCompleted \/ MarkPreScanFailed
         \/ MarkPreScanRunning \/ MarkFailed
  PROVE  Flows
  <1>0. Went("retry", si[cur]) \/ Went("idle", si[cur]) => Flows
    BY DEF Flows, Flow, StatusFlow
  <1>1. CASE MarkQueued
    <2> DEFINE r == [si[cur] EXCEPT !.status = "Queued"]
    <2>1. at = "queued" /\ r = Sets(si[cur], "Queued")
      BY <1>1 DEF MarkQueued, At, Sets
    <2>2. Accepted(r, Route(r)) \/ Refused
      BY <1>1 DEF MarkQueued
    <2> HIDE DEF r
    <2>3. Went(Route(r), r) \/ Went("retry", si[cur])
      BY <2>2, HandFacts, AcceptedWent, RefusedWent
    <2> QED
      BY <1>0, <2>1, <2>3 DEF Flows, Flow, PreScanFlow
  <1>2. CASE ReadPreScanJob
    <2>1. at = "preScan"
      BY <1>2 DEF ReadPreScanJob, At
    <2> DEFINE job == Cached("preScan")
               label == CASE job = "absent" ->
                                IF Has(copy, "PreScan", "InProgress")
                                THEN "createPreScanJob" ELSE "preScanStarted"
                          [] JobStatusWithPodCheck(job) = "Completed" ->
                                "preScanCompleted"
                          [] JobStatusWithPodCheck(job) = "Failed" -> "preScanFailed"
                          [] DeadlineExceeded(job) -> "preScanOverdue"
                          [] OTHER -> "preScanRunning"
    <2>2. /\ Move(label)
          /\ \/ label = "preScanStarted" /\ job = "absent"
             \/ /\ label = "createPreScanJob" /\ job = "absent"
                /\ Has(copy, "PreScan", "InProgress")
             \/ label = "preScanCompleted" /\ job = "succeeded"
             \/ /\ label \in {"preScanFailed", "preScanOverdue", "preScanRunning"}
                /\ job # "absent"
      <3>1. Move(label)
        BY <1>2 DEF ReadPreScanJob
      <3>2. CASE job = "absent"
        BY <3>1, <3>2 DEF JobStatusWithPodCheck, JobStatus, DeadlineExceeded
      <3>3. CASE job = "succeeded"
        BY <3>1, <3>3 DEF JobStatusWithPodCheck, JobStatus
      <3>4. CASE job \notin {"absent", "succeeded"}
        <4>1. JobStatusWithPodCheck(job) # "Completed"
          BY <3>4 DEF JobStatusWithPodCheck, JobStatus
        <4> HIDE DEF job
        <4> QED
          BY <3>1, <3>4, <4>1
      <3> QED
        BY <3>2, <3>3, <3>4
    <2> HIDE DEF job, label
    <2>3. Went(label, si[cur])
      BY <2>2, HandFacts, QuietWent
    <2>4. PreScanFlow(at, si[cur], job, label, si[cur])
      BY <2>1, <2>2, HandFacts DEF PreScanFlow
    <2> QED
      BY <2>3, <2>4 DEF Flows, Flow, job
  <1>3. CASE MarkPreScanStarted \/ MarkPreScanInProgress \/ MarkPreScanRejected
             \/ MarkPreScanCompleted
    <2>1. PICK to, s :
             /\ PreScanFlow(at, si[cur], Cached("preScan"), to, s)
             /\ Went(to, s) \/ Went("retry", si[cur])
      BY <1>3, PatchStatusWent, PatchConditionWent
      DEF MarkPreScanStarted, MarkPreScanInProgress, MarkPreScanRejected,
          MarkPreScanCompleted, At, PreScanFlow
    <2> QED
      BY <1>0, <2>1 DEF Flows, Flow
  <1>4. CASE CreatePreScanJob
    <2>1. Went("idle", si[cur]) \/ Went("preScanRejected", si[cur])
      BY <1>4, HandFacts, CreateWent DEF CreatePreScanJob
    <2> QED
      BY <1>0, <1>4, <2>1 DEF CreatePreScanJob, At, Flows, Flow, PreScanFlow
  <1>5. CASE MarkPreScanFailed
    <2>1. \/ Went("idle", si[cur]) \/ Went("retry", si[cur])
          \/ Went("failed", Adds(si[cur], "PreScan", "Failed"))
      BY <1>5, HandFacts, QuietWent, PatchConditionWent DEF MarkPreScanFailed
    <2> QED
      BY <1>0, <1>5, <2>1 DEF MarkPreScanFailed, At, Flows, Flow, PreScanFlow
  <1>6. CASE MarkPreScanRunning
    <2> DEFINE next == IF at = "preScanOverdue" THEN "preScanFailed" ELSE "idle"
    <2>1. \/ Went("retry", si[cur])
          \/ Went(next, Sets(si[cur], "InProgress"))
      <3>1. CASE copy.status = "InProgress"
        <4>1. Move(next) /\ Sets(si[cur], "InProgress") = si[cur]
          BY <1>6, <3>1, HandFacts, SameStatus DEF MarkPreScanRunning
        <4> QED
          BY <4>1, HandFacts, QuietWent
      <3>2. CASE copy.status # "InProgress"
        BY <1>6, <3>2, PatchStatusWent DEF MarkPreScanRunning
      <3> QED
        BY <3>1, <3>2
    <2>2. at \in {"preScanRunning", "preScanOverdue"}
      BY <1>6 DEF MarkPreScanRunning
    <2> QED
      BY <1>0, <2>1, <2>2 DEF Flows, Flow, PreScanFlow, StatusFlow
  <1>7. CASE MarkFailed
    <2>1. \/ Went("retry", si[cur])
          \/ \E to \in {"idle", "retry"} : Went(to, Sets(si[cur], "Failed"))
      BY <1>7, PatchStatusWent DEF MarkFailed
    <2> QED
      BY <1>0, <1>7, <2>1 DEF MarkFailed, Flows, Flow, StatusFlow
  <1> QED
    BY <1>1, <1>2, <1>3, <1>4, <1>5, <1>6, <1>7

LEMMA RedisFlows ==
  ASSUME TypeOK, InHand, at \notin Unprotected,
         \/ ReconcileScanPhase \/ MarkNoVMs \/ MarkRedisGaveUp \/ MarkRedisStarted
         \/ CreateRedisDeployment \/ RefetchRedisDeployment
         \/ CreateRedisService \/ RefetchRedisService
         \/ MarkRedisReady \/ MarkRedisFailed
  PROVE  Flows
  <1>0. Went("retry", si[cur]) \/ Went("idle", si[cur]) => Flows
    BY DEF Flows, Flow, StatusFlow
  <1>1. CASE ReconcileScanPhase
    <2> DEFINE route == IF \E s \in Terminal : Has(copy, "Scanning", s) THEN "idle"
                        ELSE IF Has(copy, "Scanning", "InProgress")
                             THEN ScanJobRoute(copy, Cached("scan"))
                             ELSE BeforeScan(copy)
    <2>1. at = "scanPhase" /\ Move(route)
      BY <1>1 DEF ReconcileScanPhase, At
    <2>2. \/ route \in {"idle", "retry"}
          \/ ScanFlow("scanPhase", si[cur], copy.locations, route, si[cur])
      <3>1. CASE \E s \in Terminal : Has(copy, "Scanning", s)
        BY <3>1
      <3>2. CASE /\ \A s \in Terminal : ~Has(copy, "Scanning", s)
                 /\ Has(copy, "Scanning", "InProgress")
        <4>1. route \in {"scanFailed", "scanOverdue", "scanRunning", "report",
                         "completed"}
          BY <3>2 DEF ScanJobRoute
        <4> HIDE DEF route
        <4> QED
          BY <3>2, <4>1, HandFacts DEF ScanFlow
      <3>3. CASE /\ \A s \in Terminal : ~Has(copy, "Scanning", s)
                 /\ ~Has(copy, "Scanning", "InProgress")
        <4>1. \/ route = "noVMs" /\ copy.locations # "some"
              \/ route \in {"idle", "retry"}
              \/ /\ route = "redisGaveUp" /\ copy.locations = "some"
                 /\ Has(copy, "RedisDeployment", "Failed")
              \/ /\ route \in {"redis", "redisStarted"} /\ copy.locations = "some"
                 /\ \A t \in {"Ready", "Failed"} : ~Has(copy, "RedisDeployment", t)
              \/ /\ route = "configMap" /\ copy.locations = "some"
                 /\ Has(copy, "RedisDeployment", "Ready")
          BY <3>3 DEF BeforeScan, RedisRoute
        <4> HIDE DEF route
        <4> QED
          BY <3>3, <4>1, HandFacts DEF ScanFlow
      <3> QED
        BY <3>1, <3>2, <3>3
    <2> HIDE DEF route
    <2>3. Went(route, si[cur])
      BY <2>1, HandFacts, QuietWent
    <2> QED
      BY <1>0, <2>1, <2>2, <2>3 DEF Flows, Flow
  <1>2. CASE MarkNoVMs \/ MarkRedisGaveUp
    <2>1. PICK to, s :
             /\ StatusFlow(at, si[cur], to, s)
             /\ Went(to, s) \/ Went("retry", si[cur])
      BY <1>2, PatchStatusWent DEF MarkNoVMs, MarkRedisGaveUp, At, StatusFlow
    <2> QED
      BY <1>0, <2>1 DEF Flows, Flow
  <1>3. CASE MarkRedisStarted \/ MarkRedisFailed
    <2>1. PICK to, s :
             /\ ScanFlow(at, si[cur], copy.locations, to, s)
             /\ Went(to, s) \/ Went("retry", si[cur])
      BY <1>3, PatchConditionWent DEF MarkRedisStarted, MarkRedisFailed, At, ScanFlow
    <2> QED
      BY <1>0, <2>1 DEF Flows, Flow
  <1>4. CASE MarkRedisReady
    <2>1. \/ Went("idle", si[cur]) \/ Went("retry", si[cur])
          \/ Went("retry", Adds(si[cur], "RedisDeployment", "Ready"))
      BY <1>4, HandFacts, QuietWent, PatchConditionWent DEF MarkRedisReady
    <2> QED
      BY <1>0, <1>4, <2>1 DEF MarkRedisReady, At, Flows, Flow, ScanFlow
  <1>5. ASSUME NEW label \in RedisSteps \cup {"idle"}, at \in RedisSteps,
               Went(label, si[cur])
        PROVE  Flows
    BY <1>0, <1>5 DEF Flows, Flow, ScanFlow
  <1>6. CASE \/ CreateRedisDeployment \/ RefetchRedisDeployment
             \/ CreateRedisService \/ RefetchRedisService
    <2>1. at \in RedisSteps
      BY <1>6 DEF CreateRedisDeployment, RefetchRedisDeployment,
         CreateRedisService, RefetchRedisService, At, RedisSteps
    <2>2. /\ RedisFound \in RedisSteps
          /\ ServiceFound(at) \in RedisSteps \cup {"idle"}
          /\ {"service", "redisExists", "serviceExists", "serviceReadyExists",
              "redisFailed"} \subseteq RedisSteps
      BY DEF RedisFound, ServiceFound, RedisSteps
    <2>3. \E label \in RedisSteps \cup {"idle"} : Went(label, si[cur])
      BY <1>6, <2>2, HandFacts, QuietWent, CreateWent
      DEF CreateRedisDeployment, RefetchRedisDeployment, CreateRedisService,
          RefetchRedisService
    <2> QED
      BY <1>5, <2>1, <2>3
  <1> QED
    BY <1>1, <1>2, <1>3, <1>4, <1>6

LEMMA ScanFlows ==
  ASSUME TypeOK, InHand, at \notin Unprotected,
         \/ CreateScanConfigMap \/ CreateScanSecret \/ CreateScanJob
         \/ MarkScanRejected \/ MarkScanStarted \/ MarkScanRunning \/ MarkScanFailed
         \/ UpdateReport \/ MarkCompleted \/ MarkScanCompleted \/ CreateJanitorJob
  PROVE  Flows
  <1>0. Went("retry", si[cur]) \/ Went("idle", si[cur]) => Flows
    BY DEF Flows, Flow, StatusFlow
  <1>1. CASE CreateScanConfigMap \/ CreateScanSecret \/ CreateScanJob
    <2>1. \E to \in Claiming \cup {"scanRejected", "scanStarted"} : Went(to, si[cur])
      BY <1>1, HandFacts, QuietWent, CreateWent
      DEF CreateScanConfigMap, CreateScanSecret, CreateScanJob, Claiming
    <2>2. at \in Claiming
      BY <1>1 DEF CreateScanConfigMap, CreateScanSecret, CreateScanJob, At, Claiming
    <2> QED
      BY <2>1, <2>2 DEF Flows, Flow, ScanFlow
  <1>2. CASE MarkScanRejected \/ MarkScanStarted \/ MarkScanCompleted
    <2>1. PICK to, s :
             /\ ScanFlow(at, si[cur], copy.locations, to, s)
             /\ Went(to, s) \/ Went("retry", si[cur])
      BY <1>2, PatchConditionWent
      DEF MarkScanRejected, MarkScanStarted, MarkScanCompleted, At, ScanFlow
    <2> QED
      BY <1>0, <2>1 DEF Flows, Flow
  <1>3. CASE MarkScanRunning
    <2> DEFINE next == IF at = "scanOverdue" THEN "scanFailed" ELSE "idle"
    <2>1. \/ Went("retry", si[cur])
          \/ Went(next, Sets(si[cur], "InProgress"))
      <3>1. CASE copy.status = "InProgress"
        <4>1. Move(next) /\ Sets(si[cur], "InProgress") = si[cur]
          BY <1>3, <3>1, HandFacts, SameStatus DEF MarkScanRunning
        <4> QED
          BY <4>1, HandFacts, QuietWent
      <3>2. CASE copy.status # "InProgress"
        BY <1>3, <3>2, PatchStatusWent DEF MarkScanRunning
      <3> QED
        BY <3>1, <3>2
    <2>2. at \in {"scanRunning", "scanOverdue"}
      BY <1>3 DEF MarkScanRunning
    <2> QED
      BY <1>0, <2>1, <2>2 DEF Flows, Flow, ScanFlow, StatusFlow
  <1>4. CASE MarkScanFailed
    <2>1. \/ Went("idle", si[cur]) \/ Went("retry", si[cur])
          \/ Went("failed", Adds(si[cur], "Scanning", "Failed"))
      BY <1>4, HandFacts, QuietWent, PatchConditionWent DEF MarkScanFailed
    <2> QED
      BY <1>0, <1>4, <2>1 DEF MarkScanFailed, At, Flows, Flow, ScanFlow
  <1>5. CASE UpdateReport
    <2>1. \/ Went("retry", si[cur])
          \/ Went("completedLocked", [si[cur] EXCEPT !.report = TRUE])
      BY <1>5, HandFacts, QuietWent, RefusedWent, AcceptedWent
      DEF UpdateReport, AtVersion
    <2> QED
      BY <1>0, <1>5, <2>1 DEF UpdateReport, At, Flows, Flow, ScanFlow
  <1>6. CASE MarkCompleted
    <2>1. \/ Went("retry", si[cur])
          \/ Went("scanCompleted", Sets(si[cur], "Completed"))
      BY <1>6, HandFacts, QuietWent, PatchStatusWent DEF MarkCompleted, AtVersion
    <2>2. at \in {"completed", "completedLocked"}
      BY <1>6 DEF MarkCompleted, At
    <2> QED
      BY <1>0, <2>1, <2>2 DEF Flows, Flow, StatusFlow
  <1>7. CASE CreateJanitorJob
    <2>1. Went("idle", si[cur])
      BY <1>7, HandFacts, QuietWent, CreateWent DEF CreateJanitorJob
    <2> QED
      BY <1>0, <2>1
  <1> QED
    BY <1>1, <1>2, <1>3, <1>4, <1>5, <1>6, <1>7

LEMMA WorkerFlows ==
  ASSUME TypeOK, InHand, at \notin Unprotected, WorkerStep
  PROVE  Flows
  BY PastFinalizer, PreScanFlows, RedisFlows, ScanFlows DEF WorkerStep

-----------------------------------------------------------------------------
(* What is in hand stays in hand.                                          *)

\* A step past the finalizer touches the status, the conditions and the report,
\* and takes no condition away.
Kept(r, s) ==
    /\ s.incarnation = r.incarnation /\ s.deleting = r.deleting
    /\ s.finalizer = r.finalizer /\ s.locations = r.locations
    /\ r.conditions \subseteq s.conditions

LEMMA SetsKept ==
  ASSUME NEW r \in Record, NEW status
  PROVE  Kept(r, Sets(r, status)) /\ Kept(r, r)
  BY DEF Kept, Sets, Record

LEMMA AddsKept ==
  ASSUME NEW r \in Record, NEW phase, NEW status
  PROVE  Kept(r, Adds(r, phase, status)) /\ Kept(r, [r EXCEPT !.report = TRUE])
  BY DEF Kept, Adds, Record

\* Steps that only the finalizer leads to.
AtFinalizer == {"addFinalizer", "cleanup", "removeFinalizer"}

LEMMA RouteAway ==
  ASSUME NEW r
  PROVE  /\ Route(r) \in {"scanPhase", "idle", "preScan"}
         /\ Route(r) \notin AtFinalizer
  BY DEF Route, AtFinalizer

LEMMA FlowKept ==
  ASSUME NEW from, NEW r \in Record, NEW job, NEW locations, NEW to, NEW s,
         \/ PreScanFlow(from, r, job, to, s)
         \/ ScanFlow(from, r, locations, to, s)
         \/ StatusFlow(from, r, to, s)
  PROVE  Kept(r, s) /\ to \notin AtFinalizer
  <1>1. CASE PreScanFlow(from, r, job, to, s)
    BY <1>1, SetsKept, AddsKept, RouteAway DEF PreScanFlow, AtFinalizer
  <1>2. CASE ScanFlow(from, r, locations, to, s)
    <2>1. Kept(r, s)
      BY <1>2, SetsKept, AddsKept DEF ScanFlow
    <2>2. to \notin AtFinalizer
      BY <1>2 DEF ScanFlow, AtFinalizer, RedisSteps, Claiming
    <2> QED
      BY <2>1, <2>2
  <1>3. CASE StatusFlow(from, r, to, s)
    BY <1>3, SetsKept, AddsKept DEF StatusFlow, AtFinalizer
  <1> QED
    BY <1>1, <1>2, <1>3

\* What a step of the worker past the finalizer does to every ScanInstance.
LEMMA FlowsKept ==
  ASSUME TypeOK, InHand, at \notin Unprotected, NEW to, NEW s, Flow(to, s), Went(to, s)
  PROVE  /\ Kept(si[cur], s) /\ to \notin AtFinalizer
         /\ si'[cur] = s
         /\ \A n \in ScanInstances \ {cur} : si'[n] = si[n]
         /\ at' \notin Unprotected =>
               /\ at' = to
               /\ copy'.status = s.status /\ copy'.conditions = s.conditions
               /\ copy'.report = s.report
               /\ copy'.locations \in {s.locations, copy.locations}
  <1>1. si[cur] \in Record /\ cur \in ScanInstances /\ si \in [ScanInstances -> Record]
    BY DEF TypeOK
  <1>2. Kept(si[cur], s) /\ to \notin AtFinalizer
    BY <1>1, FlowKept DEF Flow
  <1>3. si' = [si EXCEPT ![cur] = s]
    BY DEF Went
  <1>4. ASSUME at' \notin Unprotected
        PROVE  at' = to /\ (copy' = s \/ (copy' = copy /\ s = si[cur]))
    BY <1>4 DEF Went, Unprotected
  <1> QED
    BY <1>1, <1>2, <1>3, <1>4, HandFacts

LEMMA WorkerInHand ==
  ASSUME TypeOK, InHand, at \notin Unprotected, WorkerStep
  PROVE  InHand'
  <1>1. PICK to, s : Flow(to, s) /\ Went(to, s)
    BY WorkerFlows DEF Flows
  <1>2. /\ Kept(si[cur], s) /\ si'[cur] = s /\ cur' = cur /\ cur \in ScanInstances
        /\ \A n \in ScanInstances \ {cur} : si'[n] = si[n]
        /\ at' \notin AtFinalizer
    BY <1>1, FlowsKept DEF Went, TypeOK, AtFinalizer
  <1>3. si[cur].finalizer /\ si[cur].incarnation # 0
    BY HandFacts DEF InHand
  <1>4. at' \notin Unprotected =>
           /\ copy'.status = s.status /\ copy'.conditions = s.conditions
           /\ copy'.report = s.report
    BY <1>1, FlowsKept
  <1> QED
    BY <1>2, <1>3, <1>4 DEF InHand, Kept, AtFinalizer

\* What the finalizer's own steps do, when they read what is there.
LEMMA AddFinalizerWrites ==
  ASSUME TypeOK, Fresh, AddFinalizer
  PROVE  /\ cur' = cur /\ res' = res /\ at = "addFinalizer"
         /\ \/ si' = si /\ at' = "idle"
            \/ \E r : /\ r = [si[cur] EXCEPT !.finalizer = TRUE]
                      /\ si[cur].incarnation # 0
                      /\ si' = [si EXCEPT ![cur] = r]
                      /\ at' = AfterFinalizer(r)
                      /\ at' # "idle" => copy' = r
  <1> DEFINE r == [si[cur] EXCEPT !.finalizer = TRUE]
  <1>1. at = "addFinalizer" /\ siCache = si
    BY DEF AddFinalizer, At, Fresh
  <1>2. Accepted(r, AfterFinalizer(r)) \/ Refused
    BY <1>1 DEF AddFinalizer, AtVersion
  <1>3. AfterFinalizer(r) # "retry"
    BY DEF AfterFinalizer, Route
  <1> HIDE DEF r
  <1>4. CASE Accepted(r, AfterFinalizer(r))
    <2>1. /\ cur' = cur /\ res' = res /\ si[cur].incarnation # 0
          /\ si' = [si EXCEPT ![cur] = r] /\ at' = AfterFinalizer(r)
          /\ at' # "idle" => copy' = r
      BY <1>3, <1>4 DEF Accepted, Goto
    <2> QED
      BY <1>1, <2>1 DEF r
  <1>5. CASE Refused
    BY <1>1, <1>5 DEF Refused, Goto, server
  <1> QED
    BY <1>2, <1>4, <1>5

LEMMA RemoveFinalizerWrites ==
  ASSUME TypeOK, InHand, Fresh, RemoveFinalizer
  PROVE  /\ cur' = cur /\ res' = res /\ at' = "idle" /\ at = "removeFinalizer"
         /\ si' = si \/ si' = [si EXCEPT ![cur] = NoRecord]
  <1>1. at = "removeFinalizer" /\ siCache = si
    BY DEF RemoveFinalizer, At, Fresh
  <1>2. si[cur].deleting /\ si[cur].incarnation # 0
    BY <1>1 DEF InHand, TypeOK
  <1>3. Accepted(NoRecord, "idle") \/ Refused
    BY <1>1, <1>2 DEF RemoveFinalizer, AtVersion
  <1> QED
    BY <1>1, <1>3 DEF Accepted, Refused, Goto, server

LEMMA FinalizerInHand ==
  ASSUME TypeOK, InHand, Fresh, AddFinalizer \/ Cleanup \/ RemoveFinalizer
  PROVE  InHand'
  <1>0. si \in [ScanInstances -> Record] /\ cur \in ScanInstances
    BY DEF TypeOK
  <1>1. CASE AddFinalizer
    <2>1. CASE si' = si /\ at' = "idle" /\ cur' = cur
      BY <2>1 DEF InHand, Unprotected
    <2>2. ASSUME NEW r, r = [si[cur] EXCEPT !.finalizer = TRUE],
                 si[cur].incarnation # 0, si' = [si EXCEPT ![cur] = r],
                 at' = AfterFinalizer(r), at' # "idle" => copy' = r, cur' = cur
          PROVE  InHand'
      <3>1. r.finalizer /\ r.incarnation = si[cur].incarnation
        BY <1>0, <2>2 DEF Record
      <3>2. at' \in {"queued", "scanPhase", "idle", "preScan"}
        BY <2>2, RouteAway DEF AfterFinalizer
      <3>3. si'[cur] = r /\ \A n \in ScanInstances \ {cur} : si'[n] = si[n]
        BY <1>0, <2>2
      <3> QED
        BY <1>0, <2>2, <3>1, <3>2, <3>3 DEF InHand, Unprotected
    <2> QED
      BY <1>1, <2>1, <2>2, AddFinalizerWrites
  <1>2. CASE Cleanup
    <2>1. /\ si' = si /\ cur' = cur /\ at = "cleanup"
          /\ at' \in {"removeFinalizer", "idle"}
      BY <1>2 DEF Cleanup, At, Goto
    <2> QED
      BY <2>1 DEF InHand, Unprotected
  <1>3. CASE RemoveFinalizer
    <2>1. /\ at' = "idle" /\ cur' = cur
          /\ si' = si \/ si' = [si EXCEPT ![cur] = NoRecord]
      BY <1>3, RemoveFinalizerWrites
    <2>2. /\ ~NoRecord.deleting /\ ~NoRecord.finalizer /\ NoRecord.status = ""
          /\ NoRecord.conditions = {} /\ ~NoRecord.report
      BY DEF NoRecord
    <2>3. CASE si' = si
      BY <2>1, <2>3 DEF InHand, Unprotected
    <2>4. CASE si' = [si EXCEPT ![cur] = NoRecord]
      BY <1>0, <2>1, <2>2, <2>4 DEF InHand, Unprotected
    <2> QED
      BY <2>1, <2>3, <2>4
  <1> QED
    BY <1>1, <1>2, <1>3

LEMMA StartReads ==
  ASSUME TypeOK, Fresh, NEW n \in ScanInstances, Start(n)
  PROVE  /\ si' = si /\ res' = res /\ cur' = n /\ at' = FirstStep(si[n])
         /\ at' # "idle" => copy' = si[n]
  BY DEF Start, At, Fresh, server

LEMMA ManagerInHand ==
  ASSUME TypeOK, InHand, Fresh,
         \/ \E n \in ScanInstances : Start(n)
         \/ DeliverScanInstances \/ (\E i \in Informers : Deliver(i)) \/ Crash
  PROVE  InHand'
  <1>1. CASE \E n \in ScanInstances : Start(n)
    <2>1. PICK n \in ScanInstances : Start(n)
      BY <1>1
    <2>2. /\ si' = si /\ cur' = n /\ at' = FirstStep(si[n])
          /\ at' # "idle" => copy' = si[n]
      BY <2>1, StartReads
    <2>3. /\ FirstStep(si[n]) = "addFinalizer" => ~si[n].finalizer
          /\ FirstStep(si[n]) \in {"cleanup", "removeFinalizer"} => si[n].deleting
          /\ FirstStep(si[n]) \notin Unprotected => si[n].finalizer
      <3>1. /\ AfterFinalizer(si[n]) \notin AtFinalizer
            /\ si[n].deleting => si[n].finalizer
        BY RouteAway DEF AfterFinalizer, AtFinalizer, InHand
      <3> QED
        BY <3>1 DEF FirstStep, Unprotected, AtFinalizer
    <2> QED
      BY <2>2, <2>3 DEF InHand, Unprotected
  <1>2. CASE DeliverScanInstances \/ (\E i \in Informers : Deliver(i)) \/ Crash
    BY <1>2 DEF InHand, DeliverScanInstances, Deliver, Crash, server, worker,
                Unprotected
  <1> QED
    BY <1>1, <1>2

\* What users and containers do to the ScanInstance of a name.
Becoming(n, r) ==
    \/ si[n].incarnation = 0 /\ r = [NoRecord EXCEPT !.incarnation = created[n] + 1]
    \/ si[n].finalizer /\ r = [si[n] EXCEPT !.deleting = TRUE]
    \/ ~si[n].finalizer /\ si[n].incarnation # 0 /\ r = NoRecord
    \/ /\ res[n]["preScan"].state = "active" /\ si[n].incarnation # 0
       /\ \E l \in {"none", "some"} : r = [si[n] EXCEPT !.locations = l]

Touched(n) == si' = si \/ \E r : si' = [si EXCEPT ![n] = r] /\ Becoming(n, r)

LEMMA ClusterTouches ==
  ASSUME NEW n \in ScanInstances, Cluster(n)
  PROVE  Touched(n) /\ UNCHANGED worker
  <1>1. UNCHANGED worker
    BY DEF Cluster, UserCreate, UserDelete, JobStarts, JobBlocked, JobUnblocked,
       ImageMissing, ImageFound, JobFails, PreScanReports, JobSucceeds,
       JanitorRuns, JanitorExpires, RedisStarts, RedisRestarts, GarbageCollect,
       Becomes, Outside
  <1>2. CASE UserCreate(n)
    <2> DEFINE r == [NoRecord EXCEPT !.incarnation = created[n] + 1]
    <2>1. si' = [si EXCEPT ![n] = r] /\ si[n].incarnation = 0
      BY <1>2 DEF UserCreate
    <2>2. Becoming(n, r)
      BY <2>1 DEF Becoming
    <2> HIDE DEF r
    <2> QED
      BY <1>1, <2>1, <2>2 DEF Touched
  <1>3. CASE UserDelete(n)
    <2> DEFINE r == IF si[n].finalizer THEN [si[n] EXCEPT !.deleting = TRUE]
                                       ELSE NoRecord
    <2>1. si' = [si EXCEPT ![n] = r] /\ si[n].incarnation # 0
      BY <1>3 DEF UserDelete
    <2>2. Becoming(n, r)
      BY <2>1 DEF Becoming
    <2> HIDE DEF r
    <2> QED
      BY <1>1, <2>1, <2>2 DEF Touched
  <1>4. CASE PreScanReports(n)
    <2>1. CASE si[n].incarnation = 0
      BY <1>1, <1>4, <2>1 DEF PreScanReports, Touched
    <2>2. CASE si[n].incarnation # 0
      <3>1. PICK l \in {"none", "some"} :
               si' = [si EXCEPT ![n] = [si[n] EXCEPT !.locations = l]]
        BY <1>4, <2>2 DEF PreScanReports
      <3> DEFINE r == [si[n] EXCEPT !.locations = l]
      <3>2. Becoming(n, r)
        BY <1>4, <2>2 DEF PreScanReports, Becoming
      <3>3. si' = [si EXCEPT ![n] = r]
        BY <3>1
      <3> HIDE DEF r
      <3> QED
        BY <1>1, <3>2, <3>3 DEF Touched
    <2> QED
      BY <2>1, <2>2
  <1>5. CASE ~(UserCreate(n) \/ UserDelete(n) \/ PreScanReports(n))
    BY <1>1, <1>5 DEF Touched, Cluster, JobStarts, JobBlocked, JobUnblocked,
       ImageMissing, ImageFound, JobFails, JobSucceeds,
       JanitorRuns, JanitorExpires, RedisStarts, RedisRestarts, GarbageCollect,
       Becomes, Outside
  <1> QED
    BY <1>1, <1>2, <1>3, <1>4, <1>5

LEMMA TouchedInHand ==
  ASSUME TypeOK, InHand, NEW n \in ScanInstances, Touched(n), UNCHANGED worker
  PROVE  InHand'
  <1>0. /\ si \in [ScanInstances -> Record] /\ cur \in ScanInstances
        /\ cur' = cur /\ at' = at /\ copy' = copy /\ si[n] \in Record
    BY DEF TypeOK, worker
  <1>1. CASE si' = si
    BY <1>0, <1>1 DEF InHand
  <1>2. ASSUME NEW r, si' = [si EXCEPT ![n] = r], Becoming(n, r)
        PROVE  InHand'
    <2>1. CASE si[n].finalizer
      <3>1. /\ si[n].incarnation # 0
            /\ r.finalizer = si[n].finalizer /\ r.status = si[n].status
            /\ r.conditions = si[n].conditions /\ r.report = si[n].report
            /\ r.incarnation = si[n].incarnation
            /\ si[n].deleting => r.deleting
        BY <1>0, <1>2, <2>1 DEF InHand, Becoming, Record
      <3> QED
        BY <1>0, <1>2, <2>1, <3>1 DEF InHand, Unprotected
    <2>2. CASE ~si[n].finalizer
      <3>1. ~r.deleting /\ ~r.finalizer /\ r.status = "" /\ r.conditions = {} /\ ~r.report
        <4>1. ASSUME NEW i, r = [NoRecord EXCEPT !.incarnation = i]
              PROVE  /\ ~r.deleting /\ ~r.finalizer /\ r.status = "" /\ r.conditions = {}
                     /\ ~r.report
          BY <4>1 DEF NoRecord
        <4>3. CASE r = NoRecord
          BY <4>3 DEF NoRecord
        <4>2. ASSUME NEW l, r = [si[n] EXCEPT !.locations = l]
              PROVE  /\ ~r.deleting /\ ~r.finalizer /\ r.status = "" /\ r.conditions = {}
                     /\ ~r.report
          BY <1>0, <2>2, <4>2 DEF InHand, Record
        <4> QED
          BY <1>2, <2>2, <4>1, <4>2, <4>3 DEF Becoming
      <3>2. n = cur => at \in {"idle", "addFinalizer"}
        BY <2>2 DEF InHand, Unprotected
      <3> QED
        BY <1>0, <1>2, <3>1, <3>2 DEF InHand, Unprotected
    <2> QED
      BY <2>1, <2>2
  <1> QED
    BY <1>1, <1>2 DEF Touched

-----------------------------------------------------------------------------
(* The story that status and conditions tell.                              *)

Entered(r, phase) == \E c \in r.conditions : c[1] = phase

FailedOnce(r) == \E c \in r.conditions : c[2] = "Failed"

\* A phase is entered when the one before it is done, and ends once.
Consistent(r) ==
    /\ ~Has(r, "Scanning", "Ready")
    /\ ~(Has(r, "PreScan", "Completed") /\ Has(r, "PreScan", "Failed"))
    /\ ~(Has(r, "RedisDeployment", "Ready") /\ Has(r, "RedisDeployment", "Failed"))
    /\ Entered(r, "RedisDeployment") => Has(r, "PreScan", "Completed")
    /\ Entered(r, "Scanning") => Has(r, "RedisDeployment", "Ready")
    /\ r.status = "Failed" => FailedOnce(r)
    /\ r.report => Has(r, "Scanning", "InProgress")

PreScanSteps == {"preScan", "preScanStarted", "preScanInProgress",
                 "createPreScanJob", "preScanRejected", "preScanCompleted",
                 "preScanFailed", "preScanRunning", "preScanOverdue"}

FailedSteps == {"failed", "failedRetry"}

JobSteps == {"scanRunning", "scanOverdue", "scanFailed", "report", "completedLocked",
             "completed", "scanCompleted"}

LastSteps == {"scanCompleted", "janitor"}

\* What the record of the ScanInstance at hand is like before a step.
Due(label, r) ==
    /\ label \notin Unprotected \cup LastSteps \cup {"queued"} =>
          r.status \in {"Queued", "InProgress"}
    /\ label = "queued" => r.status = ""
    /\ label \in LastSteps => r.status = "Completed"
    /\ label \in PreScanSteps =>
          ~Has(r, "PreScan", "Completed") /\ ~Has(r, "PreScan", "Failed")
    /\ label \notin Unprotected \cup PreScanSteps \cup FailedSteps \cup {"queued"} =>
          Has(r, "PreScan", "Completed")
    /\ label = "redisGaveUp" => Has(r, "RedisDeployment", "Failed")
    /\ label \in RedisSteps \cup {"redisStarted"} =>
          /\ ~Has(r, "RedisDeployment", "Ready")
          /\ ~Has(r, "RedisDeployment", "Failed")
    /\ label \in Claiming \cup {"scanRejected", "scanStarted"} =>
          Has(r, "RedisDeployment", "Ready") /\ ~Entered(r, "Scanning")
    /\ label \in JobSteps =>
          Has(r, "Scanning", "InProgress") /\ ~Has(r, "Scanning", "Failed")
    /\ label \in FailedSteps => FailedOnce(r)

Told == (\A n \in ScanInstances : Consistent(si[n])) /\ Due(at, si[cur])

LEMMA SetsFacts ==
  ASSUME NEW r \in Record, NEW status
  PROVE  /\ Sets(r, status).status = status
         /\ Sets(r, status).report = r.report
         /\ \A p, t : Has(Sets(r, status), p, t) <=> Has(r, p, t)
         /\ \A p : Entered(Sets(r, status), p) <=> Entered(r, p)
         /\ FailedOnce(Sets(r, status)) <=> FailedOnce(r)
  <1>1. /\ Sets(r, status).conditions = r.conditions
        /\ Sets(r, status).status = status
        /\ Sets(r, status).report = r.report
    BY DEF Sets, Record
  <1> QED
    BY <1>1 DEF Has, Entered, FailedOnce

LEMMA AddsFacts ==
  ASSUME NEW r \in Record, NEW phase, NEW status
  PROVE  /\ Adds(r, phase, status).status = r.status
         /\ Adds(r, phase, status).report = r.report
         /\ \A p, t : Has(Adds(r, phase, status), p, t) <=>
                         Has(r, p, t) \/ (p = phase /\ t = status)
         /\ \A p : Entered(Adds(r, phase, status), p) <=> Entered(r, p) \/ p = phase
         /\ FailedOnce(Adds(r, phase, status)) <=> FailedOnce(r) \/ status = "Failed"
  <1>1. /\ Adds(r, phase, status).conditions = r.conditions \cup {<<phase, status>>}
        /\ Adds(r, phase, status).status = r.status
        /\ Adds(r, phase, status).report = r.report
    BY DEF Adds, Record
  <1> HIDE DEF Adds
  <1>2. <<phase, status>>[1] = phase /\ <<phase, status>>[2] = status
    OBVIOUS
  <1>3. \A p, t : <<p, t>> = <<phase, status>> <=> p = phase /\ t = status
    OBVIOUS
  <1> QED
    BY <1>1, <1>2, <1>3 DEF Has, Entered, FailedOnce

\* A phase with a condition has been entered; one without has none, of any status.
LEMMA EnteredFacts ==
  ASSUME NEW r \in Record
  PROVE  /\ \A p, t : Has(r, p, t) => Entered(r, p)
         /\ \A p : Entered(r, p) =>
               \E t \in {"InProgress", "Ready", "Completed", "Failed"} : Has(r, p, t)
         /\ \A p : Has(r, p, "Failed") => FailedOnce(r)
  <1>1. \A p, t : <<p, t>>[1] = p /\ <<p, t>>[2] = t
    OBVIOUS
  <1>2. \A c \in r.conditions :
           /\ c = <<c[1], c[2]>>
           /\ c[2] \in {"InProgress", "Ready", "Completed", "Failed"}
    BY DEF Record, Conditions
  <1>3. ASSUME NEW p, Entered(r, p)
        PROVE  \E t \in {"InProgress", "Ready", "Completed", "Failed"} : Has(r, p, t)
    BY <1>2, <1>3 DEF Has, Entered
  <1> QED
    BY <1>1, <1>3 DEF Has, Entered, FailedOnce

\* The step a reconciliation goes on with after its finalizer and its status.
LEMMA RouteDue ==
  ASSUME NEW r, Consistent(r), r.status \in {"Queued", "InProgress"}
  PROVE  Due(Route(r), r)
  BY DEF Route, Due, Consistent, Unprotected, LastSteps, PreScanSteps, FailedSteps,
     RedisSteps, Claiming, JobSteps

LEMMA FirstStepDue ==
  ASSUME NEW r \in Record, Consistent(r), r.deleting => r.finalizer,
         ~r.finalizer => r.status = ""
  PROVE  Due(FirstStep(r), r)
  <1>1. \A label \in Unprotected : Due(label, r)
    BY DEF Due, Unprotected, LastSteps, PreScanSteps, FailedSteps, RedisSteps,
       Claiming, JobSteps
  <1>2. r.status = "" => Due("queued", r)
    BY DEF Due, Unprotected, LastSteps, PreScanSteps, FailedSteps, RedisSteps,
       Claiming, JobSteps
  <1>3. r.status \in {"Queued", "InProgress"} => Due(AfterFinalizer(r), r)
    BY RouteDue DEF AfterFinalizer
  <1>4. r.status \notin Terminal => Due(AfterFinalizer(r), r)
    BY <1>2, <1>3 DEF AfterFinalizer, Record, Statuses, Terminal
  <1> QED
    BY <1>1, <1>4 DEF FirstStep, Unprotected

LEMMA PreScanTold ==
  ASSUME NEW from, NEW r \in Record, NEW job, NEW to, NEW s, Consistent(r), Due(from, r),
         PreScanFlow(from, r, job, to, s)
  PROVE  Consistent(s) /\ (to # "retry" => Due(to, s))
  <1> USE DEF Unprotected, LastSteps, PreScanSteps, FailedSteps, RedisSteps,
              Claiming, JobSteps
  <1>1. CASE /\ from = "queued" /\ s = Sets(r, "Queued") /\ to = Route(s)
    <2>1. Consistent(s) /\ s.status = "Queued"
      BY <1>1, SetsFacts DEF Consistent
    <2> QED
      BY <1>1, <2>1, RouteDue
  <1>2. CASE from = "preScan" /\ s = r
    <2>1. to \in {"preScanStarted", "createPreScanJob", "preScanCompleted",
                  "preScanFailed", "preScanOverdue", "preScanRunning"}
      BY <1>2 DEF PreScanFlow
    <2> QED
      BY <1>2, <2>1 DEF Due
  <1>3. CASE /\ from = "preScanStarted" /\ s = Adds(r, "PreScan", "InProgress")
             /\ to = "preScanInProgress"
    BY <1>3, AddsFacts DEF Consistent, Due
  <1>4. CASE /\ from \in {"preScanInProgress", "preScanOverdue"}
             /\ s = Sets(r, "InProgress")
             /\ to \in {"createPreScanJob", "preScanFailed"}
    BY <1>4, SetsFacts DEF Consistent, Due
  <1>5. CASE from = "createPreScanJob" /\ s = r /\ to = "preScanRejected"
    BY <1>5 DEF Due
  <1>6. CASE /\ from \in {"preScanRejected", "preScanFailed"}
             /\ s = Adds(r, "PreScan", "Failed")
             /\ to \in FailedSteps
    <2>1. ~Has(r, "PreScan", "Completed") /\ r.status \in {"Queued", "InProgress"}
      BY <1>6 DEF Due
    <2>2. s.status = r.status /\ FailedOnce(s)
      BY <1>6, AddsFacts
    <2>3. Consistent(s)
      BY <1>6, <2>1, <2>2, AddsFacts DEF Consistent
    <2> QED
      BY <1>6, <2>1, <2>2, <2>3 DEF Due
  <1>7. CASE /\ from = "preScanCompleted" /\ s = Adds(r, "PreScan", "Completed")
             /\ to = "scanPhase"
    BY <1>7, AddsFacts DEF Consistent, Due
  <1> QED
    BY <1>1, <1>2, <1>3, <1>4, <1>5, <1>6, <1>7 DEF PreScanFlow

LEMMA ScanTold ==
  ASSUME NEW from, NEW r \in Record, NEW locations, NEW to, NEW s,
         Consistent(r), Due(from, r), ScanFlow(from, r, locations, to, s)
  PROVE  Consistent(s) /\ (to # "retry" => Due(to, s))
  <1> USE DEF Unprotected, LastSteps, PreScanSteps, FailedSteps, RedisSteps,
              Claiming, JobSteps
  <1>1. CASE from = "scanPhase" /\ s = r
    <2>1. \A t \in Terminal : ~Has(r, "Scanning", t)
      BY <1>1 DEF ScanFlow
    <2>2. CASE /\ Has(r, "Scanning", "InProgress")
               /\ to \in {"scanFailed", "scanOverdue", "scanRunning", "report",
                          "completed"}
      BY <1>1, <2>1, <2>2 DEF Due, Terminal
    <2>3. CASE to = "noVMs"
      BY <1>1, <2>3 DEF Due
    <2>4. CASE to = "redisGaveUp" /\ Has(r, "RedisDeployment", "Failed")
      BY <1>1, <2>4 DEF Due
    <2>5. CASE /\ to \in {"redis", "redisStarted"}
               /\ \A t \in {"Ready", "Failed"} : ~Has(r, "RedisDeployment", t)
      BY <1>1, <2>5 DEF Due
    <2>6. CASE /\ to = "configMap" /\ ~Has(r, "Scanning", "InProgress")
               /\ Has(r, "RedisDeployment", "Ready")
      <3>1. ~Entered(r, "Scanning")
        BY <2>1, <2>6, EnteredFacts DEF Consistent, Terminal
      <3> QED
        BY <1>1, <2>6, <3>1 DEF Due
    <2> QED
      BY <1>1, <2>2, <2>3, <2>4, <2>5, <2>6 DEF ScanFlow
  <1>2. CASE /\ from = "redisStarted" /\ s = Adds(r, "RedisDeployment", "InProgress")
             /\ to = "redis"
    BY <1>2, AddsFacts DEF Consistent, Due
  <1>3. CASE from \in RedisSteps /\ s = r /\ to \in RedisSteps
    BY <1>3 DEF Due
  <1>4. CASE /\ from = "redisReady" /\ s = Adds(r, "RedisDeployment", "Ready")
             /\ to = "retry"
    BY <1>4, AddsFacts DEF Consistent, Due
  <1>5. CASE /\ from = "redisFailed" /\ s = Adds(r, "RedisDeployment", "Failed")
             /\ to = "failedRetry"
    BY <1>5, AddsFacts DEF Consistent, Due
  <1>6. CASE /\ from \in Claiming /\ s = r
             /\ to \in Claiming \cup {"scanRejected", "scanStarted"}
    BY <1>6 DEF Due
  <1>7. CASE /\ from = "scanRejected" /\ s = Adds(r, "Scanning", "Failed")
             /\ to = "failedRetry"
    BY <1>7, AddsFacts DEF Consistent, Due
  <1>8. CASE /\ from = "scanStarted" /\ s = Adds(r, "Scanning", "InProgress")
             /\ to = "idle"
    BY <1>8, AddsFacts DEF Consistent, Due
  <1>9. CASE from = "scanOverdue" /\ s = Sets(r, "InProgress") /\ to = "scanFailed"
    BY <1>9, SetsFacts DEF Consistent, Due
  <1>10. CASE from = "scanFailed" /\ s = Adds(r, "Scanning", "Failed") /\ to = "failed"
    <2>1. Entered(r, "Scanning")
      BY <1>10, EnteredFacts DEF Due
    <2> QED
      BY <1>10, <2>1, AddsFacts DEF Consistent, Due
  <1>11. CASE /\ from = "report" /\ s = [r EXCEPT !.report = TRUE]
              /\ to = "completedLocked"
    <2>1. s.conditions = r.conditions /\ s.status = r.status
      BY <1>11 DEF Record
    <2>2. /\ \A p, t : Has(s, p, t) <=> Has(r, p, t)
          /\ \A p : Entered(s, p) <=> Entered(r, p)
          /\ FailedOnce(s) <=> FailedOnce(r)
      BY <2>1 DEF Has, Entered, FailedOnce
    <2> QED
      BY <1>11, <2>1, <2>2 DEF Consistent, Due
  <1>12. CASE /\ from = "scanCompleted" /\ s = Adds(r, "Scanning", "Completed")
              /\ to = "janitor"
    <2>1. Has(r, "Scanning", "InProgress") => Entered(r, "Scanning")
      BY EnteredFacts
    <2> QED
      BY <1>12, <2>1, AddsFacts DEF Consistent, Due
  <1> QED
    BY <1>1, <1>2, <1>3, <1>4, <1>5, <1>6, <1>7, <1>8, <1>9, <1>10, <1>11, <1>12
    DEF ScanFlow

LEMMA StatusTold ==
  ASSUME NEW from, from \notin Unprotected, NEW r \in Record, NEW to, NEW s,
         Consistent(r), Due(from, r), StatusFlow(from, r, to, s)
  PROVE  Consistent(s) /\ (to # "retry" => Due(to, s))
  <1> USE DEF Unprotected, LastSteps, PreScanSteps, FailedSteps, RedisSteps,
              Claiming, JobSteps
  <1>0. Due("idle", s)
    BY DEF Due
  <1>1. CASE s = r /\ to \in {"idle", "retry"}
    BY <1>0, <1>1
  <1>2. CASE /\ from \in {"preScanRunning", "scanRunning"}
             /\ s = Sets(r, "InProgress") /\ to = "idle"
    BY <1>0, <1>2, SetsFacts DEF Consistent
  <1>3. CASE /\ from \in {"failed", "failedRetry"}
             /\ s = Sets(r, "Failed") /\ to \in {"idle", "retry"}
    <2>1. FailedOnce(r)
      BY <1>3 DEF Due
    <2> QED
      BY <1>0, <1>3, <2>1, SetsFacts DEF Consistent
  <1>4. CASE from = "redisGaveUp" /\ s = Sets(r, "Failed") /\ to = "idle"
    <2>1. FailedOnce(r)
      BY <1>4, EnteredFacts DEF Due
    <2> QED
      BY <1>0, <1>4, <2>1, SetsFacts DEF Consistent
  <1>5. CASE from = "noVMs" /\ s = Sets(r, "Completed") /\ to = "idle"
    BY <1>0, <1>5, SetsFacts DEF Consistent
  <1>6. CASE /\ from \in {"completed", "completedLocked"}
             /\ s = Sets(r, "Completed") /\ to = "scanCompleted"
    BY <1>6, SetsFacts DEF Consistent, Due
  <1> QED
    BY <1>1, <1>2, <1>3, <1>4, <1>5, <1>6 DEF StatusFlow

LEMMA FlowTold ==
  ASSUME TypeOK, Told, at \notin Unprotected, NEW to, NEW s, Flow(to, s)
  PROVE  Consistent(s) /\ (to # "retry" => Due(to, s))
  <1>1. si[cur] \in Record /\ Consistent(si[cur]) /\ Due(at, si[cur])
    BY DEF TypeOK, Told
  <1> QED
    BY <1>1, PreScanTold, ScanTold, StatusTold DEF Flow

LEMMA IdleDue ==
  ASSUME NEW label \in Unprotected, NEW r
  PROVE  Due(label, r)
  BY DEF Due, Unprotected, LastSteps, PreScanSteps, FailedSteps, RedisSteps,
     Claiming, JobSteps

LEMMA EmptyConsistent ==
  ASSUME NEW r, r.conditions = {}, r.status = "", ~r.report
  PROVE  Consistent(r)
  BY DEF Consistent, Has, Entered

LEMMA WorkerTold ==
  ASSUME TypeOK, InHand, Told, at \notin Unprotected, WorkerStep
  PROVE  Told'
  <1>1. PICK to, s : Flow(to, s) /\ Went(to, s)
    BY WorkerFlows DEF Flows
  <1>2. /\ si'[cur] = s /\ cur' = cur /\ cur \in ScanInstances
        /\ \A n \in ScanInstances \ {cur} : si'[n] = si[n]
        /\ at' = IF to = "retry" THEN "idle" ELSE to
    BY <1>1, FlowsKept DEF Went, TypeOK
  <1>3. Consistent(s) /\ (to # "retry" => Due(to, s))
    BY <1>1, FlowTold
  <1>4. Due(at', s)
    BY <1>2, <1>3, IdleDue DEF Unprotected
  <1> QED
    BY <1>2, <1>3, <1>4 DEF Told

LEMMA FinalizerTold ==
  ASSUME TypeOK, InHand, Told, Fresh, AddFinalizer \/ Cleanup \/ RemoveFinalizer
  PROVE  Told'
  <1>0. /\ si \in [ScanInstances -> Record] /\ cur \in ScanInstances
        /\ si[cur] \in Record
    BY DEF TypeOK
  <1>1. CASE AddFinalizer
    <2>1. at = "addFinalizer" /\ cur' = cur
      BY <1>1, AddFinalizerWrites
    <2>2. CASE si' = si /\ at' = "idle"
      BY <2>1, <2>2, IdleDue DEF Told, Unprotected
    <2>3. ASSUME NEW r, r = [si[cur] EXCEPT !.finalizer = TRUE],
                 si' = [si EXCEPT ![cur] = r], at' = AfterFinalizer(r)
          PROVE  Told'
      <3>1. r.status = "" /\ r.conditions = {} /\ ~r.report
        BY <1>0, <2>1, <2>3 DEF InHand, Record
      <3>2. at' = "queued" /\ Consistent(r)
        BY <2>3, <3>1, EmptyConsistent DEF AfterFinalizer
      <3>3. Due(at', r)
        BY <3>1, <3>2 DEF Due, Unprotected, LastSteps, PreScanSteps, FailedSteps,
           RedisSteps, Claiming, JobSteps
      <3>4. si'[cur] = r /\ \A n \in ScanInstances \ {cur} : si'[n] = si[n]
        BY <1>0, <2>3
      <3> QED
        BY <1>0, <2>1, <3>2, <3>3, <3>4 DEF Told
    <2> QED
      BY <1>1, <2>2, <2>3, AddFinalizerWrites
  <1>2. CASE Cleanup
    <2>1. si' = si /\ cur' = cur /\ at' \in Unprotected
      BY <1>2 DEF Cleanup, Goto, Unprotected
    <2> QED
      BY <2>1, IdleDue DEF Told
  <1>3. CASE RemoveFinalizer
    <2>1. /\ at' \in Unprotected /\ cur' = cur
          /\ si' = si \/ si' = [si EXCEPT ![cur] = NoRecord]
      BY <1>3, RemoveFinalizerWrites DEF Unprotected
    <2>2. Consistent(NoRecord)
      BY EmptyConsistent DEF NoRecord
    <2> QED
      BY <1>0, <2>1, <2>2, IdleDue DEF Told
  <1> QED
    BY <1>1, <1>2, <1>3

LEMMA ManagerTold ==
  ASSUME TypeOK, InHand, Told, Fresh,
         \/ \E n \in ScanInstances : Start(n)
         \/ DeliverScanInstances \/ (\E i \in Informers : Deliver(i)) \/ Crash
  PROVE  Told'
  <1>1. CASE \E n \in ScanInstances : Start(n)
    <2>1. PICK n \in ScanInstances : Start(n)
      BY <1>1
    <2>2. si' = si /\ cur' = n /\ at' = FirstStep(si[n])
      BY <2>1, StartReads
    <2>3. Due(FirstStep(si[n]), si[n])
      BY FirstStepDue DEF Told, InHand, TypeOK
    <2> QED
      BY <2>2, <2>3 DEF Told
  <1>2. CASE DeliverScanInstances \/ (\E i \in Informers : Deliver(i))
    BY <1>2 DEF Told, DeliverScanInstances, Deliver, server, worker
  <1>3. CASE Crash
    BY <1>3, IdleDue DEF Crash, Told, server, Unprotected
  <1> QED
    BY <1>1, <1>2, <1>3

\* What comes over a record from outside leaves its story as it was, or is where
\* no story has begun.
LEMMA BecomingStory ==
  ASSUME TypeOK, InHand, NEW n \in ScanInstances, NEW r, Becoming(n, r)
  PROVE  \/ /\ r.status = si[n].status /\ r.conditions = si[n].conditions
            /\ r.report = si[n].report
         \/ /\ r.status = "" /\ r.conditions = {} /\ ~r.report
            /\ r.incarnation # si[n].incarnation /\ ~si[n].finalizer
            /\ \/ r = NoRecord
               \/ si[n].incarnation = 0
  <1>0. si[n] \in Record /\ created[n] \in Nat
    BY DEF TypeOK
  <1>1. CASE si[n].incarnation = 0 /\ r = [NoRecord EXCEPT !.incarnation = created[n] + 1]
    <2> DEFINE i == created[n] + 1
    <2>1. i # 0 /\ r = [NoRecord EXCEPT !.incarnation = i]
      BY <1>0, <1>1
    <2> HIDE DEF i
    <2>2. r.status = "" /\ r.conditions = {} /\ ~r.report /\ r.incarnation = i
      BY <2>1 DEF NoRecord
    <2> QED
      BY <1>1, <2>1, <2>2 DEF InHand
  <1>2. CASE \/ r = [si[n] EXCEPT !.deleting = TRUE]
             \/ \E l \in {"none", "some"} : r = [si[n] EXCEPT !.locations = l]
    BY <1>0, <1>2 DEF Record
  <1>3. CASE ~si[n].finalizer /\ si[n].incarnation # 0 /\ r = NoRecord
    BY <1>3 DEF NoRecord
  <1> QED
    BY <1>1, <1>2, <1>3 DEF Becoming

LEMMA SameStory ==
  ASSUME NEW r, NEW s, r.status = s.status, r.conditions = s.conditions,
         r.report = s.report
  PROVE  /\ Consistent(r) <=> Consistent(s)
         /\ \A label : Due(label, r) <=> Due(label, s)
  <1>1. /\ \A p, t : Has(s, p, t) <=> Has(r, p, t)
        /\ \A p : Entered(s, p) <=> Entered(r, p)
        /\ FailedOnce(s) <=> FailedOnce(r)
    BY DEF Has, Entered, FailedOnce
  <1>2. Consistent(r) <=> Consistent(s)
    BY <1>1 DEF Consistent
  <1>3. ASSUME NEW label
        PROVE  Due(label, r) <=> Due(label, s)
    BY <1>1 DEF Due
  <1> QED
    BY <1>2, <1>3

LEMMA TouchedTold ==
  ASSUME TypeOK, InHand, Told, NEW n \in ScanInstances, Touched(n), UNCHANGED worker
  PROVE  Told'
  <1>0. /\ si \in [ScanInstances -> Record] /\ cur \in ScanInstances
        /\ cur' = cur /\ at' = at
    BY DEF TypeOK, worker
  <1>1. CASE si' = si
    BY <1>0, <1>1 DEF Told
  <1>2. ASSUME NEW r, si' = [si EXCEPT ![n] = r], Becoming(n, r)
        PROVE  Told'
    <2>1. CASE /\ r.status = si[n].status /\ r.conditions = si[n].conditions
               /\ r.report = si[n].report
      BY <1>0, <1>2, <2>1, SameStory DEF Told
    <2>2. CASE /\ r.status = "" /\ r.conditions = {} /\ ~r.report
               /\ ~si[n].finalizer
      <3>1. n = cur => at \in Unprotected
        BY <2>2 DEF InHand, Unprotected
      <3> QED
        BY <1>0, <1>2, <2>2, <3>1, EmptyConsistent, IdleDue DEF Told
    <2> QED
      BY <1>2, <2>1, <2>2, BecomingStory
  <1> QED
    BY <1>1, <1>2 DEF Touched

-----------------------------------------------------------------------------
(* Histories, when the informer of ScanInstances does not lag.             *)

LEMMA AtTheFinalizer ==
  ASSUME WorkerStep, at \in Unprotected
  PROVE  AddFinalizer \/ Cleanup \/ RemoveFinalizer
  <1>1. ~ \/ MarkQueued
          \/ ReadPreScanJob \/ MarkPreScanStarted \/ MarkPreScanInProgress
          \/ CreatePreScanJob \/ MarkPreScanRejected \/ MarkPreScanCompleted
          \/ MarkPreScanFailed \/ MarkPreScanRunning \/ MarkFailed
          \/ ReconcileScanPhase \/ MarkNoVMs \/ MarkRedisGaveUp \/ MarkRedisStarted
    BY DEF Unprotected, At, MarkQueued, ReadPreScanJob, MarkPreScanStarted,
       MarkPreScanInProgress, CreatePreScanJob, MarkPreScanRejected,
       MarkPreScanCompleted, MarkPreScanFailed, MarkPreScanRunning, MarkFailed,
       ReconcileScanPhase, MarkNoVMs, MarkRedisGaveUp, MarkRedisStarted
  <1>2. ~ \/ CreateRedisDeployment \/ RefetchRedisDeployment
          \/ CreateRedisService \/ RefetchRedisService
          \/ MarkRedisReady \/ MarkRedisFailed
          \/ CreateScanConfigMap \/ CreateScanSecret \/ CreateScanJob
          \/ MarkScanRejected \/ MarkScanStarted \/ MarkScanRunning \/ MarkScanFailed
          \/ UpdateReport \/ MarkCompleted \/ MarkScanCompleted \/ CreateJanitorJob
    BY DEF Unprotected, At, CreateRedisDeployment, RefetchRedisDeployment,
       CreateRedisService, RefetchRedisService, MarkRedisReady, MarkRedisFailed,
       CreateScanConfigMap, CreateScanSecret, CreateScanJob, MarkScanRejected,
       MarkScanStarted, MarkScanRunning, MarkScanFailed, UpdateReport,
       MarkCompleted, MarkScanCompleted, CreateJanitorJob
  <1> QED
    BY <1>1, <1>2 DEF WorkerStep

LEMMA StoryStep ==
  ASSUME TypeOK, InHand, Told, Fresh, Next
  PROVE  InHand' /\ Told'
  <1>1. CASE WorkerStep /\ at \notin Unprotected
    BY <1>1, WorkerInHand, WorkerTold
  <1>2. CASE WorkerStep /\ at \in Unprotected
    BY <1>2, AtTheFinalizer, FinalizerInHand, FinalizerTold
  <1>3. CASE \/ \E n \in ScanInstances : Start(n)
             \/ DeliverScanInstances \/ (\E i \in Informers : Deliver(i)) \/ Crash
    BY <1>3, ManagerInHand, ManagerTold
  <1>4. CASE \E n \in ScanInstances : Cluster(n)
    BY <1>4, ClusterTouches, TouchedInHand, TouchedTold
  <1> QED
    BY <1>1, <1>2, <1>3, <1>4 DEF Next

LEMMA StoryInit ==
  ASSUME Init
  PROVE  InHand /\ Told
  <1>1. /\ at = "idle" /\ \A n \in ScanInstances : si[n] = NoRecord
        /\ cur \in ScanInstances
    BY DEF Init
  <1>2. /\ ~NoRecord.deleting /\ ~NoRecord.finalizer /\ NoRecord.status = ""
        /\ NoRecord.conditions = {} /\ ~NoRecord.report
    BY DEF NoRecord
  <1> QED
    BY <1>1, <1>2, IdleDue, EmptyConsistent DEF InHand, Told, Unprotected

Story == TypeOK /\ InHand /\ Told

LEMMA StoryTold == Fresh => (Spec => []Story)
  <1> SUFFICES ASSUME Fresh
               PROVE  Spec => []Story
    OBVIOUS
  <1>1. Init => InHand /\ Told
    BY StoryInit
  <1>2. TypeOK /\ InHand /\ Told /\ [Next]_vars => InHand' /\ Told'
    <2>1. InHand /\ Told /\ UNCHANGED vars => InHand' /\ Told'
      BY DEF vars, InHand, Told
    <2> QED
      BY <2>1, StoryStep
  <1> QED
    BY <1>1, <1>2, TypeCorrect, PTL DEF Spec, Story

\* One step keeps the conditions and a final status of the ScanInstance that it
\* was a step of.
Forgets(n) ==
    /\ si'[n].incarnation = si[n].incarnation
    /\ \/ ~(si[n].conditions \subseteq si'[n].conditions)
       \/ si[n].status \in Terminal /\ si'[n].status # si[n].status

LEMMA FlowFinal ==
  ASSUME NEW from, from \notin Unprotected, NEW r \in Record, NEW job, NEW locations,
         NEW to, NEW s, Due(from, r), r.status \in Terminal,
         \/ PreScanFlow(from, r, job, to, s)
         \/ ScanFlow(from, r, locations, to, s)
         \/ StatusFlow(from, r, to, s)
  PROVE  s.status = r.status
  <1>1. from \in LastSteps
    BY DEF Due, Terminal
  <1>2. s = r \/ s = Adds(r, "Scanning", "Completed")
    BY <1>1 DEF LastSteps, PreScanFlow, ScanFlow, StatusFlow, RedisSteps, Claiming
  <1> QED
    BY <1>2, AddsFacts

LEMMA NothingForgotten ==
  ASSUME Story, Fresh, Next, NEW n \in ScanInstances
  PROVE  ~Forgets(n)
  <1>0. /\ TypeOK /\ InHand /\ Told /\ si \in [ScanInstances -> Record]
        /\ cur \in ScanInstances /\ si[cur] \in Record
    BY DEF Story, TypeOK
  <1>1. ASSUME si'[n].status = si[n].status, si'[n].conditions = si[n].conditions
        PROVE  ~Forgets(n)
    BY <1>1 DEF Forgets
  <1>2. CASE WorkerStep /\ at \notin Unprotected
    <2>1. PICK to, s : Flow(to, s) /\ Went(to, s)
      BY <1>0, <1>2, WorkerFlows DEF Flows
    <2>2. /\ Kept(si[cur], s) /\ si'[cur] = s
          /\ n # cur => si'[n] = si[n]
      BY <1>0, <1>2, <2>1, FlowsKept
    <2>3. si[cur].status \in Terminal => s.status = si[cur].status
      BY <1>0, <1>2, <2>1, FlowFinal DEF Told, Flow
    <2> QED
      BY <1>1, <2>2, <2>3 DEF Kept, Forgets
  <1>3. CASE WorkerStep /\ at \in Unprotected
    <2>1. CASE AddFinalizer
      <3>1. CASE si' = si
        BY <1>1, <3>1
      <3>2. ASSUME NEW r, r = [si[cur] EXCEPT !.finalizer = TRUE],
                   si' = [si EXCEPT ![cur] = r]
            PROVE  ~Forgets(n)
        <4>1. r.status = si[cur].status /\ r.conditions = si[cur].conditions
          BY <1>0, <3>2 DEF Record
        <4> QED
          BY <1>0, <1>1, <3>2, <4>1
      <3> QED
        BY <1>0, <2>1, <3>1, <3>2, AddFinalizerWrites
    <2>2. CASE Cleanup
      BY <1>1, <2>2 DEF Cleanup
    <2>3. CASE RemoveFinalizer
      <3>1. si' = si \/ si' = [si EXCEPT ![cur] = NoRecord]
        BY <1>0, <2>3, RemoveFinalizerWrites
      <3>2. si[cur].incarnation # 0 /\ NoRecord.incarnation = 0
        BY <1>0, <2>3 DEF RemoveFinalizer, At, InHand, NoRecord
      <3> QED
        BY <1>0, <1>1, <3>1, <3>2 DEF Forgets
    <2> QED
      BY <1>3, <2>1, <2>2, <2>3, AtTheFinalizer
  <1>4. CASE \/ \E m \in ScanInstances : Start(m)
             \/ DeliverScanInstances \/ (\E i \in Informers : Deliver(i)) \/ Crash
    <2>1. si' = si
      BY <1>4 DEF Start, DeliverScanInstances, Deliver, Crash, server
    <2> QED
      BY <1>1, <2>1
  <1>5. CASE \E m \in ScanInstances : Cluster(m)
    <2>1. PICK m \in ScanInstances : Touched(m)
      BY <1>5, ClusterTouches
    <2>2. CASE si' = si
      BY <1>1, <2>2
    <2>3. ASSUME NEW r, si' = [si EXCEPT ![m] = r], Becoming(m, r)
          PROVE  ~Forgets(n)
      <3>1. \/ r.status = si[m].status /\ r.conditions = si[m].conditions
            \/ r.incarnation # si[m].incarnation
        BY <1>0, <2>3, BecomingStory
      <3> QED
        BY <1>0, <1>1, <2>3, <3>1 DEF Forgets
    <2> QED
      BY <2>1, <2>2, <2>3 DEF Touched
  <1> QED
    BY <1>2, <1>3, <1>4, <1>5 DEF Next

-----------------------------------------------------------------------------
(* The same when the informers lag: what a reconciliation can lose.        *)

\* Steps from which a reconciliation may still write the status.
Deciding == Labels \ {"idle", "cleanup", "removeFinalizer", "scanCompleted", "janitor"}

\* A write keeps the conditions that are there or those of the copy; one that changes
\* the status decides, or takes back nothing.
Written(r) ==
    /\ \/ si[cur].conditions \subseteq r.conditions
       \/ copy.conditions \subseteq r.conditions
    /\ \/ r.status = si[cur].status
       \/ at \in Deciding /\ (r.status \notin Terminal \/ at' \notin Deciding)
    /\ (si[cur].deleting => si[cur].finalizer) => (r.deleting => r.finalizer)

Writes ==
    /\ cur' = cur /\ at # "idle"
    /\ at' \in Deciding => at \in Deciding
    /\ \/ si' = si /\ (at' # "idle" => copy' = copy)
       \/ \E r : /\ si' = [si EXCEPT ![cur] = r] /\ Written(r)
                 /\ at' # "idle" => copy' = r
       \/ /\ at' = "idle" /\ si[cur].incarnation # 0
          /\ si' = [si EXCEPT ![cur] = NoRecord]

LEMMA GotoWrites ==
  ASSUME NEW label, NEW c, Goto(label, c), at # "idle",
         label \in Deciding => at \in Deciding
  PROVE  /\ cur' = cur /\ (at' \in Deciding => at \in Deciding)
         /\ at' # "idle" => copy' = c /\ at' = label
  BY DEF Goto, Deciding

LEMMA QuietWrites ==
  ASSUME NEW label, at # "idle", label \in Deciding => at \in Deciding,
         Move(label) \/ Refused
  PROVE  Writes
  <1>1. si' = si
    BY DEF Move, Refused, server
  <1>2. Goto(label, copy) \/ Goto("retry", copy)
    BY DEF Move, Refused
  <1>3. "retry" \notin Deciding
    BY DEF Deciding, Labels
  <1> QED
    BY <1>1, <1>2, <1>3, GotoWrites DEF Writes

LEMMA CreateWrites ==
  ASSUME NEW kind, NEW state, NEW accepted, NEW exists, NEW rejected,
         Create(kind, state, accepted, exists, rejected), at \in Deciding \cup {"janitor"},
         {accepted, exists, rejected} \cap Deciding # {} => at \in Deciding
  PROVE  Writes
  <1>1. si' = si /\ at # "idle"
    BY DEF Create, Move, server, Deciding
  <1>2. \E l \in {accepted, exists, rejected} : Goto(l, copy)
    BY DEF Create, Move
  <1> QED
    BY <1>1, <1>2, GotoWrites DEF Writes

LEMMA AcceptedWrites ==
  ASSUME NEW label, at # "idle", label \in Deciding => at \in Deciding,
         NEW r, Accepted(r, label), Written(r)
  PROVE  Writes
  <1>1. si' = [si EXCEPT ![cur] = r] /\ Goto(label, r)
    BY DEF Accepted
  <1> QED
    BY <1>1, GotoWrites DEF Writes

LEMMA PatchConditionWrites ==
  ASSUME TypeOK, NEW label, at # "idle", label \in Deciding => at \in Deciding,
         NEW phase, NEW status, PatchCondition(phase, status, label)
  PROVE  Writes
  <1>1. CASE Move(label) \/ Refused
    BY <1>1, QuietWrites
  <1> DEFINE more == copy.conditions \cup {<<phase, status>>}
             r == [si[cur] EXCEPT !.conditions = more]
  <1>2. CASE Accepted(r, label)
    <2>1. /\ r.conditions = more /\ r.status = si[cur].status
          /\ r.deleting = si[cur].deleting /\ r.finalizer = si[cur].finalizer
      <3>1. si[cur] \in Record
        BY DEF TypeOK
      <3> HIDE DEF more
      <3> QED
        BY <3>1 DEF Record
    <2> HIDE DEF r
    <2>2. Written(r)
      BY <2>1 DEF Written
    <2> QED
      BY <1>2, <2>2, AcceptedWrites
  <1> QED
    BY <1>1, <1>2 DEF PatchCondition

LEMMA PatchStatusWrites ==
  ASSUME TypeOK, NEW label, at \in Deciding, NEW status,
         status \in Terminal => label \notin Deciding, PatchStatus(status, label)
  PROVE  Writes
  <1>0. si[cur] \in Record /\ at # "idle"
    BY DEF TypeOK, Deciding
  <1>1. CASE Refused
    BY <1>0, <1>1, QuietWrites
  <1>2. CASE Accepted(si[cur], label)
    BY <1>0, <1>2, AcceptedWrites DEF Written
  <1> DEFINE r == [si[cur] EXCEPT !.status = status]
  <1>3. CASE Accepted(r, label)
    <2>1. /\ r.conditions = si[cur].conditions /\ r.status = status
          /\ r.deleting = si[cur].deleting /\ r.finalizer = si[cur].finalizer
      BY <1>0 DEF Record
    <2> HIDE DEF r
    <2>2. at' \in Deciding => at' = label
      BY <1>3 DEF Accepted, Goto, Deciding
    <2>3. Written(r)
      BY <2>1, <2>2 DEF Written
    <2> QED
      BY <1>0, <1>3, <2>3, AcceptedWrites
  <1> QED
    BY <1>1, <1>2, <1>3 DEF PatchStatus

\* The steps about the finalizer, which read it again, and two that write another
\* field.
LEMMA FinalizerStepsWrite ==
  ASSUME TypeOK, AddFinalizer \/ Cleanup \/ RemoveFinalizer \/ MarkQueued \/ UpdateReport
  PROVE  Writes
  <1>0. si[cur] \in Record
    BY DEF TypeOK
  <1>1. CASE AddFinalizer
    <2> DEFINE r == [si[cur] EXCEPT !.finalizer = TRUE]
    <2>1. r.conditions = si[cur].conditions /\ r.status = si[cur].status /\ r.finalizer
      BY <1>0 DEF Record
    <2>2. /\ Accepted(r, AfterFinalizer(r)) \/ Refused \/ Move("retry")
          /\ at \in Deciding /\ at # "idle"
      BY <1>1 DEF AddFinalizer, At, AtVersion, Deciding, Labels
    <2> HIDE DEF r
    <2>3. Written(r)
      BY <2>1 DEF Written
    <2> QED
      BY <2>2, <2>3, AcceptedWrites, QuietWrites
  <1>2. CASE Cleanup
    <2>1. /\ si' = si /\ at = "cleanup"
          /\ Goto("removeFinalizer", copy) \/ Goto("retry", copy)
      BY <1>2 DEF Cleanup, At
    <2>2. "removeFinalizer" \notin Deciding /\ "retry" \notin Deciding
      BY DEF Deciding, Labels
    <2> QED
      BY <2>1, <2>2, GotoWrites DEF Writes
  <1>3. CASE RemoveFinalizer
    <2>0. at = "removeFinalizer" /\ "idle" \notin Deciding /\ "retry" \notin Deciding
      BY <1>3 DEF RemoveFinalizer, At, Deciding, Labels
    <2>1. CASE Move("idle") \/ Move("retry") \/ Refused
      BY <2>0, <2>1, QuietWrites
    <2>2. CASE si[cur].deleting /\ Accepted(NoRecord, "idle")
      BY <2>0, <2>2 DEF Accepted, Goto, Writes, Deciding
    <2> DEFINE r == [si[cur] EXCEPT !.finalizer = FALSE]
    <2>3. CASE ~si[cur].deleting /\ Accepted(r, "idle")
      <3>1. /\ r.conditions = si[cur].conditions /\ r.status = si[cur].status
            /\ ~r.deleting
        BY <1>0, <2>3 DEF Record
      <3> HIDE DEF r
      <3>2. Written(r)
        BY <3>1 DEF Written
      <3> QED
        BY <2>0, <2>3, <3>2, AcceptedWrites
    <2> QED
      BY <1>3, <2>1, <2>2, <2>3 DEF RemoveFinalizer, AtVersion
  <1>4. CASE MarkQueued
    <2> DEFINE r == [si[cur] EXCEPT !.status = "Queued"]
    <2>1. /\ r.conditions = si[cur].conditions /\ r.status = "Queued"
          /\ r.deleting = si[cur].deleting /\ r.finalizer = si[cur].finalizer
      BY <1>0 DEF Record
    <2>2. /\ Accepted(r, Route(r)) \/ Refused
          /\ at \in Deciding /\ at # "idle"
      BY <1>4 DEF MarkQueued, At, Deciding, Labels
    <2> HIDE DEF r
    <2>3. Written(r)
      BY <2>1, <2>2 DEF Written, Terminal
    <2> QED
      BY <2>2, <2>3, AcceptedWrites, QuietWrites
  <1>5. CASE UpdateReport
    <2> DEFINE r == [si[cur] EXCEPT !.report = TRUE]
    <2>1. /\ r.conditions = si[cur].conditions /\ r.status = si[cur].status
          /\ r.deleting = si[cur].deleting /\ r.finalizer = si[cur].finalizer
      BY <1>0 DEF Record
    <2>2. /\ Accepted(r, "completedLocked") \/ Refused \/ Move("retry")
          /\ at \in Deciding /\ at # "idle"
      BY <1>5 DEF UpdateReport, At, AtVersion, Deciding, Labels
    <2> HIDE DEF r
    <2>3. Written(r)
      BY <2>1 DEF Written
    <2> QED
      BY <2>2, <2>3, AcceptedWrites, QuietWrites
  <1> QED
    BY <1>1, <1>2, <1>3, <1>4, <1>5

LEMMA StatusStepsWrite ==
  ASSUME TypeOK,
         \/ MarkPreScanInProgress \/ MarkPreScanRunning \/ MarkScanRunning
         \/ MarkFailed \/ MarkNoVMs \/ MarkRedisGaveUp \/ MarkCompleted
  PROVE  Writes
  <1>1. /\ {"preScanInProgress", "preScanRunning", "preScanOverdue", "scanRunning",
            "scanOverdue", "failed", "failedRetry", "noVMs", "redisGaveUp",
            "completed", "completedLocked"} \subseteq Deciding
        /\ {"idle", "retry", "scanCompleted"} \cap Deciding = {}
        /\ "InProgress" \notin Terminal
    BY DEF Deciding, Labels, Terminal
  <1>2. at \in Deciding /\ at # "idle"
    BY <1>1 DEF MarkPreScanInProgress, MarkPreScanRunning, MarkScanRunning, MarkFailed,
       MarkNoVMs, MarkRedisGaveUp, MarkCompleted, At
  <1>3. \/ \E label : Move(label)
        \/ \E label : PatchStatus("InProgress", label)
        \/ \E label \in {"idle", "retry", "scanCompleted"}, status \in Terminal :
              PatchStatus(status, label)
    BY DEF MarkPreScanInProgress, MarkPreScanRunning, MarkScanRunning, MarkFailed,
       MarkNoVMs, MarkRedisGaveUp, MarkCompleted, AtVersion, Terminal
  <1> QED
    BY <1>1, <1>2, <1>3, QuietWrites, PatchStatusWrites

LEMMA ConditionStepsWrite ==
  ASSUME TypeOK,
         \/ MarkPreScanStarted \/ MarkPreScanRejected \/ MarkPreScanCompleted
         \/ MarkPreScanFailed \/ MarkRedisStarted \/ MarkRedisReady \/ MarkRedisFailed
         \/ MarkScanRejected \/ MarkScanStarted \/ MarkScanFailed \/ MarkScanCompleted
  PROVE  Writes
  <1>1. /\ {"preScanStarted", "preScanRejected", "preScanCompleted", "preScanFailed",
            "redisStarted", "redisReady", "redisFailed", "scanRejected", "scanStarted",
            "scanFailed"} \subseteq Deciding
        /\ "janitor" \notin Deciding
    BY DEF Deciding, Labels
  <1>2. CASE MarkScanCompleted
    <2>1. at = "scanCompleted" /\ PatchCondition("Scanning", "Completed", "janitor")
      BY <1>2 DEF MarkScanCompleted, At
    <2> QED
      BY <1>1, <2>1, PatchConditionWrites
  <1>3. CASE ~MarkScanCompleted
    <2>1. at \in Deciding /\ at # "idle"
      BY <1>1, <1>3 DEF MarkPreScanStarted, MarkPreScanRejected, MarkPreScanCompleted,
         MarkPreScanFailed, MarkRedisStarted, MarkRedisReady, MarkRedisFailed,
         MarkScanRejected, MarkScanStarted, MarkScanFailed, At
    <2>2. \E label : \/ Move(label)
                     \/ \E phase, status : PatchCondition(phase, status, label)
      BY <1>3 DEF MarkPreScanStarted, MarkPreScanRejected, MarkPreScanCompleted,
         MarkPreScanFailed, MarkRedisStarted, MarkRedisReady, MarkRedisFailed,
         MarkScanRejected, MarkScanStarted, MarkScanFailed
    <2> QED
      BY <2>1, <2>2, QuietWrites, PatchConditionWrites
  <1> QED
    BY <1>2, <1>3

LEMMA ObjectStepsWrite ==
  ASSUME TypeOK,
         \/ ReadPreScanJob \/ CreatePreScanJob \/ ReconcileScanPhase
         \/ CreateRedisDeployment \/ RefetchRedisDeployment
         \/ CreateRedisService \/ RefetchRedisService
         \/ CreateScanConfigMap \/ CreateScanSecret \/ CreateScanJob \/ CreateJanitorJob
  PROVE  Writes
  <1>1. /\ {"preScan", "createPreScanJob", "scanPhase", "redis", "redisExists", "service",
            "serviceReady", "serviceExists", "serviceReadyExists", "configMap", "secret",
            "scanJob"} \subseteq Deciding
        /\ "idle" \notin Deciding
    BY DEF Deciding, Labels
  <1>2. CASE CreateJanitorJob
    <2>1. at = "janitor"
      BY <1>2 DEF CreateJanitorJob, At
    <2>2. \/ Move("idle") \/ Create("janitor", "new", "idle", "idle", "idle")
      BY <1>2 DEF CreateJanitorJob
    <2> QED
      BY <1>1, <2>1, <2>2, QuietWrites, CreateWrites
  <1>3. CASE ~CreateJanitorJob
    <2>1. at \in Deciding /\ at # "idle"
      BY <1>1, <1>3 DEF ReadPreScanJob, CreatePreScanJob, ReconcileScanPhase,
         CreateRedisDeployment, RefetchRedisDeployment, CreateRedisService,
         RefetchRedisService, CreateScanConfigMap, CreateScanSecret, CreateScanJob, At
    <2>2. \/ \E label : Move(label)
          \/ \E k, s, l1, l2, l3 : Create(k, s, l1, l2, l3)
      BY <1>3 DEF ReadPreScanJob, CreatePreScanJob, ReconcileScanPhase,
         CreateRedisDeployment, RefetchRedisDeployment, CreateRedisService,
         RefetchRedisService, CreateScanConfigMap, CreateScanSecret, CreateScanJob
    <2> QED
      BY <2>1, <2>2, QuietWrites, CreateWrites
  <1> QED
    BY <1>2, <1>3

LEMMA WorkerWrites ==
  ASSUME TypeOK, WorkerStep
  PROVE  Writes
  BY FinalizerStepsWrite, StatusStepsWrite, ConditionStepsWrite, ObjectStepsWrite
  DEF WorkerStep

-----------------------------------------------------------------------------
\* What is deleted waits for its finalizer, in every copy.
Guarded ==
    \A n \in ScanInstances :
        /\ si[n].deleting => si[n].finalizer
        /\ siCache[n].deleting => siCache[n].finalizer

\* A reconciliation knows what there is but for what it began without, also where an
\* answer of the API server has told it more since.
Recalled ==
    at # "idle" =>
        /\ si[cur].conditions \subseteq copy.conditions \cup unread
        /\ si[cur].status \in Terminal =>
              \/ si[cur].status = copy.status
              \/ <<"Status", si[cur].status>> \in unread
        /\ at \in Deciding /\ copy.status \in Terminal =>
              <<"Status", copy.status>> \in unread

\* A step loses nothing that was read.
LosesUnread(n) ==
    si'[n].incarnation = si[n].incarnation =>
        /\ si[n].conditions \ si'[n].conditions
              \subseteq IF n = cur THEN unread ELSE {}
        /\ si[n].status \in Terminal /\ si'[n].status # si[n].status =>
              n = cur /\ <<"Status", si[n].status>> \in unread

Remembers == Recalled' /\ Guarded' /\ \A n \in ScanInstances : LosesUnread(n)

LEMMA WritesRemember ==
  ASSUME TypeOK, Recalled, Guarded, Writes, siCache' = siCache,
         at' # "idle" => unread' = unread
  PROVE  Remembers
  <1>0. /\ si \in [ScanInstances -> Record] /\ cur \in ScanInstances /\ cur' = cur
        /\ at # "idle" /\ (at' \in Deciding => at \in Deciding)
    BY DEF TypeOK, Writes
  <1>1. CASE si' = si /\ (at' # "idle" => copy' = copy)
    BY <1>0, <1>1 DEF Remembers, Recalled, Guarded, LosesUnread
  <1>2. ASSUME NEW r, si' = [si EXCEPT ![cur] = r], Written(r), at' # "idle" => copy' = r
        PROVE  Remembers
    <2>1. si'[cur] = r /\ \A n \in ScanInstances \ {cur} : si'[n] = si[n]
      BY <1>0, <1>2
    <2>2. Guarded'
      BY <1>2, <2>1 DEF Guarded, Written
    <2>3. \/ r.status = si[cur].status
          \/ r.status \notin Terminal \/ at' \notin Deciding
      BY <1>2 DEF Written
    <2>4. Recalled'
      BY <1>0, <1>2, <2>1, <2>3 DEF Recalled
    <2>5. LosesUnread(cur)
      BY <1>0, <1>2, <2>1 DEF LosesUnread, Recalled, Written
    <2> QED
      BY <1>0, <2>1, <2>2, <2>4, <2>5 DEF Remembers, LosesUnread
  <1>3. CASE /\ at' = "idle" /\ si[cur].incarnation # 0
             /\ si' = [si EXCEPT ![cur] = NoRecord]
    <2>1. NoRecord.incarnation = 0 /\ ~NoRecord.deleting
      BY DEF NoRecord
    <2>2. si'[cur] = NoRecord /\ \A n \in ScanInstances \ {cur} : si'[n] = si[n]
      BY <1>0, <1>3
    <2> QED
      BY <1>0, <1>3, <2>1, <2>2 DEF Remembers, Recalled, Guarded, LosesUnread
  <1> QED
    BY <1>1, <1>2, <1>3 DEF Writes

\* A reconciliation begins with what it does not know.
LEMMA StartRemembers ==
  ASSUME TypeOK, Guarded, NEW n \in ScanInstances, Start(n),
         at' # "idle" => unread' = Unseen(cur')
  PROVE  Remembers
  <1>1. /\ si' = si /\ siCache' = siCache /\ cur' = n /\ at' = FirstStep(siCache[n])
        /\ at' # "idle" => copy' = siCache[n]
    BY DEF Start, server, caches
  <1>2. /\ siCache[n].conditions \subseteq Conditions
        /\ si[n].conditions \subseteq Conditions
        /\ siCache[n].deleting => siCache[n].finalizer
    BY DEF TypeOK, Record, Guarded
  <1>3. \A s : <<"Status", s>> \notin Conditions
    BY DEF Conditions
  <1>4. ASSUME at' # "idle"
        PROVE  /\ si[n].conditions \subseteq siCache[n].conditions \cup unread'
               /\ \/ si[n].status = siCache[n].status
                  \/ <<"Status", si[n].status>> \in unread'
    <2>1. unread' = Facts(si[n]) \ Facts(siCache[n])
      BY <1>1, <1>4 DEF Unseen
    <2>2. ASSUME NEW c \in si[n].conditions, c \notin siCache[n].conditions
          PROVE  c \in unread'
      BY <1>2, <1>3, <2>1, <2>2 DEF Facts
    <2>3. ASSUME si[n].status # siCache[n].status
          PROVE  <<"Status", si[n].status>> \in unread'
      BY <1>2, <1>3, <2>1, <2>3 DEF Facts
    <2> QED
      BY <2>2, <2>3
  <1>5. at' \in Deciding => siCache[n].status \notin Terminal
    BY <1>1, <1>2 DEF FirstStep, Deciding
  <1>6. Recalled'
    BY <1>1, <1>4, <1>5 DEF Recalled, Deciding
  <1> QED
    BY <1>1, <1>6 DEF Remembers, Guarded, LosesUnread

\* A ScanInstance that users have just created, and the place of none.
LEMMA BlankRecords ==
  ASSUME NEW r, r = NoRecord \/ \E i : r = [NoRecord EXCEPT !.incarnation = i]
  PROVE  r.status \notin Terminal /\ r.conditions = {} /\ ~r.deleting
  <1>1. r.status = "" /\ r.conditions = {} /\ ~r.deleting
    <2>1. CASE r = NoRecord
      BY <2>1, Zenon DEF NoRecord
    <2>2. ASSUME NEW i, r = [NoRecord EXCEPT !.incarnation = i]
          PROVE  r.status = "" /\ r.conditions = {} /\ ~r.deleting
      BY <2>2, Zenon DEF NoRecord
    <2> QED
      BY <2>1, <2>2, Zenon
  <1>2. "" \notin Terminal
    BY Zenon DEF Terminal
  <1> QED
    BY <1>1, <1>2, Zenon

LEMMA TouchedRemembers ==
  ASSUME TypeOK, Recalled, Guarded, NEW n \in ScanInstances, Touched(n),
         UNCHANGED <<siCache, worker>>, at' # "idle" => unread' = unread
  PROVE  Remembers
  <1>0. /\ si \in [ScanInstances -> Record] /\ si[n] \in Record /\ created[n] \in Nat
        /\ cur \in ScanInstances /\ cur' = cur /\ at' = at /\ copy' = copy
        /\ siCache' = siCache
    BY DEF TypeOK, worker
  <1>1. CASE si' = si
    BY <1>0, <1>1 DEF Remembers, Recalled, Guarded, LosesUnread
  <1>2. ASSUME NEW r, si' = [si EXCEPT ![n] = r], Becoming(n, r)
        PROVE  Remembers
    <2>1. /\ \/ r.status = si[n].status /\ r.conditions = si[n].conditions
             \/ /\ r.status \notin Terminal /\ r.conditions = {}
                /\ r.incarnation # si[n].incarnation
          /\ r.deleting => r.finalizer
      <3>1. CASE si[n].incarnation = 0 /\ r = [NoRecord EXCEPT !.incarnation = created[n] + 1]
        <4> DEFINE i == created[n] + 1
        <4>1. i # 0 /\ r = [NoRecord EXCEPT !.incarnation = i]
          BY <1>0, <3>1
        <4> HIDE DEF i
        <4>2. r.incarnation = i
          BY <4>1, Zenon DEF NoRecord
        <4> QED
          BY <3>1, <4>1, <4>2, BlankRecords
      <3>2. CASE si[n].finalizer /\ r = [si[n] EXCEPT !.deleting = TRUE]
        BY <1>0, <3>2 DEF Record
      <3>3. CASE \E l \in {"none", "some"} : r = [si[n] EXCEPT !.locations = l]
        BY <1>0, <3>3 DEF Record, Guarded
      <3>4. CASE si[n].incarnation # 0 /\ r = NoRecord
        <4>1. NoRecord.incarnation = 0
          BY Zenon DEF NoRecord
        <4> QED
          BY <3>4, <4>1, BlankRecords
      <3> QED
        BY <1>2, <3>1, <3>2, <3>3, <3>4 DEF Becoming
    <2>2. si'[n] = r /\ \A m \in ScanInstances \ {n} : si'[m] = si[m]
      BY <1>0, <1>2
    <2>3. Guarded'
      BY <1>0, <2>1, <2>2 DEF Guarded
    <2>4. Recalled'
      BY <1>0, <2>1, <2>2 DEF Recalled
    <2>5. \A m \in ScanInstances : LosesUnread(m)
      BY <2>1, <2>2 DEF LosesUnread
    <2> QED
      BY <2>3, <2>4, <2>5 DEF Remembers
  <1> QED
    BY <1>1, <1>2 DEF Touched

LEMMA RecalledStep ==
  ASSUME TypeOK, Recalled, Guarded, HistoryNext
  PROVE  Remembers
  <1>0. /\ Next
        /\ at # "idle" /\ at' # "idle" => unread' = unread
        /\ at = "idle" /\ at' # "idle" => unread' = Unseen(cur')
    BY DEF HistoryNext, Remember
  <1>1. CASE \E n \in ScanInstances : Start(n)
    <2>1. PICK n \in ScanInstances : Start(n)
      BY <1>1
    <2>2. at = "idle"
      BY <2>1 DEF Start, At
    <2> QED
      BY <1>0, <2>1, <2>2, StartRemembers
  <1>2. CASE WorkerStep
    <2>1. Writes /\ siCache' = siCache
      BY <1>2, WorkerWrites, WorkerReads DEF caches
    <2> QED
      BY <1>0, <2>1, WritesRemember DEF Writes
  <1>3. CASE DeliverScanInstances \/ (\E i \in Informers : Deliver(i)) \/ Crash
    <2>1. /\ si' = si /\ siCache' \in {siCache, si} /\ cur' = cur
          /\ at' = "idle" \/ (at' = at /\ copy' = copy)
      BY <1>3 DEF DeliverScanInstances, Deliver, Crash, server, worker
    <2>2. Guarded' /\ \A n \in ScanInstances : LosesUnread(n)
      BY <2>1 DEF Guarded, LosesUnread
    <2>3. Recalled'
      BY <1>0, <2>1 DEF Recalled
    <2> QED
      BY <2>2, <2>3 DEF Remembers
  <1>4. CASE \E n \in ScanInstances : Cluster(n)
    <2>1. PICK n \in ScanInstances : Cluster(n)
      BY <1>4
    <2>2. Touched(n) /\ UNCHANGED <<siCache, worker>>
      BY <2>1, ClusterTouches, ClusterQuiet DEF caches
    <2>3. at' # "idle" => unread' = unread
      BY <1>0, <2>2 DEF worker
    <2> QED
      BY <2>2, <2>3, TouchedRemembers
  <1> QED
    BY <1>0, <1>1, <1>2, <1>3, <1>4 DEF Next

LEMMA RecalledInit ==
  ASSUME Init
  PROVE  Recalled /\ Guarded
  <1>1. ~NoRecord.deleting
    BY BlankRecords
  <1> QED
    BY <1>1 DEF Init, Recalled, Guarded

LEMMA RecalledAlways == HistorySpec => [](TypeOK /\ Recalled /\ Guarded)
  <1>1. HistoryInit => Recalled /\ Guarded
    BY RecalledInit DEF HistoryInit
  <1>2. TypeOK /\ Recalled /\ Guarded /\ [HistoryNext]_<<vars, memory>>
           => Recalled' /\ Guarded'
    <2>1. Recalled /\ Guarded /\ UNCHANGED <<vars, memory>> => Recalled' /\ Guarded'
      BY DEF vars, memory, Recalled, Guarded
    <2> QED
      BY <2>1, RecalledStep DEF Remembers
  <1> QED
    BY <1>1, <1>2, HistoryTyped, PTL DEF HistorySpec

\* Each condition that a patch of the list loses is one the reconciliation began
\* without having read: however far the informers lag behind, after refused writes,
\* restarts, deletions or a second use of the name.
THEOREM ConditionsKept == HistorySpec => ForgetsOnlyUnread
  <1> DEFINE Keeps ==
        \A n \in ScanInstances :
           si'[n].incarnation = si[n].incarnation =>
               si[n].conditions \ si'[n].conditions
                   \subseteq IF n = cur THEN unread ELSE {}
  <1>1. ASSUME TypeOK /\ Recalled /\ Guarded, [HistoryNext]_<<vars, memory>>
        PROVE  [Keeps]_vars
    BY <1>1, RecalledStep DEF Remembers, LosesUnread
  <1> QED
    BY <1>1, RecalledAlways, PTL DEF HistorySpec, ForgetsOnlyUnread

\* A Completed or Failed ScanInstance stays so whatever job, deployment or retry comes
\* late, and whatever lags, unless a reconciliation is under way that began on a copy
\* without that status.
THEOREM StatusKept == HistorySpec => ReopensOnlyUnread
  <1> DEFINE Final ==
        \A n \in ScanInstances :
           /\ si'[n].incarnation = si[n].incarnation
           /\ si[n].status \in Terminal
           /\ si'[n].status # si[n].status
           => n = cur /\ <<"Status", si[n].status>> \in unread
  <1>1. ASSUME TypeOK /\ Recalled /\ Guarded, [HistoryNext]_<<vars, memory>>
        PROVE  [Final]_vars
    BY <1>1, RecalledStep DEF Remembers, LosesUnread
  <1> QED
    BY <1>1, RecalledAlways, PTL DEF HistorySpec, ReopensOnlyUnread

-----------------------------------------------------------------------------
(* Objects: who makes them, and what comes back.                           *)

LEMMA CreateMakes ==
  ASSUME TypeOK, NEW kind \in Kinds, NEW state, NEW accepted, NEW exists, NEW rejected,
         Create(kind, state, accepted, exists, rejected), NEW n \in ScanInstances,
         NEW k \in Kinds
  PROVE  res'[n][k] = res[n][k] \/ (n = cur /\ k = kind /\ res[n][k] = NoObject)
  BY DEF TypeOK, Create, Move, server

\* Jobs of the two first kinds are made by one step each.
LEMMA WorkerMakes ==
  ASSUME TypeOK, WorkerStep, NEW n \in ScanInstances, NEW k \in {"preScan", "scan"}
  PROVE  \/ res'[n][k] \in {res[n][k], NoObject}
         \/ /\ n = cur /\ res[n][k] = NoObject
            /\ at = IF k = "preScan" THEN "createPreScanJob" ELSE "scanJob"
            /\ k = "preScan" => CreatePreScanJob
  <1>0. {"preScan", "scan", "janitor", "redis", "service", "configMap", "secret"}
           \subseteq Kinds
    BY DEF Kinds, Jobs
  <1>1. CASE \/ AddFinalizer \/ RemoveFinalizer \/ MarkQueued
             \/ ReadPreScanJob \/ MarkPreScanStarted \/ MarkPreScanInProgress
             \/ MarkPreScanRejected \/ MarkPreScanCompleted
             \/ MarkPreScanFailed \/ MarkPreScanRunning \/ MarkFailed
    BY <1>1 DEF AddFinalizer, RemoveFinalizer, MarkQueued, ReadPreScanJob,
       MarkPreScanStarted, MarkPreScanInProgress, MarkPreScanRejected,
       MarkPreScanCompleted, MarkPreScanFailed, MarkPreScanRunning, MarkFailed,
       AtVersion, Accepted, Refused, Move, PatchStatus, PatchCondition, server
  <1>2. CASE \/ ReconcileScanPhase \/ MarkNoVMs \/ MarkRedisGaveUp \/ MarkRedisStarted
             \/ RefetchRedisDeployment \/ RefetchRedisService
             \/ MarkRedisReady \/ MarkRedisFailed
    BY <1>2 DEF ReconcileScanPhase, MarkNoVMs, MarkRedisGaveUp, MarkRedisStarted,
       RefetchRedisDeployment, RefetchRedisService, MarkRedisReady, MarkRedisFailed,
       Accepted, Refused, Move, PatchStatus, PatchCondition, server
  <1>3. CASE \/ MarkScanRejected \/ MarkScanStarted \/ MarkScanRunning \/ MarkScanFailed
             \/ UpdateReport \/ MarkCompleted \/ MarkScanCompleted
    BY <1>3 DEF MarkScanRejected, MarkScanStarted, MarkScanRunning, MarkScanFailed,
       UpdateReport, MarkCompleted, MarkScanCompleted,
       AtVersion, Accepted, Refused, Move, PatchStatus, PatchCondition, server
  <1>4. CASE Cleanup
    <2>1. PICK kinds : res' = Deleted(cur, kinds)
      BY <1>4 DEF Cleanup
    <2> QED
      BY <1>0, <2>1 DEF Deleted, TypeOK
  <1>5. CASE \/ CreateRedisDeployment \/ CreateRedisService
             \/ CreateScanConfigMap \/ CreateScanSecret \/ CreateJanitorJob
    <2>1. \/ res' = res
          \/ \E kind \in Kinds \ {"preScan", "scan"} :
                \E state, accepted, exists, rejected :
                   Create(kind, state, accepted, exists, rejected)
      BY <1>0, <1>5 DEF CreateRedisDeployment, CreateRedisService, CreateScanConfigMap,
         CreateScanSecret, CreateJanitorJob, Move, server
    <2> QED
      BY <1>0, <2>1, CreateMakes
  <1>6. CASE CreateScanJob
    <2>1. /\ at = "scanJob"
          /\ \/ res' = res
             \/ Create("scan", "new", "scanStarted", "scanRejected", "scanRejected")
      BY <1>6 DEF CreateScanJob, At, Move, server
    <2> QED
      BY <1>0, <2>1, CreateMakes
  <1>7. CASE CreatePreScanJob
    <2>1. /\ at = "createPreScanJob"
          /\ Create("preScan", "new", "idle", "preScanRejected", "preScanRejected")
      BY <1>7 DEF CreatePreScanJob, At
    <2> QED
      BY <1>0, <1>7, <2>1, CreateMakes
  <1> QED
    BY <1>1, <1>2, <1>3, <1>4, <1>5, <1>6, <1>7 DEF WorkerStep

\* At the look at the pre-scan job nothing else is done.
LEMMA OnlyReads ==
  ASSUME WorkerStep, at = "preScan"
  PROVE  ReadPreScanJob
  <1>1. ~ \/ AddFinalizer \/ Cleanup \/ RemoveFinalizer \/ MarkQueued
          \/ MarkPreScanStarted \/ MarkPreScanInProgress
          \/ CreatePreScanJob \/ MarkPreScanRejected \/ MarkPreScanCompleted
          \/ MarkPreScanFailed \/ MarkPreScanRunning \/ MarkFailed
          \/ ReconcileScanPhase \/ MarkNoVMs \/ MarkRedisGaveUp \/ MarkRedisStarted
    BY DEF AddFinalizer, Cleanup, RemoveFinalizer, MarkQueued, At, MarkPreScanStarted,
       MarkPreScanInProgress, CreatePreScanJob, MarkPreScanRejected,
       MarkPreScanCompleted, MarkPreScanFailed, MarkPreScanRunning, MarkFailed,
       ReconcileScanPhase, MarkNoVMs, MarkRedisGaveUp, MarkRedisStarted
  <1>2. ~ \/ CreateRedisDeployment \/ RefetchRedisDeployment
          \/ CreateRedisService \/ RefetchRedisService
          \/ MarkRedisReady \/ MarkRedisFailed
          \/ CreateScanConfigMap \/ CreateScanSecret \/ CreateScanJob
          \/ MarkScanRejected \/ MarkScanStarted \/ MarkScanRunning \/ MarkScanFailed
          \/ UpdateReport \/ MarkCompleted \/ MarkScanCompleted \/ CreateJanitorJob
    BY DEF At, CreateRedisDeployment, RefetchRedisDeployment,
       CreateRedisService, RefetchRedisService, MarkRedisReady, MarkRedisFailed,
       CreateScanConfigMap, CreateScanSecret, CreateScanJob, MarkScanRejected,
       MarkScanStarted, MarkScanRunning, MarkScanFailed, UpdateReport,
       MarkCompleted, MarkScanCompleted, CreateJanitorJob
  <1> QED
    BY <1>1, <1>2 DEF WorkerStep

\* Around the manager nothing comes out of nothing, and what has succeeded does
\* not go back to work.
LEMMA ClusterMakesNone ==
  ASSUME TypeOK, NEW n \in ScanInstances, Cluster(n), NEW m \in ScanInstances,
         NEW k \in Kinds, res[m][k].state \in {"absent", "succeeded"}
  PROVE  res'[m][k] \in {res[m][k], NoObject}
  <1>0. /\ res \in [ScanInstances -> [Kinds -> Object]]
        /\ "preScan" \in Kinds /\ "janitor" \in Kinds /\ "redis" \in Kinds
    BY DEF TypeOK, Kinds, Jobs
  <1>1. ASSUME NEW j, NEW o, res' = [res EXCEPT ![n] = [res[n] EXCEPT ![j] = o]],
               res[n][j].state \notin {"absent", "succeeded"} \/ o = NoObject
        PROVE  res'[m][k] \in {res[m][k], NoObject}
    BY <1>0, <1>1
  <1>2. ASSUME NEW j, NEW from, NEW to, Becomes(n, j, from, to),
               "absent" \notin from, "succeeded" \notin from
        PROVE  res'[m][k] \in {res[m][k], NoObject}
    <2> DEFINE o == [res[n][j] EXCEPT !.state = to]
    <2>1. res' = [res EXCEPT ![n] = [res[n] EXCEPT ![j] = o]]
      BY <1>2 DEF Becomes
    <2>2. res[n][j].state \notin {"absent", "succeeded"}
      BY <1>2 DEF Becomes
    <2> HIDE DEF o
    <2> QED
      BY <1>1, <2>1, <2>2
  <1>3. CASE \/ \E j \in Jobs :
                  \/ JobStarts(n, j) \/ JobBlocked(n, j) \/ JobUnblocked(n, j)
                  \/ ImageMissing(n, j) \/ ImageFound(n, j) \/ JobFails(n, j)
             \/ JobSucceeds(n) \/ RedisStarts(n)
    <2>1. PICK j, from, to :
             /\ Becomes(n, j, from, to)
             /\ from \in {{"new"}, {"blocked"}, {"blocked", "overdue"}, {"active"},
                          {"badImage"}, {"active", "reported"}, {"reported"},
                          {"starting"}}
      BY <1>3 DEF JobStarts, JobBlocked, JobUnblocked, ImageMissing, ImageFound,
                  JobFails, JobSucceeds, RedisStarts
    <2>2. "absent" \notin from /\ "succeeded" \notin from
      BY <2>1
    <2> QED
      BY <1>2, <2>1, <2>2
  <1>4. CASE UserCreate(n) \/ UserDelete(n)
    BY <1>4 DEF UserCreate, UserDelete
  <1>5. CASE PreScanReports(n)
    <2>1. /\ res[n]["preScan"].state = "active"
          /\ \E o : res' = [res EXCEPT ![n] = [res[n] EXCEPT !["preScan"] = o]]
      <3>1. CASE si[n].incarnation = 0
        <4> DEFINE o == [res[n]["preScan"] EXCEPT !.state = "failed"]
        <4>1. res' = [res EXCEPT ![n] = [res[n] EXCEPT !["preScan"] = o]]
          BY <1>5, <3>1 DEF PreScanReports
        <4> HIDE DEF o
        <4> QED
          BY <1>5, <4>1 DEF PreScanReports
      <3>2. CASE si[n].incarnation # 0
        <4> DEFINE o == [res[n]["preScan"] EXCEPT !.state = "reported"]
        <4>1. res' = [res EXCEPT ![n] = [res[n] EXCEPT !["preScan"] = o]]
          BY <1>5, <3>2 DEF PreScanReports
        <4> HIDE DEF o
        <4> QED
          BY <1>5, <4>1 DEF PreScanReports
      <3> QED
        BY <3>1, <3>2
    <2> QED
      BY <1>1, <2>1
  <1>6. CASE JanitorRuns(n)
    <2>1. PICK kinds : JanitorDone(n, kinds) /\ res[n]["janitor"].state = "active"
      BY <1>6 DEF JanitorRuns
    <2> DEFINE left == [j \in Kinds |-> IF j \in kinds THEN NoObject ELSE res[n][j]]
    <2>2. Deleted(n, kinds) = [res EXCEPT ![n] = left]
      BY DEF Deleted
    <2>3. left[k] \in {res[n][k], NoObject} /\ left \in [Kinds -> Object]
      BY <1>0, NoObjectType
    <2> HIDE DEF left
    <2> DEFINE o == [left["janitor"] EXCEPT !.state = "succeeded"]
    <2>4. res' = [res EXCEPT ![n] = [left EXCEPT !["janitor"] = o]]
      BY <1>0, <2>1, <2>2 DEF JanitorDone
    <2> HIDE DEF o
    <2>5. m = n => k # "janitor"
      BY <2>1
    <2> QED
      BY <1>0, <2>3, <2>4, <2>5
  <1>7. CASE RedisRestarts(n)
    <2> DEFINE o == [res[n]["redis"] EXCEPT !.state = "starting"]
    <2>1. /\ res[n]["redis"].state = "ready"
          /\ res' = [res EXCEPT ![n] = [res[n] EXCEPT !["redis"] = o]]
      BY <1>7 DEF RedisRestarts
    <2> HIDE DEF o
    <2> QED
      BY <1>1, <2>1
  <1>8. CASE JanitorExpires(n) \/ \E j \in Kinds : GarbageCollect(n, j)
    <2>1. PICK j : res' = [res EXCEPT ![n] = [res[n] EXCEPT ![j] = NoObject]]
      BY <1>8 DEF JanitorExpires, GarbageCollect
    <2> QED
      BY <1>1, <2>1
  <1> QED
    BY <1>3, <1>4, <1>5, <1>6, <1>7, <1>8 DEF Cluster

LEMMA NoSecondScan ==
  ASSUME Story, [Next]_vars, NEW n \in ScanInstances,
         res[n]["scan"] = NoObject, res'[n]["scan"] # NoObject
  PROVE  \A c \in si[n].conditions : c[1] # "Scanning"
  <1>1. TypeOK /\ Told /\ "scan" \in Kinds /\ NoObject.state = "absent"
    BY DEF Story, Kinds, Jobs, NoObject
  <1>2. ~ \E m \in ScanInstances : Cluster(m)
    BY <1>1, ClusterMakesNone
  <1>3. res' # res
    OBVIOUS
  <1>4. WorkerStep
    BY <1>2, <1>3 DEF Next, vars, Start, DeliverScanInstances, Deliver, Crash, server
  <1>5. n = cur /\ at \in Claiming
    BY <1>1, <1>4, WorkerMakes DEF Claiming
  <1> QED
    BY <1>1, <1>5 DEF Told, Due, Entered

\* If the informer of ScanInstances is not behind, a scan job is created only for a
\* ScanInstance that has entered no scanning phase, so that none is scanned twice,
\* whatever became of its first job.
THEOREM OneScanEach == Fresh => (Spec => ScannedOnce)
  <1> SUFFICES ASSUME Fresh
               PROVE  Spec => ScannedOnce
    OBVIOUS
  <1> DEFINE Once ==
        \A n \in ScanInstances :
           res[n]["scan"] = NoObject /\ res'[n]["scan"] # NoObject
           => \A c \in si[n].conditions : c[1] # "Scanning"
  <1>1. ASSUME Story, [Next]_vars
        PROVE  [Once]_vars
    BY <1>1, NoSecondScan
  <1> QED
    BY <1>1, StoryTold, PTL DEF Spec, ScannedOnce

-----------------------------------------------------------------------------
(* The evidence, when the informer of jobs does not lag either.            *)

\* After the pre-scan its job does not report again, so that the locations stay
\* what the scan phase goes by, and a completion has no failed phase behind it.
Placed ==
    /\ \A n \in ScanInstances :
          /\ Has(si[n], "PreScan", "Completed") \/ (at = "preScanCompleted" /\ cur = n)
             => res[n]["preScan"].state \in {"absent", "succeeded"}
          /\ Entered(si[n], "RedisDeployment") => si[n].locations = "some"
          /\ si[n].status = "Completed" =>
                ~FailedOnce(si[n]) /\ Has(si[n], "PreScan", "Completed")
    /\ at \notin Unprotected /\ Has(si[cur], "PreScan", "Completed") =>
          copy.locations = si[cur].locations
    /\ at = "noVMs" => si[cur].locations # "some"
    /\ at \in RedisSteps \cup {"redisStarted"} => si[cur].locations = "some"

\* Of names that are used once: a pre-scan job that the cache shows as succeeded is
\* the first and last of its ScanInstance, however old the cache is.
Seen ==
    \A n \in ScanInstances :
       /\ created[n] = 0 =>
             /\ si[n].incarnation = 0
             /\ res[n]["preScan"] = NoObject /\ resCache[n]["preScan"] = NoObject
       /\ si[n].incarnation # 0 /\ resCache[n]["preScan"].state = "succeeded" =>
             Known(si[n]) /\ res[n]["preScan"].state \in {"absent", "succeeded"}

\* It has that from the jobs themselves.
Answered ==
    /\ \A n \in ScanInstances :
          si[n].incarnation # 0 /\ res[n]["preScan"].state = "succeeded" => Known(si[n])
    /\ at = "createPreScanJob" /\ Known(si[cur]) => res[cur]["preScan"] # NoObject

\* Any of the ways past the finalizer.
Ways(from, r, job, locations, to, s) ==
    \/ PreScanFlow(from, r, job, to, s)
    \/ ScanFlow(from, r, locations, to, s)
    \/ StatusFlow(from, r, to, s)

LEMMA NoneFailed ==
  ASSUME NEW r \in Record, ~Has(r, "PreScan", "Failed"),
         ~Has(r, "RedisDeployment", "Failed"), ~Has(r, "Scanning", "Failed")
  PROVE  ~FailedOnce(r)
  <1>1. \A c \in r.conditions :
           c = <<c[1], c[2]>> /\ c[1] \in {"PreScan", "RedisDeployment", "Scanning"}
    BY DEF Record, Conditions
  <1> QED
    BY <1>1 DEF FailedOnce, Has

\* What a step past the finalizer may newly say, and from where.
LEMMA FlowNews ==
  ASSUME NEW from, from \notin Unprotected, NEW r \in Record, NEW job, NEW locations,
         NEW to, NEW s,
         Ways(from, r, job, locations, to, s)
  PROVE  /\ Has(s, "PreScan", "Completed") =>
               Has(r, "PreScan", "Completed") \/ from = "preScanCompleted"
         /\ to = "preScanCompleted" => from = "preScan" /\ job = "succeeded"
         /\ Entered(s, "RedisDeployment") =>
               Entered(r, "RedisDeployment") \/ from \in RedisSteps \cup {"redisStarted"}
         /\ to = "noVMs" => from = "scanPhase" /\ locations # "some"
         /\ to \in RedisSteps \cup {"redisStarted"} =>
               \/ from = "scanPhase" /\ locations = "some"
               \/ from \in RedisSteps \cup {"redisStarted"}
         /\ s.status = "Completed" =>
               \/ r.status = "Completed"
               \/ from \in {"noVMs", "completed", "completedLocked"}
  <1> USE DEF Unprotected, RedisSteps, Claiming
  <1>1. CASE PreScanFlow(from, r, job, to, s)
    <2>1. /\ to \notin RedisSteps \cup {"redisStarted", "noVMs"}
          /\ to = "preScanCompleted" => from = "preScan" /\ job = "succeeded"
      BY <1>1, RouteAway DEF PreScanFlow
    <2>2. \/ s = r
          \/ \E t \in {"Queued", "InProgress"} : s = Sets(r, t)
          \/ \E t \in {"InProgress", "Failed"} : s = Adds(r, "PreScan", t)
          \/ from = "preScanCompleted" /\ s = Adds(r, "PreScan", "Completed")
      BY <1>1 DEF PreScanFlow
    <2> QED
      BY <2>1, <2>2, SetsFacts, AddsFacts
  <1>2. CASE ScanFlow(from, r, locations, to, s)
    <2>1. /\ to # "preScanCompleted"
          /\ to = "noVMs" => from = "scanPhase" /\ locations # "some"
          /\ to \in RedisSteps \cup {"redisStarted"} =>
                \/ from = "scanPhase" /\ locations = "some"
                \/ from \in RedisSteps \cup {"redisStarted"}
      BY <1>2 DEF ScanFlow
    <2>2. \/ s = r \/ s = Sets(r, "InProgress") \/ s = [r EXCEPT !.report = TRUE]
          \/ \E t : s = Adds(r, "Scanning", t)
          \/ /\ from \in RedisSteps \cup {"redisStarted"}
             /\ \E t : s = Adds(r, "RedisDeployment", t)
      BY <1>2 DEF ScanFlow
    <2>3. ASSUME s = [r EXCEPT !.report = TRUE]
          PROVE  /\ s.status = r.status
                 /\ \A p, t : Has(s, p, t) <=> Has(r, p, t)
                 /\ \A p : Entered(s, p) <=> Entered(r, p)
      <3>1. s.conditions = r.conditions /\ s.status = r.status
        BY <2>3 DEF Record
      <3> QED
        BY <3>1 DEF Has, Entered
    <2>4. /\ Has(s, "PreScan", "Completed") => Has(r, "PreScan", "Completed")
          /\ Entered(s, "RedisDeployment") =>
                Entered(r, "RedisDeployment") \/ from \in RedisSteps \cup {"redisStarted"}
          /\ s.status = "Completed" => r.status = "Completed"
      BY <2>2, <2>3, SetsFacts, AddsFacts
    <2> QED
      BY <2>1, <2>4
  <1>3. CASE StatusFlow(from, r, to, s)
    <2>1. to \in {"idle", "retry", "scanCompleted"}
      BY <1>3 DEF StatusFlow
    <2>2. \/ s = r
          \/ \E t \in {"InProgress", "Failed"} : s = Sets(r, t)
          \/ /\ from \in {"noVMs", "completed", "completedLocked"}
             /\ s = Sets(r, "Completed")
      BY <1>3 DEF StatusFlow
    <2> QED
      BY <2>1, <2>2, SetsFacts
  <1> QED
    BY <1>1, <1>2, <1>3 DEF Ways

\* A completion stays without a failed phase.
LEMMA FlowUnfailed ==
  ASSUME NEW from, from \notin Unprotected, NEW r \in Record, NEW job, NEW locations,
         NEW to, NEW s,
         Consistent(r), Due(from, r), s.status = "Completed",
         r.status = "Completed" => ~FailedOnce(r),
         from = "noVMs" => ~Entered(r, "RedisDeployment"),
         Ways(from, r, job, locations, to, s)
  PROVE  ~FailedOnce(s) /\ Has(r, "PreScan", "Completed")
  <1>1. r.status = "Completed" \/ from \in {"noVMs", "completed", "completedLocked"}
    BY FlowNews
  <1>2. CASE r.status = "Completed"
    <2>1. from \in LastSteps
      BY <1>2 DEF Due
    <2>2. s = r \/ s = Adds(r, "Scanning", "Completed")
      BY <2>1 DEF LastSteps, Ways, PreScanFlow, ScanFlow, StatusFlow, RedisSteps, Claiming
    <2>3. Has(r, "PreScan", "Completed")
      BY <2>1 DEF Due, LastSteps, PreScanSteps, FailedSteps, Unprotected
    <2> QED
      BY <1>2, <2>2, <2>3, AddsFacts
  <1>3. CASE r.status # "Completed" /\ from \in {"noVMs", "completed", "completedLocked"}
    <2>1. Has(r, "PreScan", "Completed") /\ ~Has(r, "PreScan", "Failed")
      BY <1>3 DEF Due, Consistent, PreScanSteps, FailedSteps, Unprotected
    <2>2. ~Has(r, "RedisDeployment", "Failed") /\ ~Has(r, "Scanning", "Failed")
      <3>1. CASE from = "noVMs"
        BY <3>1, EnteredFacts DEF Consistent
      <3>2. CASE from \in {"completed", "completedLocked"}
        <4>1. Has(r, "Scanning", "InProgress") /\ ~Has(r, "Scanning", "Failed")
          BY <3>2 DEF Due, JobSteps
        <4> QED
          BY <4>1, EnteredFacts DEF Consistent
      <3> QED
        BY <1>3, <3>1, <3>2
    <2>3. ~FailedOnce(r)
      BY <2>1, <2>2, NoneFailed
    <2>4. s = r \/ \E t : s = Sets(r, t)
      BY <1>3 DEF Ways, PreScanFlow, ScanFlow, StatusFlow, RedisSteps, Claiming
    <2> QED
      BY <2>1, <2>3, <2>4, SetsFacts
  <1> QED
    BY <1>1, <1>2, <1>3

LEMMA WorkerPlaced ==
  ASSUME Story, Placed, FreshForJobs \/ Seen, at \notin Unprotected, WorkerStep
  PROVE  Placed'
  <1>0. /\ TypeOK /\ InHand /\ Told /\ cur \in ScanInstances /\ si[cur] \in Record
        /\ Consistent(si[cur]) /\ Due(at, si[cur]) /\ NoObject.state = "absent"
    BY DEF Story, Told, TypeOK, NoObject
  <1>1. PICK to, s : Flow(to, s) /\ Went(to, s)
    BY <1>0, WorkerFlows DEF Flows
  <1> DEFINE r == si[cur]
             job == Cached("preScan")
  <1>2. /\ cur' = cur /\ Kept(r, s) /\ si'[cur] = s
        /\ \A n \in ScanInstances \ {cur} : si'[n] = si[n]
        /\ at' = IF to = "retry" THEN "idle" ELSE to
        /\ at' \notin Unprotected =>
              /\ copy'.locations \in {s.locations, copy.locations}
              /\ s # r => copy' = s
    BY <1>0, <1>1, FlowsKept DEF Went, Unprotected
  <1>3. Ways(at, r, job, copy.locations, to, s) /\ r \in Record
    BY <1>0, <1>1 DEF Flow, Ways
  <1>4. /\ Has(s, "PreScan", "Completed") =>
              Has(r, "PreScan", "Completed") \/ at = "preScanCompleted"
        /\ to = "preScanCompleted" => at = "preScan" /\ job = "succeeded"
        /\ Entered(s, "RedisDeployment") =>
              Entered(r, "RedisDeployment") \/ at \in RedisSteps \cup {"redisStarted"}
        /\ to = "noVMs" => at = "scanPhase" /\ copy.locations # "some"
        /\ to \in RedisSteps \cup {"redisStarted"} =>
              \/ at = "scanPhase" /\ copy.locations = "some"
              \/ at \in RedisSteps \cup {"redisStarted"}
    BY <1>3, FlowNews
  <1>5. Has(r, "PreScan", "Completed") => copy.locations = r.locations
    BY DEF Placed
  <1>6. at = "scanPhase" => Has(r, "PreScan", "Completed")
    BY <1>0 DEF Due, PreScanSteps, FailedSteps, Unprotected
  <1>7. ASSUME NEW n \in ScanInstances,
               Has(si'[n], "PreScan", "Completed") \/ (at' = "preScanCompleted" /\ cur' = n)
        PROVE  res'[n]["preScan"].state \in {"absent", "succeeded"}
    <2>1. res'[n]["preScan"] \in {res[n]["preScan"], NoObject} \/
             (n = cur /\ at = "createPreScanJob")
      BY <1>0, WorkerMakes
    <2>2. CASE n # cur
      BY <1>0, <1>2, <1>7, <2>1, <2>2 DEF Placed
    <2>3. CASE n = cur /\ (Has(r, "PreScan", "Completed") \/ at = "preScanCompleted")
      <3>1. at # "createPreScanJob"
        BY <1>0, <2>3 DEF Due, PreScanSteps
      <3>2. res[n]["preScan"].state \in {"absent", "succeeded"}
        BY <2>3 DEF Placed
      <3> QED
        BY <1>0, <2>1, <3>1, <3>2
    <2>4. CASE n = cur /\ to = "preScanCompleted"
      <3>1. at = "preScan" /\ job = "succeeded"
        BY <1>4, <2>4
      <3>2. ReadPreScanJob
        BY <3>1, OnlyReads
      <3>3. resCache[cur]["preScan"].state = "succeeded" /\ si[cur].incarnation # 0
        BY <1>0, <3>1, HandFacts DEF Cached
      <3>4. res[cur]["preScan"].state \in {"absent", "succeeded"}
        BY <1>0, <3>2, <3>3, FreshReads DEF ReadPreScanJob, Seen
      <3> QED
        BY <1>0, <2>1, <2>4, <3>1, <3>4
    <2> QED
      BY <1>2, <1>4, <1>7, <2>2, <2>3, <2>4
  <1>8. ASSUME NEW n \in ScanInstances, Entered(si'[n], "RedisDeployment")
        PROVE  si'[n].locations = "some"
    BY <1>0, <1>2, <1>4, <1>8 DEF Placed, Kept
  <1>9. ASSUME NEW n \in ScanInstances, si'[n].status = "Completed"
        PROVE  ~FailedOnce(si'[n]) /\ Has(si'[n], "PreScan", "Completed")
    <2>1. CASE n # cur
      BY <1>2, <1>9, <2>1 DEF Placed
    <2>2. CASE n = cur
      <3>1. /\ r.status = "Completed" => ~FailedOnce(r)
            /\ at = "noVMs" => ~Entered(r, "RedisDeployment")
        BY <1>0 DEF Placed
      <3>2. ~FailedOnce(s) /\ Has(r, "PreScan", "Completed")
        BY <1>0, <1>2, <1>3, <1>9, <2>2, <3>1, FlowUnfailed
      <3>3. Has(s, "PreScan", "Completed")
        BY <1>2, <3>2 DEF Kept, Has
      <3> QED
        BY <1>2, <2>2, <3>2, <3>3
    <2> QED
      BY <2>1, <2>2
  <1>10. ASSUME at' \notin Unprotected, Has(s, "PreScan", "Completed")
         PROVE  copy'.locations = s.locations
    BY <1>2, <1>4, <1>5, <1>10 DEF Kept
  <1>11. (at' = "noVMs" => s.locations # "some")
         /\ (at' \in RedisSteps \cup {"redisStarted"} => s.locations = "some")
    BY <1>2, <1>4, <1>5, <1>6 DEF Kept, Placed, RedisSteps
  <1> HIDE DEF r, job
  <1> QED
    BY <1>0, <1>2, <1>7, <1>8, <1>9, <1>10, <1>11 DEF Placed

\* Nothing is made, and what has no finalizer yet has no story.
LEMMA FinalizerPlaced ==
  ASSUME Story, Placed, Fresh, AddFinalizer \/ Cleanup \/ RemoveFinalizer
  PROVE  Placed'
  <1>0. /\ TypeOK /\ InHand /\ si \in [ScanInstances -> Record] /\ cur \in ScanInstances
        /\ si[cur] \in Record /\ "preScan" \in Kinds /\ NoObject.state = "absent"
    BY DEF Story, TypeOK, NoObject, Kinds, Jobs
  <1>1. CASE AddFinalizer
    <2>1. at = "addFinalizer" /\ cur' = cur /\ res' = res
      BY <1>0, <1>1, AddFinalizerWrites
    <2>2. CASE si' = si /\ at' = "idle"
      BY <2>1, <2>2 DEF Placed, Unprotected, RedisSteps
    <2>3. ASSUME NEW r, r = [si[cur] EXCEPT !.finalizer = TRUE],
                 si' = [si EXCEPT ![cur] = r], at' = AfterFinalizer(r)
          PROVE  Placed'
      <3>1. r.status = "" /\ r.conditions = {}
        BY <1>0, <2>1, <2>3 DEF InHand, Record
      <3>2. at' = "queued" /\ ~Has(r, "PreScan", "Completed")
            /\ ~Entered(r, "RedisDeployment")
        BY <2>3, <3>1 DEF AfterFinalizer, Has, Entered
      <3>3. si'[cur] = r /\ \A n \in ScanInstances \ {cur} : si'[n] = si[n]
        BY <1>0, <2>3
      <3> QED
        BY <1>0, <2>1, <3>1, <3>2, <3>3 DEF Placed, RedisSteps
    <2> QED
      BY <1>0, <1>1, <2>2, <2>3, AddFinalizerWrites
  <1>2. CASE Cleanup
    <2>1. /\ si' = si /\ cur' = cur /\ at = "cleanup"
          /\ at' \in {"removeFinalizer", "idle"}
      BY <1>2 DEF Cleanup, At, Goto
    <2>2. PICK kinds : res' = Deleted(cur, kinds)
      BY <1>2 DEF Cleanup
    <2>3. \A n \in ScanInstances : res'[n]["preScan"] \in {res[n]["preScan"], NoObject}
      BY <1>0, <2>2 DEF Deleted, TypeOK
    <2> QED
      BY <1>0, <2>1, <2>3 DEF Placed, Unprotected, RedisSteps
  <1>3. CASE RemoveFinalizer
    <2>1. /\ at' = "idle" /\ cur' = cur /\ res' = res
          /\ si' = si \/ si' = [si EXCEPT ![cur] = NoRecord]
      BY <1>0, <1>3, RemoveFinalizerWrites
    <2>2. /\ NoRecord.status = "" /\ ~Has(NoRecord, "PreScan", "Completed")
          /\ ~Entered(NoRecord, "RedisDeployment")
      BY DEF NoRecord, Has, Entered
    <2> QED
      BY <1>0, <2>1, <2>2 DEF Placed, Unprotected, RedisSteps
  <1> QED
    BY <1>1, <1>2, <1>3

LEMMA ManagerPlaced ==
  ASSUME TypeOK, Placed, Fresh,
         \/ \E n \in ScanInstances : Start(n)
         \/ DeliverScanInstances \/ (\E i \in Informers : Deliver(i)) \/ Crash
  PROVE  Placed'
  <1>1. CASE \E n \in ScanInstances : Start(n)
    <2>1. PICK n \in ScanInstances : Start(n)
      BY <1>1
    <2>2. /\ si' = si /\ res' = res /\ cur' = n /\ at' = FirstStep(si[n])
          /\ at' # "idle" => copy' = si[n]
      BY <2>1, StartReads
    <2>3. FirstStep(si[n]) \in {"idle", "cleanup", "addFinalizer", "queued",
                                "scanPhase", "preScan"}
      BY RouteAway DEF FirstStep, AfterFinalizer
    <2> QED
      BY <2>2, <2>3 DEF Placed, RedisSteps, Unprotected
  <1>2. CASE DeliverScanInstances \/ (\E i \in Informers : Deliver(i))
    BY <1>2 DEF Placed, DeliverScanInstances, Deliver, server, worker
  <1>3. CASE Crash
    <2>1. si' = si /\ res' = res /\ cur' = cur /\ at' = "idle"
      BY <1>3 DEF Crash, server
    <2> QED
      BY <2>1 DEF Placed, RedisSteps, Unprotected
  <1> QED
    BY <1>1, <1>2, <1>3

\* A container that reports does so before its pre-scan is called complete.
LEMMA ClusterPlaced ==
  ASSUME Story, Placed, NEW n \in ScanInstances, Cluster(n)
  PROVE  Placed'
  <1>0. /\ TypeOK /\ InHand /\ Told /\ si \in [ScanInstances -> Record]
        /\ cur \in ScanInstances /\ si[n] \in Record /\ "preScan" \in Kinds
        /\ NoObject.state = "absent"
    BY DEF Story, TypeOK, NoObject, Kinds, Jobs
  <1>1. /\ at' = at /\ cur' = cur /\ copy' = copy
        /\ si' = si \/ \E r : si' = [si EXCEPT ![n] = r] /\ Becoming(n, r)
    BY ClusterTouches DEF Touched, worker
  <1>2. \A m \in ScanInstances :
           res[m]["preScan"].state \in {"absent", "succeeded"} =>
              res'[m]["preScan"].state \in {"absent", "succeeded"}
    BY <1>0, ClusterMakesNone
  <1>3. CASE si' = si
    BY <1>1, <1>2, <1>3 DEF Placed
  <1>4. ASSUME NEW r, si' = [si EXCEPT ![n] = r], Becoming(n, r)
        PROVE  Placed'
    <2>0. si'[n] = r /\ \A m \in ScanInstances \ {n} : si'[m] = si[m]
      BY <1>0, <1>4
    <2>1. CASE /\ r.status = si[n].status /\ r.conditions = si[n].conditions
               /\ r.locations = si[n].locations
      <3>1. /\ \A p, t : Has(r, p, t) <=> Has(si[n], p, t)
            /\ \A p : Entered(r, p) <=> Entered(si[n], p)
            /\ FailedOnce(r) <=> FailedOnce(si[n])
        BY <2>1 DEF Has, Entered, FailedOnce
      <3> QED
        BY <1>0, <1>1, <1>2, <2>0, <2>1, <3>1 DEF Placed
    <2>2. CASE /\ r.status = "" /\ r.conditions = {} /\ (n = cur => at \in Unprotected)
      <3>1. ~Has(r, "PreScan", "Completed") /\ ~Entered(r, "RedisDeployment")
        BY <2>2 DEF Has, Entered
      <3> QED
        BY <1>0, <1>1, <1>2, <2>0, <2>2, <3>1 DEF Placed, Unprotected, RedisSteps
    <2>3. CASE /\ r.status = si[n].status /\ r.conditions = si[n].conditions
               /\ res[n]["preScan"].state = "active"
      <3>1. ~Has(si[n], "PreScan", "Completed") /\ Consistent(si[n])
        BY <1>0, <2>3 DEF Placed, Told
      <3>2. /\ ~Has(r, "PreScan", "Completed") /\ ~Entered(r, "RedisDeployment")
            /\ FailedOnce(r) <=> FailedOnce(si[n])
        BY <2>3, <3>1 DEF Has, Entered, FailedOnce, Consistent
      <3>3. cur = n => at # "noVMs" /\ at \notin RedisSteps \cup {"redisStarted"}
        BY <1>0, <3>1 DEF Told, Due, Unprotected, PreScanSteps, FailedSteps, RedisSteps
      <3> QED
        BY <1>0, <1>1, <1>2, <2>0, <2>3, <3>1, <3>2, <3>3 DEF Placed
    <2>4. CASE r = [si[n] EXCEPT !.deleting = TRUE]
      BY <1>0, <2>1, <2>4 DEF Record
    <2>5. CASE /\ res[n]["preScan"].state = "active"
               /\ \E l \in {"none", "some"} : r = [si[n] EXCEPT !.locations = l]
      BY <1>0, <2>3, <2>5 DEF Record
    <2>6. CASE r.status = "" /\ r.conditions = {} /\ ~si[n].finalizer
      BY <1>0, <2>2, <2>6 DEF InHand
    <2>7. CASE si[n].incarnation = 0 \/ ~si[n].finalizer
      BY <1>0, <1>4, <2>6, <2>7, BecomingStory DEF InHand
    <2> QED
      BY <1>4, <2>4, <2>5, <2>7 DEF Becoming
  <1> QED
    BY <1>1, <1>3, <1>4

LEMMA PlacedInit ==
  ASSUME Init
  PROVE  Placed
  <1>1. /\ at = "idle" /\ \A n \in ScanInstances : si[n] = NoRecord
        /\ \A n \in ScanInstances : res[n]["preScan"] = NoObject
    BY DEF Init, Kinds, Jobs
  <1>2. /\ NoRecord.status = "" /\ ~Has(NoRecord, "PreScan", "Completed")
        /\ ~Entered(NoRecord, "RedisDeployment") /\ NoObject.state = "absent"
    BY DEF NoRecord, NoObject, Has, Entered
  <1> QED
    BY <1>1, <1>2 DEF Placed, Unprotected, RedisSteps

LEMMA PlacedStep ==
  ASSUME Story, Placed, Fresh, FreshForJobs \/ Seen, Next
  PROVE  Placed'
  <1>0. TypeOK
    BY DEF Story
  <1>1. CASE WorkerStep
    BY <1>0, <1>1, WorkerPlaced, AtTheFinalizer, FinalizerPlaced
  <1>2. CASE \/ \E n \in ScanInstances : Start(n)
             \/ DeliverScanInstances \/ (\E i \in Informers : Deliver(i)) \/ Crash
    BY <1>0, <1>2, ManagerPlaced
  <1>3. CASE \E n \in ScanInstances : Cluster(n)
    BY <1>3, ClusterPlaced
  <1> QED
    BY <1>1, <1>2, <1>3 DEF Next

\* No step of the worker or the cluster is one of the informers, and only users
\* begin an incarnation.
LEMMA WorkerLeaves ==
  ASSUME WorkerStep
  PROVE  created' = created /\ resCache' = resCache
  <1> USE DEF Accepted, Refused, Move, PatchStatus, PatchCondition, Create, AtVersion,
              caches, bounds, Fault
  <1>1. CASE AddFinalizer \/ Cleanup \/ RemoveFinalizer \/ MarkQueued \/ ReadPreScanJob
    BY <1>1 DEF AddFinalizer, Cleanup, RemoveFinalizer, MarkQueued, ReadPreScanJob
  <1>2. CASE \/ MarkPreScanStarted \/ MarkPreScanInProgress \/ CreatePreScanJob
             \/ MarkPreScanRejected \/ MarkPreScanCompleted \/ MarkPreScanFailed
             \/ MarkPreScanRunning \/ MarkFailed \/ ReconcileScanPhase
    BY <1>2 DEF MarkPreScanStarted, MarkPreScanInProgress, CreatePreScanJob,
       MarkPreScanRejected, MarkPreScanCompleted, MarkPreScanFailed, MarkPreScanRunning,
       MarkFailed, ReconcileScanPhase
  <1>3. CASE \/ MarkNoVMs \/ MarkRedisGaveUp \/ MarkRedisStarted
             \/ CreateRedisDeployment \/ RefetchRedisDeployment
             \/ CreateRedisService \/ RefetchRedisService
             \/ MarkRedisReady \/ MarkRedisFailed
    BY <1>3 DEF MarkNoVMs, MarkRedisGaveUp, MarkRedisStarted, CreateRedisDeployment,
       RefetchRedisDeployment, CreateRedisService, RefetchRedisService, MarkRedisReady,
       MarkRedisFailed
  <1>4. CASE \/ CreateScanConfigMap \/ CreateScanSecret \/ CreateScanJob
             \/ MarkScanRejected \/ MarkScanStarted \/ MarkScanRunning \/ MarkScanFailed
             \/ UpdateReport \/ MarkCompleted \/ MarkScanCompleted \/ CreateJanitorJob
    BY <1>4 DEF CreateScanConfigMap, CreateScanSecret, CreateScanJob, MarkScanRejected,
       MarkScanStarted, MarkScanRunning, MarkScanFailed, UpdateReport, MarkCompleted,
       MarkScanCompleted, CreateJanitorJob
  <1> QED
    BY <1>1, <1>2, <1>3, <1>4 DEF WorkerStep

LEMMA ClusterLeaves ==
  ASSUME NEW n \in ScanInstances, Cluster(n)
  PROVE  resCache' = resCache /\ (UserCreate(n) \/ created' = created)
  BY DEF Cluster, UserCreate, UserDelete, JobStarts, JobBlocked, JobUnblocked,
     ImageMissing, ImageFound, JobFails, PreScanReports, JobSucceeds,
     JanitorRuns, JanitorExpires, RedisStarts, RedisRestarts, GarbageCollect,
     Becomes, Outside, caches

LEMMA OnlyCreated ==
  ASSUME NEW n \in ScanInstances, Cluster(n), si[n].incarnation = 0, ~UserCreate(n)
  PROVE  si' = si
  BY DEF Cluster, UserDelete, JobStarts, JobBlocked, JobUnblocked,
     ImageMissing, ImageFound, JobFails, PreScanReports, JobSucceeds,
     JanitorRuns, JanitorExpires, RedisStarts, RedisRestarts, GarbageCollect,
     Becomes, Outside

\* What the worker and the cluster do to a name that Seen speaks of.
\* A name that is used once is new when it is created.
LEMMA OnlyFirst ==
  ASSUME TypeOK, MaxIncarnations = 1, NEW n \in ScanInstances, Cluster(n),
         NEW r, si' = [si EXCEPT ![n] = r], r.incarnation # 0, si[n].incarnation = 0
  PROVE  created[n] = 0
  <1>1. UserCreate(n)
    <2>1. si'[n] # si[n]
      BY DEF TypeOK
    <2> QED
      BY <2>1, OnlyCreated
  <1> QED
    BY <1>1 DEF UserCreate, TypeOK

LEMMA WorkerSees ==
  ASSUME Story, Seen, Answered, Fresh, WorkerStep
  PROVE  Seen'
  <1>0. /\ TypeOK /\ InHand /\ cur \in ScanInstances /\ si \in [ScanInstances -> Record]
        /\ NoObject.state = "absent"
    BY DEF Story, TypeOK, NoObject
  <1>1. created' = created /\ resCache' = resCache
    BY WorkerLeaves
  <1>2. ASSUME NEW n \in ScanInstances
        PROVE  si'[n].incarnation = 0 \/ /\ si'[n].incarnation = si[n].incarnation
                                         /\ si'[n].locations = si[n].locations
    <2>1. CASE at \notin Unprotected
      <3>1. PICK to, s : Flow(to, s) /\ Went(to, s)
        BY <1>0, <2>1, WorkerFlows DEF Flows
      <3> QED
        BY <1>0, <2>1, <3>1, FlowsKept DEF Kept
    <2>2. CASE AddFinalizer
      <3>1. CASE si' = si
        BY <3>1
      <3>2. ASSUME si' = [si EXCEPT ![cur] = [si[cur] EXCEPT !.finalizer = TRUE]]
            PROVE  /\ si'[n].incarnation = si[n].incarnation
                   /\ si'[n].locations = si[n].locations
        BY <1>0, <3>2 DEF Record
      <3> QED
        BY <1>0, <2>2, <3>1, <3>2, AddFinalizerWrites
    <2>3. CASE Cleanup
      BY <2>3 DEF Cleanup
    <2>4. CASE RemoveFinalizer
      <3>1. NoRecord.incarnation = 0
        BY DEF NoRecord
      <3>2. si'[n] = si[n] \/ si'[n] = NoRecord
        BY <1>0, <2>4, RemoveFinalizerWrites
      <3> QED
        BY <3>1, <3>2
    <2> QED
      BY <2>1, <2>2, <2>3, <2>4, AtTheFinalizer
  <1>3. ASSUME NEW n \in ScanInstances,
               si[n].incarnation # 0, resCache[n]["preScan"].state = "succeeded"
        PROVE  res'[n]["preScan"] \in {res[n]["preScan"], NoObject}
    <2>1. \/ res'[n]["preScan"] \in {res[n]["preScan"], NoObject}
          \/ n = cur /\ res[n]["preScan"] = NoObject /\ at = "createPreScanJob"
      BY <1>0, WorkerMakes
    <2>2. Known(si[n])
      BY <1>3 DEF Seen
    <2> QED
      BY <2>1, <2>2 DEF Answered
  <1>4. ASSUME NEW n \in ScanInstances, created[n] = 0
        PROVE  res'[n]["preScan"] = NoObject
    <2>1. si[n].incarnation = 0 /\ res[n]["preScan"] = NoObject
      BY <1>4 DEF Seen
    <2>2. ~(n = cur /\ at = "createPreScanJob")
      BY <1>0, <2>1 DEF InHand, Unprotected
    <2> QED
      BY <1>0, <2>1, <2>2, WorkerMakes
  <1>5. ASSUME NEW n \in ScanInstances, created[n] = 0
        PROVE  si'[n].incarnation = 0
    BY <1>2, <1>5 DEF Seen
  <1>6. ASSUME NEW n \in ScanInstances,
               si'[n].incarnation # 0, resCache[n]["preScan"].state = "succeeded"
        PROVE  Known(si'[n]) /\ res'[n]["preScan"].state \in {"absent", "succeeded"}
    <2>1. si[n].incarnation # 0 /\ si'[n].locations = si[n].locations
      BY <1>2, <1>6
    <2> QED
      BY <1>0, <1>3, <1>6, <2>1 DEF Seen, Known
  <1> QED
    BY <1>1, <1>4, <1>5, <1>6 DEF Seen

LEMMA ClusterSees ==
  ASSUME Story, Seen, MaxIncarnations = 1, NEW n \in ScanInstances, Cluster(n)
  PROVE  Seen'
  <1>0. /\ TypeOK /\ si \in [ScanInstances -> Record] /\ created \in [ScanInstances -> Nat]
        /\ "preScan" \in Kinds /\ NoObject.state = "absent"
    BY DEF Story, TypeOK, Kinds, Jobs, NoObject
  <1>1. resCache' = resCache
    BY ClusterLeaves
  <1>2. \A m \in ScanInstances :
           /\ res[m]["preScan"] = NoObject => res'[m]["preScan"] = NoObject
           /\ res[m]["preScan"].state \in {"absent", "succeeded"} =>
                 res'[m]["preScan"].state \in {"absent", "succeeded"}
    BY <1>0, ClusterMakesNone
  <1>3. CASE UserCreate(n)
    <2> DEFINE i == created[n] + 1
    <2>1. /\ si' = [si EXCEPT ![n] = [NoRecord EXCEPT !.incarnation = i]]
          /\ created' = [created EXCEPT ![n] = i] /\ created[n] = 0
      BY <1>0, <1>3 DEF UserCreate
    <2>2. created'[n] # 0
      BY <1>0, <2>1
    <2>3. resCache[n]["preScan"].state = "absent"
      BY <1>0, <2>1 DEF Seen
    <2>4. \A m \in ScanInstances \ {n} : si'[m] = si[m] /\ created'[m] = created[m]
      BY <1>0, <2>1
    <2> QED
      BY <1>1, <1>2, <2>2, <2>3, <2>4 DEF Seen
  <1>4. CASE ~UserCreate(n)
    <2>1. created' = created
      BY <1>4, ClusterLeaves
    <2>2. ASSUME NEW m \in ScanInstances
          PROVE  \/ si'[m].incarnation = 0
                 \/ /\ si'[m].incarnation = si[m].incarnation
                    /\ Known(si[m]) => Known(si'[m])
      <3>1. CASE si' = si
        BY <3>1
      <3>2. ASSUME NEW r, si' = [si EXCEPT ![n] = r], Becoming(n, r)
            PROVE  \/ si'[m].incarnation = 0
                   \/ /\ si'[m].incarnation = si[m].incarnation
                      /\ Known(si[m]) => Known(si'[m])
        <4>1. CASE m # n
          BY <1>0, <3>2, <4>1
        <4>2. CASE m = n /\ r = [si[n] EXCEPT !.deleting = TRUE]
          BY <1>0, <3>2, <4>2 DEF Record, Known
        <4>3. CASE m = n /\ r = NoRecord
          BY <1>0, <3>2, <4>3 DEF NoRecord
        <4>4. CASE m = n /\ \E l \in {"none", "some"} : r = [si[n] EXCEPT !.locations = l]
          BY <1>0, <3>2, <4>4 DEF Record, Known
        <4>5. CASE m = n /\ si[n].incarnation = 0
          <5>1. si' = si
            BY <1>4, <4>5, OnlyCreated
          <5> QED
            BY <5>1
        <4> QED
          BY <3>2, <4>1, <4>2, <4>3, <4>4, <4>5 DEF Becoming
      <3> QED
        BY <3>1, <3>2, ClusterTouches DEF Touched
    <2> QED
      BY <1>1, <1>2, <2>1, <2>2 DEF Seen
  <1> QED
    BY <1>3, <1>4

LEMMA ManagerShows ==
  ASSUME \/ \E n \in ScanInstances : Start(n)
         \/ DeliverScanInstances \/ (\E i \in Informers : Deliver(i)) \/ Crash
  PROVE  \A n \in ScanInstances :
            resCache'[n]["preScan"] \in {resCache[n]["preScan"], res[n]["preScan"]}
  <1>1. CASE (\E n \in ScanInstances : Start(n)) \/ DeliverScanInstances \/ Crash
    BY <1>1 DEF Start, DeliverScanInstances, Crash, caches
  <1>2. CASE \E i \in Informers : Deliver(i)
    <2>1. PICK i \in Informers : Deliver(i)
      BY <1>2
    <2>2. "preScan" \in Kinds
      BY DEF Kinds, Jobs
    <2> QED
      BY <2>1, <2>2 DEF Deliver
  <1> QED
    BY <1>1, <1>2

LEMMA ManagerSees ==
  ASSUME TypeOK, Seen, Answered,
         \/ \E n \in ScanInstances : Start(n)
         \/ DeliverScanInstances \/ (\E i \in Informers : Deliver(i)) \/ Crash
  PROVE  Seen'
  <1>1. created' = created /\ si' = si /\ res' = res
    BY DEF Start, DeliverScanInstances, Deliver, Crash, server, bounds
  <1> QED
    BY <1>1, ManagerShows DEF Seen, Answered

LEMMA SeenStep ==
  ASSUME Story, Seen, Answered, Fresh, MaxIncarnations = 1, Next
  PROVE  Seen'
  BY WorkerSees, ClusterSees, ManagerSees DEF Next, Story

LEMMA SeenInit ==
  ASSUME Init
  PROVE  Seen
  <1>1. /\ \A n \in ScanInstances : si[n] = NoRecord
        /\ \A n \in ScanInstances : /\ res[n]["preScan"] = NoObject
                                     /\ resCache[n]["preScan"] = NoObject
    BY DEF Init, Kinds, Jobs
  <1>2. NoRecord.incarnation = 0
    BY DEF NoRecord
  <1> QED
    BY <1>1, <1>2 DEF Seen

LEMMA IsAnswered ==
  ASSUME Story, IInv
  PROVE  Answered
  <1>1. ASSUME NEW n \in ScanInstances, si[n].incarnation # 0,
               res[n]["preScan"].state = "succeeded"
        PROVE  Known(si[n])
    BY <1>1 DEF IInv, JobsTell, Tell, Gone
  <1>2. ASSUME at = "createPreScanJob", Known(si[cur])
        PROVE  res[cur]["preScan"] # NoObject
    <2>1. /\ cur \in ScanInstances /\ si[cur] \in Record /\ si[cur].incarnation # 0
          /\ Consistent(si[cur]) /\ ~Has(si[cur], "PreScan", "Completed")
      BY <1>2, HandFacts DEF Story, Told, TypeOK, Due, PreScanSteps, Unprotected
    <2>2. ~si[cur].report
      BY <2>1, EnteredFacts DEF Consistent
    <2> QED
      BY <1>2, <2>1, <2>2 DEF IInv, Leaving, LeavingLabels, Undone, Gone
  <1> QED
    BY <1>1, <1>2 DEF Answered

LEMMA SeenAlways == Fresh /\ MaxIncarnations = 1 => (Spec => []Seen)
  <1> SUFFICES ASSUME Fresh, MaxIncarnations = 1
               PROVE  Spec => []Seen
    OBVIOUS
  <1>1. Init => Seen
    BY SeenInit
  <1>2. Story /\ IInv /\ Seen /\ [Next]_vars => Seen'
    <2>1. Seen /\ UNCHANGED vars => Seen'
      BY DEF vars, Seen
    <2> QED
      BY <2>1, SeenStep, IsAnswered
  <1> QED
    BY <1>1, <1>2, StoryTold, Invariance, PTL DEF Spec

\* A second report of a pre-scan is not taken for the first: the cache shows the jobs
\* there are, or a name has one pre-scan only.
OneReport == Fresh /\ ("Job" \notin Lagging \/ MaxIncarnations = 1)

LEMMA PlacedAlways == OneReport => (Spec => []Placed)
  <1> SUFFICES ASSUME OneReport
               PROVE  Spec => []Placed
    OBVIOUS
  <1>1. Fresh /\ (FreshForJobs \/ MaxIncarnations = 1)
    BY DEF OneReport, Fresh, FreshForJobs
  <1>2. Init => Placed
    BY PlacedInit
  <1>3. Story /\ (FreshForJobs \/ Seen) /\ Placed /\ [Next]_vars => Placed'
    <2>1. Placed /\ UNCHANGED vars => Placed'
      BY DEF vars, Placed
    <2> QED
      BY <1>1, <2>1, PlacedStep
  <1>4. CASE FreshForJobs
    <2>1. Story /\ Placed /\ [Next]_vars => Placed'
      BY <1>3, <1>4
    <2> QED
      BY <1>1, <1>2, <2>1, StoryTold, PTL DEF Spec
  <1>5. CASE MaxIncarnations = 1
    <2>1. Story /\ Seen /\ Placed /\ [Next]_vars => Placed'
      BY <1>3
    <2> QED
      BY <1>1, <1>2, <1>5, <2>1, StoryTold, SeenAlways, PTL DEF Spec
  <1> QED
    BY <1>1, <1>4, <1>5

\* If the informer of ScanInstances is not behind, and neither is that of jobs or a
\* name is used once, a Failed ScanInstance has a failed phase in its conditions and
\* a Completed one has none, between any two patches, and through faults, deletions
\* and new incarnations.
THEOREM Explained == OneReport => (Spec => []StatusExplained)
  <1>1. Story /\ Placed => StatusExplained
    BY DEF Story, Told, Consistent, Placed, FailedOnce, StatusExplained
  <1>2. OneReport => Fresh
    BY DEF OneReport
  <1> QED
    BY <1>1, <1>2, StoryTold, PlacedAlways, PTL

-----------------------------------------------------------------------------
(* Refinement, without faults and for names that are used once: the life   *)
(* cycle that status, locations and report go through.                     *)

Faultless == Fresh /\ MaxFaults = 0 /\ MaxIncarnations = 1

\* Steps that a ScanInstance with the status Queued may be at.
EarlySteps == {"queued", "preScan", "preScanStarted", "preScanInProgress"}

Early(r) == r.status \in {"", "Queued"}

\* The status leaves Queued before there is a pre-scan job, or anything to say of
\* the pre-scan but that it is in progress.
Paths ==
    /\ \A n \in ScanInstances :
          /\ si[n].incarnation # 0 /\ Early(si[n]) =>
                res[n]["preScan"] = NoObject /\ resCache[n]["preScan"] = NoObject
          /\ Early(si[n]) /\ Entered(si[n], "PreScan") =>
                cur = n /\ at = "preScanInProgress"
    /\ at \notin Unprotected \cup EarlySteps => ~Early(si[cur])

LEMMA FieldsKept ==
  ASSUME NEW r \in Record
  PROVE  /\ \A p, t : /\ Adds(r, p, t).status = r.status
                      /\ Adds(r, p, t).report = r.report
         /\ \A t : Sets(r, t).status = t /\ Sets(r, t).report = r.report
  BY DEF Adds, Sets, Record

LEMMA StatusKeptBy ==
  ASSUME NEW r \in Record, NEW s,
         \/ s = r \/ s = Sets(r, "InProgress") \/ s = [r EXCEPT !.report = TRUE]
         \/ \E p, t : s = Adds(r, p, t)
  PROVE  s.status = r.status \/ s.status = "InProgress"
  BY DEF Adds, Sets, Record

LEMMA SameFields ==
  ASSUME NEW r \in Record, NEW s,
         s = r \/ s = Sets(r, r.status) \/ \E p, t : s = Adds(r, p, t)
  PROVE  s.status = r.status /\ s.report = r.report
  BY DEF Adds, Sets, Record

LEMMA FieldsTrue ==
  ASSUME NEW r \in Record
  PROVE  /\ [r EXCEPT !.report = TRUE].status = r.status
         /\ [r EXCEPT !.report = TRUE].report = TRUE
  BY DEF Record

LEMMA FlowPaths ==
  ASSUME NEW from, from \notin Unprotected, NEW r \in Record, NEW job, NEW locations,
         NEW to, NEW s, Ways(from, r, job, locations, to, s), Due(from, r),
         Early(r) /\ Entered(r, "PreScan") => from = "preScanInProgress",
         from \notin EarlySteps => ~Early(r),
         from = "preScan" /\ job # "absent" => ~Early(r)
  PROVE  /\ to \notin {"retry"} \cup Unprotected \cup EarlySteps => ~Early(s)
         /\ Early(s) => Early(r)
         /\ Early(s) /\ Entered(s, "PreScan") =>
               to = "preScanInProgress" \/ from = "preScanInProgress"
  <1> USE DEF Unprotected, EarlySteps, RedisSteps, Claiming, Early
  <1>1. CASE PreScanFlow(from, r, job, to, s)
    <2>1. CASE from = "queued" /\ s = Sets(r, "Queued") /\ to = Route(s)
      <3>1. r.status = "" /\ ~Entered(s, "PreScan") /\ s.status = "Queued"
        BY <2>1, SetsFacts DEF Due, LastSteps
      <3>2. ~Has(s, "PreScan", "Completed") /\ ~Has(s, "PreScan", "Failed")
        <4>1. <<"PreScan", "Completed">>[1] = "PreScan" /\ <<"PreScan", "Failed">>[1] = "PreScan"
          OBVIOUS
        <4> QED
          BY <3>1, <4>1 DEF Has, Entered
      <3> QED
        BY <2>1, <3>1, <3>2 DEF Route
    <2>2. CASE from = "preScan" /\ s = r
      <3>1. CASE job = "absent"
        <4>1. \/ to \in {"preScanStarted", "preScanCompleted"} /\ job = "absent"
              \/ to = "createPreScanJob" /\ Has(r, "PreScan", "InProgress")
          BY <1>1, <2>2, <3>1 DEF PreScanFlow
        <4>2. to = "preScanStarted" \/ Entered(r, "PreScan")
          BY <1>1, <2>2, <3>1, EnteredFacts DEF PreScanFlow
        <4> QED
          BY <1>1, <2>2, <3>1, <4>2 DEF PreScanFlow
      <3>2. CASE job # "absent"
        BY <2>2, <3>2
      <3> QED
        BY <3>1, <3>2
    <2>3. CASE from = "preScanStarted" /\ s = Adds(r, "PreScan", "InProgress")
               /\ to = "preScanInProgress"
      <3>1. s.status = r.status
        BY <2>3, AddsFacts
      <3> QED
        BY <2>3, <3>1
    <2>4. CASE /\ from \in {"preScanInProgress", "preScanOverdue"}
               /\ s = Sets(r, "InProgress")
      BY <2>4, SetsFacts
    <2>5. CASE /\ from \notin EarlySteps
               /\ s = r \/ \E t : s = Adds(r, "PreScan", t)
      <3>1. s.status = r.status \/ s.status = "InProgress"
        BY <2>5, StatusKeptBy
      <3> QED
        BY <2>5, <3>1
    <2> QED
      BY <1>1, <2>1, <2>2, <2>3, <2>4, <2>5 DEF PreScanFlow
  <1>2. CASE ScanFlow(from, r, locations, to, s)
    <2>1. from \notin EarlySteps
      BY <1>2 DEF ScanFlow
    <2>2. \/ s = r \/ s = Sets(r, "InProgress") \/ s = [r EXCEPT !.report = TRUE]
          \/ \E p, t : s = Adds(r, p, t)
      BY <1>2 DEF ScanFlow
    <2>3. s.status = r.status \/ s.status = "InProgress"
      BY <2>2, StatusKeptBy
    <2> QED
      BY <2>1, <2>3
  <1>3. CASE StatusFlow(from, r, to, s)
    <2>1. CASE s = r /\ to \in {"idle", "retry"}
      BY <2>1
    <2>2. CASE \E t \in {"InProgress", "Failed", "Completed"} : s = Sets(r, t)
      BY <2>2, SetsFacts
    <2> QED
      BY <1>3, <2>1, <2>2 DEF StatusFlow
  <1> QED
    BY <1>1, <1>2, <1>3 DEF Ways

\* Without faults the status follows the first condition at once.
LEMMA OnlyMarks ==
  ASSUME TypeOK, InHand, MaxFaults = 0, WorkerStep, at = "preScanInProgress"
  PROVE  si'[cur].status = "InProgress"
  <1>1. ~ \/ AddFinalizer \/ Cleanup \/ RemoveFinalizer \/ MarkQueued
          \/ ReadPreScanJob \/ MarkPreScanStarted
          \/ CreatePreScanJob \/ MarkPreScanRejected \/ MarkPreScanCompleted
          \/ MarkPreScanFailed \/ MarkPreScanRunning \/ MarkFailed
          \/ ReconcileScanPhase \/ MarkNoVMs \/ MarkRedisGaveUp \/ MarkRedisStarted
    BY DEF AddFinalizer, Cleanup, RemoveFinalizer, MarkQueued, At, MarkPreScanStarted,
       ReadPreScanJob, CreatePreScanJob, MarkPreScanRejected,
       MarkPreScanCompleted, MarkPreScanFailed, MarkPreScanRunning, MarkFailed,
       ReconcileScanPhase, MarkNoVMs, MarkRedisGaveUp, MarkRedisStarted
  <1>2. ~ \/ CreateRedisDeployment \/ RefetchRedisDeployment
          \/ CreateRedisService \/ RefetchRedisService
          \/ MarkRedisReady \/ MarkRedisFailed
          \/ CreateScanConfigMap \/ CreateScanSecret \/ CreateScanJob
          \/ MarkScanRejected \/ MarkScanStarted \/ MarkScanRunning \/ MarkScanFailed
          \/ UpdateReport \/ MarkCompleted \/ MarkScanCompleted \/ CreateJanitorJob
    BY DEF At, CreateRedisDeployment, RefetchRedisDeployment,
       CreateRedisService, RefetchRedisService, MarkRedisReady, MarkRedisFailed,
       CreateScanConfigMap, CreateScanSecret, CreateScanJob, MarkScanRejected,
       MarkScanStarted, MarkScanRunning, MarkScanFailed, UpdateReport,
       MarkCompleted, MarkScanCompleted, CreateJanitorJob
  <1>3. MarkPreScanInProgress
    BY <1>1, <1>2 DEF WorkerStep
  <1>4. at \notin Unprotected /\ ~Fault /\ si[cur].incarnation # 0
    BY HandFacts DEF Unprotected, Fault, TypeOK
  <1>5. Accepted(IF copy.status = "InProgress" THEN si[cur]
                 ELSE [si[cur] EXCEPT !.status = "InProgress"], "createPreScanJob")
    BY <1>3, <1>4 DEF MarkPreScanInProgress, PatchStatus, Refused
  <1>6. cur \in ScanInstances /\ si \in [ScanInstances -> Record]
        /\ copy.status = si[cur].status
    BY <1>4, HandFacts DEF TypeOK
  <1>7. (IF copy.status = "InProgress" THEN si[cur]
         ELSE [si[cur] EXCEPT !.status = "InProgress"]).status = "InProgress"
    BY <1>6 DEF Record
  <1> QED
    BY <1>5, <1>6, <1>7 DEF Accepted

LEMMA WorkerPaths ==
  ASSUME Story, Paths, Faultless, at \notin Unprotected, WorkerStep
  PROVE  Paths'
  <1>0. /\ TypeOK /\ InHand /\ Told /\ cur \in ScanInstances /\ si[cur] \in Record
        /\ Due(at, si[cur]) /\ "preScan" \in Kinds /\ si[cur].incarnation # 0
        /\ resCache' = resCache
    BY HandFacts, WorkerLeaves DEF Story, Told, TypeOK, Kinds, Jobs
  <1>1. PICK to, s : Flow(to, s) /\ Went(to, s)
    BY <1>0, WorkerFlows DEF Flows
  <1>2. /\ cur' = cur /\ si'[cur] = s
        /\ \A n \in ScanInstances \ {cur} : si'[n] = si[n]
        /\ at' = IF to = "retry" THEN "idle" ELSE to
    BY <1>0, <1>1, FlowsKept DEF Went
  <1> DEFINE job == Cached("preScan")
  <1>3. at = "preScan" /\ job # "absent" => ~Early(si[cur])
    <2> SUFFICES ASSUME at = "preScan", job # "absent"
                 PROVE  ~Early(si[cur])
      OBVIOUS
    <2>1. resCache[cur]["preScan"] # NoObject
      BY DEF Cached, NoObject
    <2> QED
      BY <1>0, <2>1 DEF Paths
  <1>4. /\ Early(si[cur]) /\ Entered(si[cur], "PreScan") => at = "preScanInProgress"
        /\ at \notin EarlySteps => ~Early(si[cur])
    BY <1>0 DEF Paths
  <1>5. Ways(at, si[cur], job, copy.locations, to, s)
    BY <1>1 DEF Flow, Ways
  <1>6. /\ to \notin {"retry"} \cup Unprotected \cup EarlySteps => ~Early(s)
        /\ Early(s) => Early(si[cur])
        /\ Early(s) /\ Entered(s, "PreScan") =>
              to = "preScanInProgress" \/ at = "preScanInProgress"
    <2> HIDE DEF job
    <2> QED
      BY <1>0, <1>3, <1>4, <1>5, FlowPaths
  <1>7. at = "preScanInProgress" => ~Early(s)
    BY <1>0, <1>2, OnlyMarks DEF Faultless, Early
  <1>8. ASSUME NEW n \in ScanInstances, si'[n].incarnation # 0, Early(si'[n])
        PROVE  res'[n]["preScan"] = NoObject /\ resCache'[n]["preScan"] = NoObject
    <2>1. /\ res[n]["preScan"] = NoObject /\ resCache[n]["preScan"] = NoObject
          /\ n = cur => Early(si[cur])
      BY <1>0, <1>2, <1>6, <1>8 DEF Paths
    <2>2. n = cur => at # "createPreScanJob"
      BY <1>4, <2>1 DEF EarlySteps
    <2> QED
      BY <1>0, <2>1, <2>2, WorkerMakes
  <1>9. ASSUME NEW n \in ScanInstances, Early(si'[n]), Entered(si'[n], "PreScan")
        PROVE  cur' = n /\ at' = "preScanInProgress"
    <2>1. n = cur
      BY <1>2, <1>9 DEF Paths
    <2> QED
      BY <1>2, <1>6, <1>7, <1>9, <2>1
  <1>10. at' \notin Unprotected \cup EarlySteps => ~Early(si'[cur'])
    BY <1>2, <1>6 DEF Unprotected
  <1> HIDE DEF job
  <1> QED
    BY <1>8, <1>9, <1>10 DEF Paths, Early

LEMMA FinalizerPaths ==
  ASSUME Story, Paths, Fresh, AddFinalizer \/ Cleanup \/ RemoveFinalizer
  PROVE  Paths'
  <1>0. /\ TypeOK /\ InHand /\ si \in [ScanInstances -> Record] /\ cur \in ScanInstances
        /\ si[cur] \in Record /\ "preScan" \in Kinds /\ resCache' = resCache
    BY WorkerLeaves DEF Story, TypeOK, Kinds, Jobs, WorkerStep
  <1>1. CASE AddFinalizer
    <2>1. at = "addFinalizer" /\ cur' = cur /\ res' = res
      BY <1>0, <1>1, AddFinalizerWrites
    <2>2. CASE si' = si /\ at' = "idle"
      BY <1>0, <2>1, <2>2 DEF Paths, Unprotected
    <2>3. ASSUME NEW r, r = [si[cur] EXCEPT !.finalizer = TRUE],
                 si' = [si EXCEPT ![cur] = r], at' = AfterFinalizer(r)
          PROVE  Paths'
      <3>1. /\ r.status = "" /\ si[cur].status = "" /\ r.conditions = {}
            /\ r.incarnation = si[cur].incarnation
        BY <1>0, <2>1, <2>3 DEF InHand, Record
      <3>2. at' = "queued" /\ ~Entered(r, "PreScan")
        BY <2>3, <3>1 DEF AfterFinalizer, Entered
      <3>3. si'[cur] = r /\ \A n \in ScanInstances \ {cur} : si'[n] = si[n]
        BY <1>0, <2>3
      <3> QED
        BY <1>0, <2>1, <3>1, <3>2, <3>3 DEF Paths, EarlySteps, Early
    <2> QED
      BY <1>0, <1>1, <2>2, <2>3, AddFinalizerWrites
  <1>2. CASE Cleanup
    <2>1. /\ si' = si /\ cur' = cur /\ at = "cleanup"
          /\ at' \in {"removeFinalizer", "idle"}
      BY <1>2 DEF Cleanup, At, Goto
    <2>2. PICK kinds : res' = Deleted(cur, kinds)
      BY <1>2 DEF Cleanup
    <2>3. \A n \in ScanInstances : res'[n]["preScan"] \in {res[n]["preScan"], NoObject}
      BY <1>0, <2>2 DEF Deleted, TypeOK
    <2> QED
      BY <1>0, <2>1, <2>3 DEF Paths, Unprotected
  <1>3. CASE RemoveFinalizer
    <2>1. /\ at' = "idle" /\ cur' = cur /\ res' = res /\ at = "removeFinalizer"
          /\ si' = si \/ si' = [si EXCEPT ![cur] = NoRecord]
      BY <1>0, <1>3, RemoveFinalizerWrites
    <2>2. ~Entered(NoRecord, "PreScan") /\ NoRecord.incarnation = 0
      BY DEF NoRecord, Entered
    <2> QED
      BY <1>0, <2>1, <2>2 DEF Paths, Unprotected
  <1> QED
    BY <1>1, <1>2, <1>3

LEMMA ManagerPaths ==
  ASSUME Story, Paths, Faultless,
         \/ \E n \in ScanInstances : Start(n)
         \/ DeliverScanInstances \/ (\E i \in Informers : Deliver(i)) \/ Crash
  PROVE  Paths'
  <1>1. CASE \E n \in ScanInstances : Start(n)
    <2>1. PICK n \in ScanInstances : Start(n)
      BY <1>1
    <2>2. si' = si /\ res' = res /\ cur' = n /\ at' = FirstStep(si[n]) /\ at = "idle"
      BY <2>1, StartReads DEF Start, At, Faultless, Story
    <2>3. FirstStep(si[n]) \notin Unprotected \cup EarlySteps =>
             Has(si[n], "PreScan", "Completed")
      BY DEF FirstStep, AfterFinalizer, Route, Unprotected, EarlySteps
    <2>4. Has(si[n], "PreScan", "Completed") => ~Early(si[n])
      BY <2>2, EnteredFacts DEF Paths, Story, TypeOK
    <2>5. resCache' = resCache
      BY <2>1 DEF Start, caches
    <2> QED
      BY <2>2, <2>3, <2>4, <2>5 DEF Paths
  <1>2. CASE DeliverScanInstances \/ (\E i \in Informers : Deliver(i))
    <2>1. UNCHANGED <<si, res, at, cur>>
      BY <1>2 DEF DeliverScanInstances, Deliver, server, worker
    <2>2. \A n \in ScanInstances :
             resCache'[n]["preScan"] \in {resCache[n]["preScan"], res[n]["preScan"]}
      BY <1>2, ManagerShows
    <2> QED
      BY <2>1, <2>2 DEF Paths
  <1>3. CASE Crash
    BY <1>3 DEF Crash, Fault, Faultless, Story, TypeOK
  <1> QED
    BY <1>1, <1>2, <1>3

LEMMA ClusterPaths ==
  ASSUME Story, Seen, Paths, MaxIncarnations = 1, NEW n \in ScanInstances, Cluster(n)
  PROVE  Paths'
  <1>0. /\ TypeOK /\ InHand /\ si \in [ScanInstances -> Record]
        /\ cur \in ScanInstances /\ si[n] \in Record /\ "preScan" \in Kinds
        /\ NoObject.state = "absent"
    BY DEF Story, TypeOK, NoObject, Kinds, Jobs
  <1>1. /\ at' = at /\ cur' = cur /\ resCache' = resCache
        /\ si' = si \/ \E r : si' = [si EXCEPT ![n] = r] /\ Becoming(n, r)
    BY ClusterTouches, ClusterLeaves DEF Touched, worker
  <1>2. \A m \in ScanInstances :
           res[m]["preScan"] = NoObject => res'[m]["preScan"] = NoObject
    BY <1>0, ClusterMakesNone
  <1>3. CASE si' = si
    BY <1>1, <1>2, <1>3 DEF Paths
  <1>4. ASSUME NEW r, si' = [si EXCEPT ![n] = r], Becoming(n, r)
        PROVE  Paths'
    <2>0. si'[n] = r /\ \A m \in ScanInstances \ {n} : si'[m] = si[m]
      BY <1>0, <1>4
    <2>1. CASE /\ r.status = si[n].status /\ r.conditions = si[n].conditions
               /\ r.incarnation = si[n].incarnation
      <3>1. /\ Early(r) <=> Early(si[n])
            /\ Entered(r, "PreScan") <=> Entered(si[n], "PreScan")
        BY <2>1 DEF Entered, Early
      <3>2. \A m \in ScanInstances :
               /\ Early(si'[m]) <=> Early(si[m])
               /\ Entered(si'[m], "PreScan") <=> Entered(si[m], "PreScan")
               /\ si'[m].incarnation = si[m].incarnation
        BY <2>0, <2>1, <3>1
      <3> QED
        BY <1>0, <1>1, <1>2, <3>2 DEF Paths
    <2>2. CASE /\ r.status = "" /\ r.conditions = {} /\ ~si[n].finalizer
               /\ si[n].incarnation = 0 \/ r = NoRecord
      <3>1. ~Entered(r, "PreScan") /\ (n = cur => at \in Unprotected)
        BY <1>0, <2>2 DEF Entered, InHand
      <3>2. r.incarnation # 0 =>
               res[n]["preScan"] = NoObject /\ resCache[n]["preScan"] = NoObject
        <4>1. r.incarnation # 0 => si[n].incarnation = 0
          <5>1. NoRecord.incarnation = 0
            BY DEF NoRecord
          <5> QED
            BY <2>2, <5>1
        <4> QED
          BY <1>0, <1>4, <4>1, OnlyFirst DEF Seen
      <3> QED
        BY <1>0, <1>1, <1>2, <2>0, <3>1, <3>2 DEF Paths, Early
    <2>3. CASE r = [si[n] EXCEPT !.deleting = TRUE]
               \/ \E l \in {"none", "some"} : r = [si[n] EXCEPT !.locations = l]
      BY <1>0, <2>1, <2>3 DEF Record
    <2>4. CASE si[n].incarnation = 0 \/ (~si[n].finalizer /\ r = NoRecord)
      <3> DEFINE i == created[n] + 1
      <3>1. \/ r = NoRecord /\ ~si[n].finalizer
            \/ si[n].incarnation = 0 /\ ~si[n].finalizer /\ r = [NoRecord EXCEPT !.incarnation = i]
        BY <1>0, <1>4, <2>4 DEF InHand, Becoming, NoRecord
      <3> HIDE DEF i
      <3>2. CASE r = NoRecord
        BY <2>2, <3>1, <3>2 DEF NoRecord
      <3>3. CASE r = [NoRecord EXCEPT !.incarnation = i]
        <4>1. r.status = "" /\ r.conditions = {}
          BY <3>3 DEF NoRecord
        <4> QED
          BY <2>2, <3>1, <3>2, <4>1
      <3> QED
        BY <3>1, <3>2, <3>3
    <2> QED
      BY <1>4, <2>3, <2>4 DEF Becoming
  <1> QED
    BY <1>1, <1>3, <1>4

LEMMA PathsInit ==
  ASSUME Init
  PROVE  Paths
  <1>1. at = "idle" /\ \A n \in ScanInstances : si[n] = NoRecord
    BY DEF Init
  <1>2. ~Entered(NoRecord, "PreScan") /\ NoRecord.incarnation = 0
    BY DEF NoRecord, Entered
  <1> QED
    BY <1>1, <1>2 DEF Paths, Unprotected

LEMMA PathsStep ==
  ASSUME Story, Seen, Paths, Faultless, Next
  PROVE  Paths'
  <1>0. Fresh /\ MaxIncarnations = 1
    BY DEF Faultless
  <1>1. CASE WorkerStep
    BY <1>0, <1>1, WorkerPaths, AtTheFinalizer, FinalizerPaths
  <1>2. CASE \/ \E n \in ScanInstances : Start(n)
             \/ DeliverScanInstances \/ (\E i \in Informers : Deliver(i)) \/ Crash
    BY <1>0, <1>2, ManagerPaths
  <1>3. CASE \E n \in ScanInstances : Cluster(n)
    BY <1>0, <1>3, ClusterPaths
  <1> QED
    BY <1>1, <1>2, <1>3 DEF Next

LEMMA PathsAlways == Faultless => (Spec => []Paths)
  <1> SUFFICES ASSUME Faultless
               PROVE  Spec => []Paths
    OBVIOUS
  <1>1. Fresh /\ MaxIncarnations = 1
    BY DEF Faultless
  <1>2. Init => Paths
    BY PathsInit
  <1>3. Story /\ Seen /\ Paths /\ [Next]_vars => Paths'
    <2>1. Paths /\ UNCHANGED vars => Paths'
      BY DEF vars, Paths
    <2> QED
      BY <2>1, PathsStep
  <1> QED
    BY <1>1, <1>2, <1>3, StoryTold, SeenAlways, PTL DEF Spec

-----------------------------------------------------------------------------
(* Steps of the controller and the cluster as steps of the life cycle.     *)

\* The life cycle of every name, as a watcher sees it.
Shown == [n \in ScanInstances |-> Life(si[n])]

LEMMA ShownOne ==
  ASSUME TypeOK, NEW n \in ScanInstances, NEW s, si' = [si EXCEPT ![n] = s]
  PROVE  Shown' = [Shown EXCEPT ![n] = Life(s)] /\ Shown[n] = Life(si[n])
  BY DEF TypeOK, Shown

LEMMA LifeSame ==
  ASSUME TypeOK, NEW n \in ScanInstances, NEW s, si' = [si EXCEPT ![n] = s],
         Life(s) = Life(si[n])
  PROVE  Shown' = Shown
  <1>1. Shown' = [Shown EXCEPT ![n] = Shown[n]]
    BY ShownOne
  <1> QED
    BY <1>1 DEF Shown

LEMMA NothingBut ==
  ASSUME NEW t
  PROVE  [Lifecycle!Nothing EXCEPT !.status = t]
            = [status |-> t, locations |-> "unknown", report |-> FALSE]
  <1> DEFINE none == "none"
             unknown == "unknown"
             no == FALSE
  <1>1. Lifecycle!Nothing = [status |-> none, locations |-> unknown, report |-> no]
    BY DEF Lifecycle!Nothing
  <1> HIDE DEF none, unknown, no
  <1>2. [[status |-> none, locations |-> unknown, report |-> no] EXCEPT !.status = t]
           = [status |-> t, locations |-> unknown, report |-> no]
    OBVIOUS
  <1>3. [Lifecycle!Nothing EXCEPT !.status = t]
           = [status |-> t, locations |-> unknown, report |-> no]
    BY <1>1, <1>2
  <1> QED
    BY <1>3 DEF unknown, no

LEMMA LifeCreated ==
  ASSUME TypeOK, NEW n \in ScanInstances, NEW s, si' = [si EXCEPT ![n] = s],
         si[n].incarnation = 0, s.incarnation # 0, s.status = "",
         s.locations = "unknown", s.report = FALSE
  PROVE  Lifecycle!Next
  <1>1. /\ Life(si[n]) = Lifecycle!Nothing
        /\ Life(s) = [Lifecycle!Nothing EXCEPT !.status = ""]
    <2>1. Life(s) = [status |-> "", locations |-> "unknown", report |-> FALSE]
      BY DEF Life
    <2>2. Life(si[n]) = Lifecycle!Nothing
      BY DEF Life, Lifecycle!Nothing
    <2> QED
      BY <2>1, <2>2, NothingBut
  <1>2. Shown[n] = Lifecycle!Nothing /\ Shown' = [Shown EXCEPT ![n] = Life(s)]
    BY <1>1, ShownOne
  <1>3. Shown' = [Shown EXCEPT ![n].status = ""]
    BY <1>1, <1>2
  <1>4. Lifecycle!Created(n)
    BY <1>2, <1>3 DEF Lifecycle!Created, Shown
  <1> QED
    BY <1>4 DEF Lifecycle!Next

LEMMA LifeRemoved ==
  ASSUME TypeOK, NEW n \in ScanInstances, NEW s, si' = [si EXCEPT ![n] = s],
         si[n].incarnation # 0, s.incarnation = 0
  PROVE  Lifecycle!Next
  <1>1. Life(si[n]) # Lifecycle!Nothing /\ Life(s) = Lifecycle!Nothing
    <2>1. Life(si[n]).status \in Statuses
      BY DEF Life, TypeOK, Record
    <2> QED
      BY <2>1 DEF Life, Lifecycle!Nothing, Statuses
  <1>2. Lifecycle!Removed(n)
    BY <1>1, ShownOne DEF Lifecycle!Removed, Shown
  <1> QED
    BY <1>2 DEF Lifecycle!Next

LEMMA LifeChanged ==
  ASSUME TypeOK, NEW n \in ScanInstances, NEW s \in Record, si' = [si EXCEPT ![n] = s],
         si[n].incarnation # 0, s.incarnation # 0,
         s.locations = si[n].locations, s.report = si[n].report,
         s.status \in Lifecycle!ValidTransitions(si[n].status),
         s.status = "Completed" => s.locations = "none" \/ s.report
  PROVE  Lifecycle!Next
  <1>1. /\ Life(si[n]).status = si[n].status
        /\ Life(si[n]).locations = s.locations /\ Life(si[n]).report = s.report
        /\ Life(s) = [Life(si[n]) EXCEPT !.status = s.status]
    BY DEF Life
  <1>2. Shown[n] = Life(si[n]) /\ Shown' = [Shown EXCEPT ![n] = Life(s)]
    BY ShownOne
  <1>3. Shown' = [Shown EXCEPT ![n].status = s.status]
    BY <1>1, <1>2
  <1>4. Lifecycle!Changed(n, s.status)
    BY <1>1, <1>2, <1>3 DEF Lifecycle!Changed, Shown
  <1>5. s.status \in Lifecycle!Statuses
    BY DEF Record, Statuses, Lifecycle!Statuses
  <1> QED
    BY <1>4, <1>5 DEF Lifecycle!Next

LEMMA LifeInspected ==
  ASSUME TypeOK, NEW n \in ScanInstances, NEW l \in {"none", "some"},
         si' = [si EXCEPT ![n] = [si[n] EXCEPT !.locations = l]],
         si[n].incarnation # 0, si[n].status \in {"InProgress", "Failed"},
         si[n].locations = "unknown"
  PROVE  Lifecycle!Next
  <1> DEFINE s == [si[n] EXCEPT !.locations = l]
  <1>1. /\ s.incarnation = si[n].incarnation /\ s.status = si[n].status
        /\ s.locations = l /\ s.report = si[n].report
    BY DEF TypeOK, Record
  <1> HIDE DEF s
  <1>2. /\ Life(si[n]).status = si[n].status
        /\ Life(si[n]).locations = "unknown"
        /\ Life(s) = [Life(si[n]) EXCEPT !.locations = l]
    BY <1>1 DEF Life
  <1>3. Shown[n] = Life(si[n]) /\ Shown' = [Shown EXCEPT ![n] = Life(s)]
    BY ShownOne DEF s
  <1>4. Shown' = [Shown EXCEPT ![n].locations = l]
    BY <1>2, <1>3
  <1>5. Lifecycle!Inspected(n, l)
    BY <1>2, <1>3, <1>4 DEF Lifecycle!Inspected, Shown
  <1> QED
    BY <1>5 DEF Lifecycle!Next

LEMMA LifeReported ==
  ASSUME TypeOK, NEW n \in ScanInstances, NEW s, si' = [si EXCEPT ![n] = s],
         si[n].incarnation # 0, s.incarnation # 0,
         s.locations = si[n].locations, s.status = si[n].status, s.report = TRUE,
         s.status = "InProgress", s.locations = "some"
  PROVE  Lifecycle!Next
  <1>1. /\ Life(si[n]).status = "InProgress" /\ Life(si[n]).locations = "some"
        /\ Life(s) = [Life(si[n]) EXCEPT !.report = TRUE]
    <2> DEFINE yes == TRUE
    <2>1. s.report = yes
      OBVIOUS
    <2> HIDE DEF yes
    <2>2. /\ Life(s) = [status |-> "InProgress", locations |-> "some", report |-> yes]
          /\ Life(si[n]) = [status |-> "InProgress", locations |-> "some",
                            report |-> si[n].report]
      BY <2>1 DEF Life
    <2>3. Life(s) = [Life(si[n]) EXCEPT !.report = yes]
      BY <2>2
    <2>4. Life(s) = [Life(si[n]) EXCEPT !.report = TRUE]
      BY <2>3 DEF yes
    <2>5. Life(si[n]).status = "InProgress" /\ Life(si[n]).locations = "some"
      BY <2>2
    <2> QED
      BY <2>4, <2>5
  <1>2. Shown[n] = Life(si[n]) /\ Shown' = [Shown EXCEPT ![n] = Life(s)]
    BY ShownOne
  <1>3. Shown' = [Shown EXCEPT ![n].report = TRUE]
    BY <1>1, <1>2
  <1>4. Lifecycle!Reported(n)
    BY <1>1, <1>2, <1>3 DEF Lifecycle!Reported, Shown
  <1> QED
    BY <1>4 DEF Lifecycle!Next

LEMMA Transitions ==
  /\ "Queued" \in Lifecycle!ValidTransitions("")
  /\ \A t \in {"InProgress", "Failed"} : t \in Lifecycle!ValidTransitions("Queued")
  /\ \A t \in {"Completed", "Failed"} : t \in Lifecycle!ValidTransitions("InProgress")
  BY DEF Lifecycle!ValidTransitions, Lifecycle!Statuses

LEMMA FlowLife ==
  ASSUME NEW from, from \notin Unprotected, NEW r \in Record, NEW job, NEW locations,
         NEW to, NEW s, Ways(from, r, job, locations, to, s),
         Consistent(r), Due(from, r), from \notin EarlySteps => ~Early(r),
         from = "noVMs" => r.locations = "none",
         from \in {"completed", "completedLocked"} => r.report,
         Entered(r, "RedisDeployment") => r.locations = "some"
  PROVE  \/ s.status = r.status /\ s.report = r.report
         \/ /\ s.report = r.report
            /\ s.status \in Lifecycle!ValidTransitions(r.status)
            /\ s.status = "Completed" => r.locations = "none" \/ r.report
         \/ /\ s.status = r.status /\ s.report = TRUE
            /\ r.status = "InProgress" /\ r.locations = "some"
  <1> USE DEF Unprotected, EarlySteps, RedisSteps, Claiming, Early
  <1>1. CASE \/ s = r \/ s = Sets(r, r.status) \/ \E p, t : s = Adds(r, p, t)
    BY <1>1, SameFields
  <1>2. CASE from = "queued" /\ s = Sets(r, "Queued")
    <2>1. r.status = ""
      BY <1>2 DEF Due, LastSteps
    <2>2. s.status = "Queued" /\ s.report = r.report
      BY <1>2, FieldsKept
    <2> QED
      BY <2>1, <2>2, Transitions
  <1>3. CASE \E t \in {"InProgress", "Failed"} :
                s = Sets(r, t) /\ r.status \in {"Queued", "InProgress"}
    <2>1. PICK t \in {"InProgress", "Failed"} : s = Sets(r, t)
      BY <1>3
    <2>2. s.status = t /\ s.report = r.report
      BY <2>1, FieldsKept
    <2>3. t = r.status \/ t \in Lifecycle!ValidTransitions(r.status)
      BY <1>3, Transitions
    <2> QED
      BY <2>2, <2>3
  <1>4. CASE /\ from \in {"noVMs", "completed", "completedLocked"}
             /\ s = Sets(r, "Completed")
    <2>1. r.status = "InProgress"
      BY <1>4 DEF Due, LastSteps
    <2> QED
      BY <1>4, <2>1, FieldsKept, Transitions
  <1>5. CASE from = "report" /\ s = [r EXCEPT !.report = TRUE]
    <2>1. r.status = "InProgress" /\ Has(r, "Scanning", "InProgress")
      BY <1>5 DEF Due, LastSteps, JobSteps
    <2>2. r.locations = "some"
      BY <2>1, EnteredFacts DEF Consistent
    <2> QED
      BY <1>5, <2>1, <2>2, FieldsTrue
  <1>6. from \notin {"queued"} \cup LastSteps => r.status \in {"Queued", "InProgress"}
    BY DEF Due
  <1>7. CASE PreScanFlow(from, r, job, to, s)
    <2>1. \/ s = r \/ \E p, t : s = Adds(r, p, t)
          \/ from = "queued" /\ s = Sets(r, "Queued")
          \/ from \notin {"queued"} \cup LastSteps /\ s = Sets(r, "InProgress")
      BY <1>7 DEF PreScanFlow, LastSteps
    <2> QED
      BY <1>1, <1>2, <1>3, <1>6, <2>1
  <1>8. CASE ScanFlow(from, r, locations, to, s)
    <2>1. \/ s = r \/ \E p, t : s = Adds(r, p, t)
          \/ from = "report" /\ s = [r EXCEPT !.report = TRUE]
          \/ from \notin {"queued"} \cup LastSteps /\ s = Sets(r, "InProgress")
      BY <1>8 DEF ScanFlow, LastSteps
    <2> QED
      BY <1>1, <1>3, <1>5, <1>6, <2>1
  <1>9. CASE StatusFlow(from, r, to, s)
    <2>1. \/ s = r
          \/ /\ from \in {"noVMs", "completed", "completedLocked"}
             /\ s = Sets(r, "Completed")
          \/ /\ from \notin {"queued"} \cup LastSteps
             /\ \E t \in {"InProgress", "Failed"} : s = Sets(r, t)
      BY <1>9 DEF StatusFlow, LastSteps
    <2> QED
      BY <1>1, <1>3, <1>4, <1>6, <2>1
  <1> QED
    BY <1>7, <1>8, <1>9 DEF Ways

\* What a scan has to show before it is called Completed, and that a container that
\* has yet to report is the first to do so.
Evident ==
    /\ at = "noVMs" => si[cur].locations = "none"
    /\ at \in {"completed", "completedLocked"} => si[cur].report
    /\ \A n \in ScanInstances :
          res[n]["preScan"].state = "active" /\ si[n].incarnation # 0 /\ ~si[n].report
          => si[n].locations = "unknown"

LEMMA IsEvident ==
  ASSUME Story, Placed, IInv
  PROVE  Evident
  <1>0. /\ TypeOK /\ InHand /\ Told /\ cur \in ScanInstances /\ si[cur] \in Record
        /\ Due(at, si[cur])
    BY DEF Story, Told, TypeOK
  <1>1. at \notin Unprotected =>
           /\ Informed(at, copy, si[cur], siCache[cur])
           /\ copy.report = si[cur].report
    BY <1>0, HandFacts DEF IInv, Working, Gone
  <1>2. at = "noVMs" => si[cur].locations = "none"
    <2>1. at = "noVMs" => Has(si[cur], "PreScan", "Completed")
      BY <1>0 DEF Due, Unprotected, PreScanSteps, FailedSteps
    <2> QED
      BY <1>1, <2>1 DEF Informed, Placed, Unprotected
  <1>3. at \in {"completed", "completedLocked"} => si[cur].report
    BY <1>1 DEF Informed, Unprotected
  <1>4. \A n \in ScanInstances :
           res[n]["preScan"].state = "active" /\ si[n].incarnation # 0 /\ ~si[n].report
           => si[n].locations = "unknown"
    BY DEF IInv, JobsTell, Tell, Unreported, Gone, Known
  <1> QED
    BY <1>2, <1>3, <1>4 DEF Evident

LEMMA WorkerLife ==
  ASSUME Story, Placed, Paths, Evident, at \notin Unprotected, WorkerStep
  PROVE  Lifecycle!Next \/ Shown' = Shown
  <1>0. /\ TypeOK /\ InHand /\ Told /\ cur \in ScanInstances /\ si[cur] \in Record
        /\ Consistent(si[cur]) /\ Due(at, si[cur]) /\ si[cur].incarnation # 0
        /\ copy.report = si[cur].report
    BY HandFacts DEF Story, Told, TypeOK
  <1>1. PICK to, s : Flow(to, s) /\ Went(to, s)
    BY <1>0, WorkerFlows DEF Flows
  <1>2. Kept(si[cur], s) /\ si' = [si EXCEPT ![cur] = s]
    BY <1>0, <1>1, FlowsKept DEF Went
  <1>3. s.incarnation # 0 /\ s.locations = si[cur].locations /\ s \in Record
    <2>1. s = si'[cur] /\ TypeOK'
      BY <1>0, <1>2, NextType DEF Next, TypeOK
    <2> QED
      BY <1>0, <1>2, <2>1 DEF Kept, TypeOK
  <1>5. /\ at = "noVMs" => si[cur].locations = "none"
        /\ at \in {"completed", "completedLocked"} => si[cur].report
    BY DEF Evident
  <1>7. /\ at \notin EarlySteps => ~Early(si[cur])
        /\ Entered(si[cur], "RedisDeployment") => si[cur].locations = "some"
    BY <1>0 DEF Paths, Placed
  <1>8. Ways(at, si[cur], Cached("preScan"), copy.locations, to, s)
    BY <1>1 DEF Flow, Ways
  <1>9. \/ s.status = si[cur].status /\ s.report = si[cur].report
        \/ /\ s.report = si[cur].report
           /\ s.status \in Lifecycle!ValidTransitions(si[cur].status)
           /\ s.status = "Completed" => si[cur].locations = "none" \/ si[cur].report
        \/ /\ s.status = si[cur].status /\ s.report = TRUE
           /\ si[cur].status = "InProgress" /\ si[cur].locations = "some"
    BY <1>0, <1>5, <1>7, <1>8, FlowLife
  <1>10. CASE s.status = si[cur].status /\ s.report = si[cur].report
    <2>1. Life(s) = Life(si[cur])
      BY <1>0, <1>3, <1>10 DEF Life
    <2> QED
      BY <1>0, <1>2, <2>1, LifeSame
  <1>11. CASE /\ s.report = si[cur].report
              /\ s.status \in Lifecycle!ValidTransitions(si[cur].status)
              /\ s.status = "Completed" => si[cur].locations = "none" \/ si[cur].report
    BY <1>0, <1>2, <1>3, <1>11, LifeChanged
  <1>12. CASE /\ s.status = si[cur].status /\ s.report = TRUE
              /\ si[cur].status = "InProgress" /\ si[cur].locations = "some"
    BY <1>0, <1>2, <1>3, <1>12, LifeReported
  <1> QED
    BY <1>9, <1>10, <1>11, <1>12

LEMMA FinalizerLife ==
  ASSUME Story, Fresh, AddFinalizer \/ Cleanup \/ RemoveFinalizer
  PROVE  Lifecycle!Next \/ Shown' = Shown
  <1>0. /\ TypeOK /\ InHand /\ cur \in ScanInstances /\ si[cur] \in Record
    BY DEF Story, TypeOK
  <1>1. CASE si' = si
    BY <1>1 DEF Shown
  <1>2. CASE AddFinalizer
    <2>1. ASSUME NEW r, r = [si[cur] EXCEPT !.finalizer = TRUE],
                 si' = [si EXCEPT ![cur] = r]
          PROVE  Shown' = Shown
      <3>1. /\ r.incarnation = si[cur].incarnation /\ r.status = si[cur].status
            /\ r.locations = si[cur].locations /\ r.report = si[cur].report
        BY <1>0, <2>1 DEF Record
      <3>2. Life(r) = Life(si[cur])
        BY <3>1 DEF Life
      <3> QED
        BY <1>0, <2>1, <3>2, LifeSame
    <2> QED
      BY <1>0, <1>1, <1>2, <2>1, AddFinalizerWrites
  <1>3. CASE Cleanup
    BY <1>1, <1>3 DEF Cleanup
  <1>4. CASE RemoveFinalizer
    <2>1. si' = si \/ si' = [si EXCEPT ![cur] = NoRecord]
      BY <1>0, <1>4, RemoveFinalizerWrites
    <2>2. si[cur].incarnation # 0 /\ NoRecord.incarnation = 0
      BY <1>0, <1>4 DEF RemoveFinalizer, At, InHand, NoRecord
    <2> QED
      BY <1>0, <1>1, <2>1, <2>2, LifeRemoved
  <1> QED
    BY <1>2, <1>3, <1>4

LEMMA ClusterLife ==
  ASSUME Story, Placed, Paths, Evident, NEW n \in ScanInstances, Cluster(n)
  PROVE  Lifecycle!Next \/ Shown' = Shown
  <1>0. /\ TypeOK /\ InHand /\ Told /\ si[n] \in Record /\ created[n] \in Nat
    BY DEF Story, TypeOK
  <1>1. CASE si' = si
    BY <1>1 DEF Shown
  <1>2. ASSUME NEW r, si' = [si EXCEPT ![n] = r], si[n].incarnation = 0,
               r = [NoRecord EXCEPT !.incarnation = created[n] + 1]
        PROVE  Lifecycle!Next
    <2> DEFINE i == created[n] + 1
    <2>1. i # 0 /\ r = [NoRecord EXCEPT !.incarnation = i]
      BY <1>0, <1>2
    <2> HIDE DEF i
    <2>2. /\ r.incarnation # 0 /\ r.status = "" /\ r.locations = "unknown"
          /\ r.report = FALSE
      BY <2>1 DEF NoRecord
    <2> QED
      BY <1>0, <1>2, <2>2, LifeCreated
  <1>3. ASSUME NEW r, si' = [si EXCEPT ![n] = r], r = [si[n] EXCEPT !.deleting = TRUE]
        PROVE  Shown' = Shown
    <2>1. /\ r.incarnation = si[n].incarnation /\ r.status = si[n].status
          /\ r.locations = si[n].locations /\ r.report = si[n].report
      BY <1>0, <1>3 DEF Record
    <2>2. Life(r) = Life(si[n])
      BY <2>1 DEF Life
    <2> QED
      BY <1>0, <1>3, <2>2, LifeSame
  <1>4. ASSUME si' = [si EXCEPT ![n] = NoRecord], si[n].incarnation # 0
        PROVE  Lifecycle!Next
    <2>1. NoRecord.incarnation = 0
      BY DEF NoRecord
    <2> QED
      BY <1>0, <1>4, <2>1, LifeRemoved
  <1>5. ASSUME NEW l \in {"none", "some"},
               si' = [si EXCEPT ![n] = [si[n] EXCEPT !.locations = l]],
               res[n]["preScan"].state = "active", si[n].incarnation # 0
        PROVE  Lifecycle!Next
    <2>1. ~Has(si[n], "PreScan", "Completed") /\ Consistent(si[n])
      BY <1>0, <1>5 DEF Placed, Told
    <2>2. si[n].status \in {"InProgress", "Failed"}
      <3>1. ~Early(si[n])
        BY <1>5 DEF Paths, NoObject
      <3>2. si[n].status # "Completed"
        BY <2>1 DEF Placed
      <3> QED
        BY <1>0, <3>1, <3>2 DEF Early, Record, Statuses
    <2>3. ~si[n].report
      BY <1>0, <2>1, EnteredFacts DEF Consistent
    <2>4. si[n].locations = "unknown"
      BY <1>5, <2>3 DEF Evident
    <2> QED
      BY <1>0, <1>5, <2>2, <2>4, LifeInspected
  <1>6. CASE \E r : si' = [si EXCEPT ![n] = r] /\ Becoming(n, r)
    BY <1>2, <1>3, <1>4, <1>5, <1>6 DEF Becoming
  <1> QED
    BY <1>1, <1>6, ClusterTouches DEF Touched

LEMMA NextLife ==
  ASSUME Story, Placed, Paths, Evident, Fresh, Next
  PROVE  Lifecycle!Next \/ Shown' = Shown
  <1>1. CASE si' = si
    BY <1>1 DEF Shown
  <1>2. CASE WorkerStep
    BY <1>2, WorkerLife, AtTheFinalizer, FinalizerLife
  <1>3. CASE \/ \E n \in ScanInstances : Start(n)
             \/ DeliverScanInstances \/ (\E i \in Informers : Deliver(i)) \/ Crash
    BY <1>1, <1>3 DEF Start, DeliverScanInstances, Deliver, Crash, server
  <1>4. CASE \E n \in ScanInstances : Cluster(n)
    BY <1>4, ClusterLife
  <1> QED
    BY <1>2, <1>3, <1>4 DEF Next

LEMMA InitLife ==
  ASSUME Init
  PROVE  Lifecycle!Init
  <1>1. Life(NoRecord) = Lifecycle!Nothing
    BY DEF Life, NoRecord, Lifecycle!Nothing
  <1> QED
    BY <1>1 DEF Init, Lifecycle!Init

\* With an informer of ScanInstances that is not behind, however far the others are,
\* without faults and for names that are used once, every step of controller and
\* cluster is a step of the life cycle or none:
\* the status makes only the transitions that the webhook lists, with the evidence
\* that each of them stands for, the locations are found once, and the report
\* follows them.
THEOREM Refinement == Faultless => (Spec => ImplementsLifecycle)
  <1> SUFFICES ASSUME Faultless
               PROVE  Spec => ImplementsLifecycle
    OBVIOUS
  <1>0. Fresh /\ OneReport /\ MaxIncarnations = 1
    BY DEF Faultless, OneReport
  <1>1. Init => Lifecycle!Init
    BY InitLife
  <1>2. Story /\ Placed /\ IInv => Evident
    BY IsEvident
  <1>3. Story /\ Placed /\ Paths /\ Evident /\ [Next]_vars
           => [Lifecycle!Next]_([n \in ScanInstances |-> Life(si[n])])
    <2>1. UNCHANGED vars => Shown' = Shown
      BY DEF vars, Shown
    <2> QED
      BY <1>0, <2>1, NextLife DEF Shown
  <1> QED
    BY <1>0, <1>1, <1>2, <1>3, StoryTold, PlacedAlways, PathsAlways, Invariance, PTL
       DEF Spec, ImplementsLifecycle, Lifecycle!Spec
=============================================================================
