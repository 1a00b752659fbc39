-------------------------- MODULE ScanInstanceTypes --------------------------
(***************************************************************************)
(* Type correctness of the ScanInstance controller.                        *)
(***************************************************************************)
EXTENDS ScanInstanceProperties, TLAPS

(* Types: of the parts of a step first, then of every step. *)

LEMMA NoRecordType == NoRecord \in Record
  BY DEF NoRecord, Record, Statuses

LEMMA NoObjectType == NoObject \in Object
  BY DEF NoObject, Object

\* Where a reconciliation may go from any step.
Targets == Labels \cup {"retry"}

LEMMA GotoType ==
  ASSUME TypeOK, NEW label \in Targets, NEW c \in Record, Goto(label, c)
  PROVE  at' \in Labels /\ queue' \subseteq ScanInstances /\ copy' \in Record
         /\ cur' = cur /\ cur' \in ScanInstances
  BY NoRecordType DEF TypeOK, Goto, Targets, Labels

LEMMA MoveType ==
  ASSUME TypeOK, NEW label \in Targets, Move(label)
  PROVE  TypeOK'
  <1>1. copy \in Record
    BY DEF TypeOK
  <1>2. Goto(label, copy) /\ UNCHANGED <<server, caches, bounds>>
    BY DEF Move
  <1> QED
    BY <1>1, <1>2, GotoType DEF TypeOK, server, caches, bounds

LEMMA AcceptedType ==
  ASSUME TypeOK, NEW label \in Targets, NEW record \in Record,
         Accepted(record, label)
  PROVE  TypeOK'
  <1>1. /\ Goto(label, record)
        /\ si' = [si EXCEPT ![cur] = record]
        /\ UNCHANGED <<res, caches, bounds>>
    BY DEF Accepted
  <1>2. si' \in [ScanInstances -> Record]
    BY <1>1 DEF TypeOK
  <1> QED
    BY <1>1, <1>2, GotoType DEF TypeOK, caches, bounds

LEMMA FaultType ==
  ASSUME TypeOK, Fault
  PROVE  faults' \in 0..MaxFaults
  BY ConstantsAssumption DEF TypeOK, Fault

LEMMA RefusedType ==
  ASSUME TypeOK, Refused
  PROVE  TypeOK'
  <1>1. Goto("retry", copy) /\ UNCHANGED <<server, caches, created>>
    BY DEF Refused
  <1>2. "retry" \in Targets /\ copy \in Record
    BY DEF Targets, TypeOK
  <1>3. faults' \in 0..MaxFaults
    BY FaultType DEF Refused, TypeOK
  <1> QED
    BY <1>1, <1>2, <1>3, GotoType DEF TypeOK, server, caches

LEMMA PatchStatusType ==
  ASSUME TypeOK, NEW label \in Targets, NEW status \in Statuses,
         PatchStatus(status, label)
  PROVE  TypeOK'
  <1>1. CASE Refused
    BY <1>1, RefusedType
  <1>2. CASE Accepted(IF copy.status = status THEN si[cur]
                      ELSE [si[cur] EXCEPT !.status = status], label)
    <2>1. si[cur] \in Record /\ [si[cur] EXCEPT !.status = status] \in Record
      BY DEF TypeOK, Record
    <2> QED
      BY <1>2, <2>1, AcceptedType
  <1> QED
    BY <1>1, <1>2 DEF PatchStatus

LEMMA PatchConditionType ==
  ASSUME TypeOK, NEW label \in Targets, NEW phase, NEW status,
         <<phase, status>> \in Conditions, PatchCondition(phase, status, label)
  PROVE  TypeOK'
  <1>1. CASE Move(label)
    BY <1>1, MoveType
  <1>2. CASE Refused
    BY <1>2, RefusedType
  <1>3. CASE Accepted([si[cur] EXCEPT !.conditions =
                          copy.conditions \cup {<<phase, status>>}], label)
    <2>1. copy.conditions \cup {<<phase, status>>} \in SUBSET Conditions
      BY DEF TypeOK, Record
    <2>2. [si[cur] EXCEPT !.conditions =
              copy.conditions \cup {<<phase, status>>}] \in Record
      BY <2>1 DEF TypeOK, Record
    <2> QED
      BY <1>3, <2>2, AcceptedType
  <1> QED
    BY <1>1, <1>2, <1>3 DEF PatchCondition

LEMMA CreateType ==
  ASSUME TypeOK, NEW kind \in Kinds, NEW state, [state |-> state, owner |-> 0] \in Object,
         NEW accepted \in Targets, NEW exists \in Targets,
         NEW rejected \in Targets,
         Create(kind, state, accepted, exists, rejected)
  PROVE  TypeOK'
  <1>0. copy \in Record /\ copy.incarnation \in Nat /\ cur \in ScanInstances
    BY DEF TypeOK, Record
  <1>1. CASE Move(exists)
    BY <1>1, MoveType
  <1>2. CASE Fault /\ Goto(rejected, copy) /\ UNCHANGED <<server, caches, created>>
    BY <1>0, <1>2, GotoType, FaultType DEF TypeOK, server, caches
  <1>3. CASE /\ res' = [res EXCEPT ![cur][kind] =
                           [state |-> state,
                            owner |-> IF kind \in Owned THEN copy.incarnation ELSE 0]]
             /\ Goto(accepted, copy)
             /\ UNCHANGED <<si, caches, bounds>>
    <2>1. [state |-> state,
           owner |-> IF kind \in Owned THEN copy.incarnation ELSE 0] \in Object
      BY <1>0 DEF Object
    <2>2. res' \in [ScanInstances -> [Kinds -> Object]]
      BY <1>0, <1>3, <2>1 DEF TypeOK
    <2> QED
      BY <1>0, <1>3, <2>2, GotoType DEF TypeOK, caches, bounds
  <1> QED
    BY <1>1, <1>2, <1>3 DEF Create

LEMMA StartType ==
  ASSUME TypeOK, NEW n \in ScanInstances, Start(n)
  PROVE  TypeOK'
  <1>1. siCache[n] \in Record
    BY DEF TypeOK
  <1>2. FirstStep(siCache[n]) \in Labels
    BY DEF FirstStep, AfterFinalizer, Route, Labels
  <1> QED
    BY <1>1, <1>2, NoRecordType DEF TypeOK, Start, server, caches, bounds

LEMMA FinalizerType ==
  ASSUME TypeOK, AddFinalizer \/ Cleanup \/ RemoveFinalizer \/ MarkQueued
  PROVE  TypeOK'
  <1>0. /\ si[cur] \in Record /\ siCache[cur] \in Record /\ copy \in Record
        /\ cur \in ScanInstances /\ "retry" \in Targets /\ "idle" \in Targets
        /\ "removeFinalizer" \in Targets
    BY DEF TypeOK, Targets, Labels
  <1>1. CASE AddFinalizer
    <2> DEFINE record == [si[cur] EXCEPT !.finalizer = TRUE]
    <2>1. record \in Record
      BY <1>0 DEF Record
    <2>2. AfterFinalizer(record) \in Targets
      BY DEF AfterFinalizer, Route, Targets, Labels
    <2>3. \/ Accepted(record, AfterFinalizer(record))
          \/ Refused \/ Move("retry")
      BY <1>1 DEF AddFinalizer, AtVersion
    <2> QED
      BY <1>0, <2>1, <2>2, <2>3, AcceptedType, RefusedType, MoveType
  <1>2. CASE Cleanup
    <2>1. PICK kinds :
             /\ res' = Deleted(cur, kinds)
             /\ \/ Goto("removeFinalizer", copy) /\ UNCHANGED bounds
                \/ Fault /\ Goto("retry", copy) /\ UNCHANGED created
             /\ UNCHANGED <<si, caches>>
      BY <1>2 DEF Cleanup
    <2>2. res' \in [ScanInstances -> [Kinds -> Object]]
      BY <2>1, NoObjectType DEF Deleted, TypeOK
    <2>3. faults' \in 0..MaxFaults /\ created' = created
      BY <2>1, FaultType DEF bounds, TypeOK
    <2> QED
      BY <1>0, <2>1, <2>2, <2>3, GotoType DEF TypeOK, caches
  <1>3. CASE RemoveFinalizer
    <2> DEFINE record == IF si[cur].deleting THEN NoRecord
                         ELSE [si[cur] EXCEPT !.finalizer = FALSE]
    <2>1. record \in Record
      BY <1>0, NoRecordType DEF Record
    <2>2. Accepted(record, "idle") \/ Refused \/ Move("retry") \/ Move("idle")
      BY <1>3 DEF RemoveFinalizer, AtVersion
    <2> QED
      BY <1>0, <2>1, <2>2, AcceptedType, RefusedType, MoveType
  <1>4. CASE MarkQueued
    <2> DEFINE record == [si[cur] EXCEPT !.status = "Queued"]
    <2>1. record \in Record
      BY <1>0 DEF Record, Statuses
    <2>2. Route(record) \in Targets
      BY DEF Route, Targets, Labels
    <2>3. Accepted(record, Route(record)) \/ Refused
      BY <1>4 DEF MarkQueued
    <2> QED
      BY <2>1, <2>2, <2>3, AcceptedType, RefusedType
  <1> QED
    BY <1>1, <1>2, <1>3, <1>4

\* Steps that only decide where to go.
LEMMA DecisionType ==
  ASSUME TypeOK,
         \/ ReadPreScanJob \/ ReconcileScanPhase
         \/ RefetchRedisDeployment \/ RefetchRedisService
  PROVE  TypeOK'
  <1>1. PICK label \in Targets : Move(label)
    <2>1. CASE ReadPreScanJob
      BY <2>1 DEF ReadPreScanJob, Targets, Labels
    <2>2. CASE ReconcileScanPhase
      BY <2>2 DEF ReconcileScanPhase, ScanJobRoute, BeforeScan, RedisRoute,
                  Targets, Labels
    <2>3. CASE RefetchRedisDeployment
      BY <2>3 DEF RefetchRedisDeployment, RedisFound, Targets, Labels
    <2>4. CASE RefetchRedisService
      BY <2>4 DEF RefetchRedisService, ServiceFound, Targets, Labels
    <2> QED
      BY <2>1, <2>2, <2>3, <2>4
  <1> QED
    BY <1>1, MoveType

\* Steps that patch the status.
LEMMA StatusType ==
  ASSUME TypeOK,
         \/ MarkPreScanInProgress \/ MarkPreScanRunning \/ MarkFailed
         \/ MarkNoVMs \/ MarkRedisGaveUp \/ MarkScanRunning \/ MarkCompleted
  PROVE  TypeOK'
  <1>1. PICK label \in Targets :
           \/ Move(label)
           \/ \E status \in Statuses : PatchStatus(status, label)
    <2>1. CASE MarkPreScanInProgress \/ MarkNoVMs \/ MarkRedisGaveUp
      BY <2>1 DEF MarkPreScanInProgress, MarkNoVMs, MarkRedisGaveUp, Targets,
                  Labels, Statuses
    <2>2. CASE MarkPreScanRunning
      BY <2>2 DEF MarkPreScanRunning, Targets, Labels, Statuses
    <2>3. CASE MarkScanRunning
      BY <2>3 DEF MarkScanRunning, Targets, Labels, Statuses
    <2>4. CASE MarkFailed
      BY <2>4 DEF MarkFailed, Targets, Labels, Statuses
    <2>5. CASE MarkCompleted
      BY <2>5 DEF MarkCompleted, AtVersion, Targets, Labels, Statuses
    <2> QED
      BY <2>1, <2>2, <2>3, <2>4, <2>5
  <1> QED
    BY <1>1, MoveType, PatchStatusType

\* Steps that add a condition.
LEMMA ConditionType ==
  ASSUME TypeOK,
         \/ MarkPreScanStarted \/ MarkPreScanRejected \/ MarkPreScanCompleted
         \/ MarkPreScanFailed \/ MarkRedisStarted \/ MarkRedisReady
         \/ MarkRedisFailed \/ MarkScanRejected \/ MarkScanStarted
         \/ MarkScanFailed \/ MarkScanCompleted
  PROVE  TypeOK'
  <1>1. PICK label \in Targets :
           \/ Move(label)
           \/ \E c \in Conditions : PatchCondition(c[1], c[2], label)
    <2> DEFINE Patches(phase, status, label) ==
                  \E c \in Conditions : PatchCondition(c[1], c[2], label)
    <2>1. ASSUME NEW phase \in {"PreScan", "RedisDeployment", "Scanning"},
                 NEW status \in {"InProgress", "Ready", "Completed", "Failed"},
                 NEW label, PatchCondition(phase, status, label)
          PROVE  Patches(phase, status, label)
      <3>1. <<phase, status>> \in Conditions
        BY DEF Conditions
      <3> QED
        BY <2>1, <3>1, <<phase, status>>[1] = phase, <<phase, status>>[2] = status
    <2> HIDE DEF Patches
    <2>2. PICK label, phase, status :
             /\ label \in Targets
             /\ Move(label) \/ Patches(phase, status, label)
      BY <2>1 DEF MarkPreScanStarted, MarkPreScanRejected, MarkPreScanCompleted,
                  MarkPreScanFailed, MarkRedisStarted, MarkRedisReady,
                  MarkRedisFailed, MarkScanRejected, MarkScanStarted,
                  MarkScanFailed, MarkScanCompleted, Targets, Labels
    <2> QED
      BY <2>2 DEF Patches
  <1>2. \A c \in Conditions : <<c[1], c[2]>> = c
    BY DEF Conditions
  <1> QED
    BY <1>1, <1>2, MoveType, PatchConditionType

\* Steps that create an object.
LEMMA CreationType ==
  ASSUME TypeOK,
         \/ CreatePreScanJob \/ CreateRedisDeployment \/ CreateRedisService
         \/ CreateScanConfigMap \/ CreateScanSecret \/ CreateScanJob
         \/ CreateJanitorJob
  PROVE  TypeOK'
  <1>0. \A state \in {"new", "starting", "exists"} :
           [state |-> state, owner |-> 0] \in Object
    BY DEF Object, JobStates
  <1>1. \A label \in {"idle", "preScanRejected", "redisExists", "serviceExists",
                      "serviceReadyExists", "service", "serviceReady",
                      "redisReady", "redisFailed", "secret", "scanJob",
                      "scanStarted", "scanRejected"} : label \in Targets
    BY DEF Targets, Labels
  <1>2. Kinds = {"preScan", "scan", "janitor", "redis", "service", "configMap",
                 "secret"}
    BY DEF Kinds, Jobs
  <1>3. CASE CreatePreScanJob
    BY <1>0, <1>1, <1>2, <1>3, CreateType DEF CreatePreScanJob
  <1>4. CASE CreateRedisDeployment
    <2>1. RedisFound \in Targets
      BY <1>1 DEF RedisFound
    <2> QED
      BY <1>0, <1>1, <1>2, <1>4, <2>1, MoveType, CreateType
      DEF CreateRedisDeployment
  <1>5. CASE CreateRedisService
    <2>1. ServiceFound(at) \in Targets
      BY <1>1 DEF ServiceFound
    <2> QED
      BY <1>0, <1>1, <1>2, <1>5, <2>1, MoveType, CreateType
      DEF CreateRedisService
  <1>6. CASE CreateScanConfigMap
    BY <1>0, <1>1, <1>2, <1>6, CreateType DEF CreateScanConfigMap
  <1>7. CASE CreateScanSecret
    BY <1>0, <1>1, <1>2, <1>7, CreateType DEF CreateScanSecret
  <1>8. CASE CreateScanJob
    BY <1>0, <1>1, <1>2, <1>8, MoveType, CreateType DEF CreateScanJob
  <1>9. CASE CreateJanitorJob
    BY <1>0, <1>1, <1>2, <1>9, MoveType, CreateType DEF CreateJanitorJob
  <1> QED
    BY <1>3, <1>4, <1>5, <1>6, <1>7, <1>8, <1>9

LEMMA ReportType ==
  ASSUME TypeOK, UpdateReport
  PROVE  TypeOK'
  <1>1. /\ [si[cur] EXCEPT !.report = TRUE] \in Record
        /\ "completedLocked" \in Targets /\ "retry" \in Targets
    BY DEF TypeOK, Record, Targets, Labels
  <1>2. \/ Accepted([si[cur] EXCEPT !.report = TRUE], "completedLocked")
        \/ Refused \/ Move("retry")
    BY DEF UpdateReport, AtVersion
  <1> QED
    BY <1>1, <1>2, AcceptedType, RefusedType, MoveType

LEMMA WorkerType ==
  ASSUME TypeOK, WorkerStep
  PROVE  TypeOK'
  BY FinalizerType, DecisionType, StatusType, ConditionType, CreationType,
     ReportType DEF WorkerStep

\* The manager outside a reconciliation.
LEMMA ManagerType ==
  ASSUME TypeOK,
         DeliverScanInstances \/ (\E i \in Informers : Deliver(i)) \/ Crash
  PROVE  TypeOK'
  <1>1. CASE DeliverScanInstances
    BY <1>1 DEF TypeOK, DeliverScanInstances, server, worker, bounds
  <1>2. CASE \E i \in Informers : Deliver(i)
    <2>1. PICK i \in Informers : Deliver(i)
      BY <1>2
    <2>2. resCache' \in [ScanInstances -> [Kinds -> Object]]
      BY <2>1 DEF TypeOK, Deliver
    <2>3. queue' \subseteq ScanInstances
      BY <2>1 DEF TypeOK, Deliver
    <2> QED
      BY <2>1, <2>2, <2>3 DEF TypeOK, Deliver, server, worker, bounds
  <1>3. CASE Crash
    BY <1>3, FaultType, NoRecordType DEF TypeOK, Crash, server, Labels
  <1> QED
    BY <1>1, <1>2, <1>3

LEMMA ObjectType ==
  ASSUME TypeOK, NEW n \in ScanInstances, NEW k \in Kinds
  PROVE  res[n][k] \in Object /\ res[n] \in [Kinds -> Object]
  BY DEF TypeOK

\* An object in another state is still an object.
LEMMA StateType ==
  ASSUME NEW o \in Object, NEW s \in JobStates \cup {"starting", "ready"}
  PROVE  [o EXCEPT !.state = s] \in Object
  BY DEF Object

\* Replacing one object of one ScanInstance.
LEMMA ReplaceType ==
  ASSUME TypeOK, NEW n \in ScanInstances, NEW k \in Kinds, NEW o \in Object,
         res' = [res EXCEPT ![n] = [res[n] EXCEPT ![k] = o]]
  PROVE  res' \in [ScanInstances -> [Kinds -> Object]]
  BY ObjectType DEF TypeOK

LEMMA BecomesType ==
  ASSUME TypeOK, NEW n \in ScanInstances, NEW k \in Kinds, NEW from,
         NEW to \in JobStates \cup {"ready"}, Becomes(n, k, from, to)
  PROVE  TypeOK'
  <1>1. [res[n][k] EXCEPT !.state = to] \in Object
    BY ObjectType, StateType
  <1>2. res' = [res EXCEPT ![n] = [res[n] EXCEPT ![k] = [res[n][k] EXCEPT !.state = to]]]
    BY DEF Becomes
  <1>3. res' \in [ScanInstances -> [Kinds -> Object]]
    BY <1>1, <1>2, ReplaceType
  <1> QED
    BY <1>3 DEF TypeOK, Becomes, Outside, caches, worker

\* What jobs and deployments do by themselves.
LEMMA PodType ==
  ASSUME TypeOK, NEW n \in ScanInstances,
         \/ \E k \in Jobs :
               \/ JobStarts(n, k) \/ JobBlocked(n, k) \/ JobUnblocked(n, k)
               \/ ImageMissing(n, k) \/ ImageFound(n, k) \/ JobFails(n, k)
         \/ JobSucceeds(n) \/ RedisStarts(n)
  PROVE  TypeOK'
  <1>1. PICK k \in Kinds, to \in JobStates \cup {"ready"} :
           \E from : Becomes(n, k, from, to)
    <2>1. CASE \E k \in Jobs :
               \/ JobStarts(n, k) \/ JobBlocked(n, k) \/ JobUnblocked(n, k)
               \/ ImageMissing(n, k) \/ ImageFound(n, k) \/ JobFails(n, k)
      BY <2>1 DEF JobStarts, JobBlocked, JobUnblocked, ImageMissing, ImageFound,
                  JobFails, Kinds, JobStates
    <2>2. CASE JobSucceeds(n) \/ RedisStarts(n)
      BY <2>2 DEF JobSucceeds, RedisStarts, Kinds, Jobs, JobStates
    <2> QED
      BY <2>1, <2>2
  <1> QED
    BY <1>1, BecomesType

LEMMA UserType ==
  ASSUME TypeOK, NEW n \in ScanInstances,
         UserCreate(n) \/ UserDelete(n) \/ PreScanReports(n)
  PROVE  TypeOK'
  <1>0. si[n] \in Record
    BY DEF TypeOK
  <1>1. CASE UserCreate(n)
    <2>1. created[n] \in Nat /\ created[n] + 1 \in 0..MaxIncarnations
      BY <1>1, ConstantsAssumption DEF UserCreate, TypeOK
    <2>2. [NoRecord EXCEPT !.incarnation = created[n] + 1] \in Record
      BY <2>1, NoRecordType DEF Record
    <2>3. /\ si' \in [ScanInstances -> Record]
          /\ created' \in [ScanInstances -> 0..MaxIncarnations]
      BY <1>1, <2>1, <2>2 DEF UserCreate, TypeOK
    <2> QED
      BY <1>1, <2>3 DEF UserCreate, Outside, TypeOK, caches, worker
  <1>2. CASE UserDelete(n)
    <2>1. /\ [si[n] EXCEPT !.deleting = TRUE] \in Record
          /\ NoRecord \in Record
      BY <1>0, NoRecordType DEF Record
    <2>2. si' \in [ScanInstances -> Record]
      BY <1>2, <2>1 DEF UserDelete, TypeOK
    <2> QED
      BY <1>2, <2>2 DEF UserDelete, Outside, TypeOK, caches, worker
  <1>3. CASE PreScanReports(n)
    <2>1. "preScan" \in Kinds
      BY DEF Kinds, Jobs
    <2>2. \A s \in {"failed", "reported"} :
             [res[n]["preScan"] EXCEPT !.state = s] \in Object
      BY <2>1, ObjectType, StateType DEF JobStates
    <2>3. \/ res' = [res EXCEPT ![n]["preScan"].state = "failed"]
          \/ res' = [res EXCEPT ![n]["preScan"].state = "reported"]
      BY <1>3 DEF PreScanReports
    <2>4. res' \in [ScanInstances -> [Kinds -> Object]]
      BY <2>1, <2>2, <2>3, ReplaceType
    <2>5. \A l \in {"none", "some"} : [si[n] EXCEPT !.locations = l] \in Record
      BY <1>0 DEF Record
    <2>6. si' \in [ScanInstances -> Record]
      BY <1>3, <2>5 DEF PreScanReports, TypeOK
    <2> QED
      BY <1>3, <2>4, <2>6 DEF PreScanReports, Outside, TypeOK, caches, worker
  <1> QED
    BY <1>1, <1>2, <1>3

\* What deletes objects, or restarts them.
LEMMA RemovalType ==
  ASSUME TypeOK, NEW n \in ScanInstances,
         \/ JanitorRuns(n) \/ JanitorExpires(n) \/ RedisRestarts(n)
         \/ \E k \in Kinds : GarbageCollect(n, k)
  PROVE  TypeOK'
  <1>1. "janitor" \in Kinds /\ "redis" \in Kinds
    BY DEF Kinds, Jobs
  <1>2. CASE JanitorRuns(n)
    <2>1. PICK kinds : JanitorDone(n, kinds)
      BY <1>2 DEF JanitorRuns
    <2> DEFINE left == [k \in Kinds |-> IF k \in kinds THEN NoObject ELSE res[n][k]]
    <2>2. left \in [Kinds -> Object]
      BY NoObjectType DEF TypeOK
    <2>3. Deleted(n, kinds) = [res EXCEPT ![n] = left]
      BY DEF Deleted
    <2> HIDE DEF left
    <2>4. [left["janitor"] EXCEPT !.state = "succeeded"] \in Object
      BY <1>1, <2>2, StateType DEF JobStates
    <2>5. res' = [res EXCEPT ![n] = [left EXCEPT !["janitor"] =
                     [left["janitor"] EXCEPT !.state = "succeeded"]]]
      BY <2>1, <2>3 DEF JanitorDone, TypeOK
    <2>6. res' \in [ScanInstances -> [Kinds -> Object]]
      BY <2>2, <2>4, <2>5 DEF TypeOK
    <2>7. faults' \in 0..MaxFaults
      BY <1>2, FaultType DEF JanitorRuns, TypeOK
    <2> QED
      BY <1>2, <2>6, <2>7 DEF JanitorRuns, TypeOK, caches, worker
  <1>3. CASE JanitorExpires(n)
    <2>1. res' \in [ScanInstances -> [Kinds -> Object]]
      BY <1>1, <1>3, NoObjectType DEF JanitorExpires, TypeOK
    <2> QED
      BY <1>3, <2>1 DEF JanitorExpires, Outside, TypeOK, caches, worker
  <1>4. CASE RedisRestarts(n)
    <2>1. [res[n]["redis"] EXCEPT !.state = "starting"] \in Object
      BY <1>1, ObjectType, StateType
    <2>2. res' = [res EXCEPT ![n] = [res[n] EXCEPT !["redis"] =
                     [res[n]["redis"] EXCEPT !.state = "starting"]]]
      BY <1>4 DEF RedisRestarts
    <2>3. res' \in [ScanInstances -> [Kinds -> Object]]
      BY <1>1, <2>1, <2>2, ReplaceType
    <2> QED
      BY <1>4, <2>3, FaultType DEF RedisRestarts, TypeOK, caches, worker
  <1>5. CASE \E k \in Kinds : GarbageCollect(n, k)
    <2>1. PICK k \in Kinds : GarbageCollect(n, k)
      BY <1>5
    <2>2. res' \in [ScanInstances -> [Kinds -> Object]]
      BY <2>1, NoObjectType DEF GarbageCollect, TypeOK
    <2> QED
      BY <2>1, <2>2 DEF GarbageCollect, Outside, TypeOK, caches, worker
  <1> QED
    BY <1>2, <1>3, <1>4, <1>5

LEMMA NextType ==
  ASSUME TypeOK, Next
  PROVE  TypeOK'
  <1>1. CASE \E n \in ScanInstances : Start(n)
    BY <1>1, StartType
  <1>2. CASE WorkerStep
    BY <1>2, WorkerType
  <1>3. CASE DeliverScanInstances \/ (\E i \in Informers : Deliver(i)) \/ Crash
    BY <1>3, ManagerType
  <1>4. CASE \E n \in ScanInstances : Cluster(n)
    <2>1. PICK n \in ScanInstances : Cluster(n)
      BY <1>4
    <2> QED
      BY <2>1, PodType, UserType, RemovalType DEF Cluster
  <1> QED
    BY <1>1, <1>2, <1>3, <1>4 DEF Next

LEMMA InitType ==
  ASSUME Init
  PROVE  TypeOK
  BY NoRecordType, NoObjectType, ConstantsAssumption DEF Init, TypeOK, Labels

\* The controller never leaves its types: no step that ends in an error, and no
\* response of the API server, takes the worker to a step that does not exist.
THEOREM TypeCorrect == Spec => []TypeOK
  <1>1. TypeOK /\ [Next]_vars => TypeOK'
    BY NextType DEF vars, TypeOK
  <1> QED
    BY InitType, <1>1, PTL DEF Spec

=============================================================================
