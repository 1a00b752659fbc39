------------------------ MODULE TargetControllerSafety ------------------------
(***************************************************************************)
(* The types of the Target controller, for every value of the constants; a *)
(* step that takes the worker further must know that its Target is still   *)
(* stored, which the finalizer guarantees, and that its locals have been   *)
(* set by the steps before.  Then what Targets that share credentials may  *)
(* rely on, for any number of Targets whose credentials do not change, and *)
(* which are of one kind if they share them.                               *)
(***************************************************************************)
EXTENDS TargetControllerProperties, TLAPS

\* Steps before the hash of the credentials is computed.
Early == {"idle", "addFinalizer", "read", "cleanup", "removeFinalizer"}

ObjectTypes ==
    /\ target \in [Targets -> Record]
    /\ job \in [Hashes -> Job]
    /\ \A h \in Hashes : job[h].state # "absent" => job[h].by \in Targets
    /\ entry \in [Hashes -> {"none", "Valid", "Invalid"}]
    /\ cron \in [Hashes -> Targets \cup {NoTarget}]
    /\ volume \in [Hashes -> Volume]
    /\ proven \subseteq Hashes \X BOOLEAN
    /\ edits \in 0..MaxEdits
    /\ faults \in 0..MaxFaults

WorkerTypes ==
    /\ queue \subseteq Targets
    /\ at \in Labels
    /\ cur \in Targets
    /\ spec \in Hashes \cup {NoHash}
    /\ hash \in Hashes \cup {NoHash}
    /\ hash = NoHash => at \in Early
    /\ updated \in BOOLEAN
    /\ outcome \in JobStatuses

\* What is stored has credentials, and what is deleted its finalizer.
Stored == \A t \in Targets :
              target[t].exists => /\ target[t].creds \in Hashes
                                  /\ target[t].deleting => target[t].finalizer

\* Once it has its finalizer, a Target stays while it is reconciled.
Held == at \notin {"idle", "addFinalizer"} =>
            target[cur].exists /\ target[cur].finalizer

Copied == at # "idle" => spec \in Hashes

Judged ==
    /\ at = "verdict" => outcome # "none"
    /\ at \in {"verdictCondition", "verdictStatus"} => outcome \in Outcomes

TInv == ObjectTypes /\ WorkerTypes /\ Stored /\ Held /\ Copied /\ Judged

-----------------------------------------------------------------------------

LEMMA TypesAreParts == ObjectTypes /\ WorkerTypes => TypeOK
  BY DEF TypeOK, ObjectTypes, WorkerTypes, Early

\* Where a worker goes on, or ends.
LEMMA ContinueKeeps ==
  ASSUME ConstantsAssumption, WorkerTypes, target' \in [Targets -> Record],
         NEW label \in Labels \cup {"retry"}, NEW copy,
         Continue(label, copy),
         label \in Early \cup {"retry"} \/ hash # NoHash,
         label \notin {"idle", "retry"} => copy \in Hashes,
         label \notin {"idle", "retry", "addFinalizer"} =>
             target'[cur].exists /\ target'[cur].finalizer,
         label \notin {"verdict", "verdictCondition"},
         label = "verdictStatus" => outcome \in Outcomes
  PROVE  WorkerTypes' /\ Held' /\ Copied' /\ Judged'
<1>1. Woken \subseteq Targets
  BY DEF Woken
<1>2. CASE label \in {"idle", "retry"}
  <2>1. Ends /\ queue' \in {queue \cup Woken, queue \cup {cur} \cup Woken}
    BY <1>2 DEF Continue
  <2>2. queue' \subseteq Targets
    BY <1>1, <2>1 DEF WorkerTypes
  <2> QED
    BY <2>1, <2>2 DEF Ends, WorkerTypes, Held, Copied, Judged, Labels, Early, JobStatuses
<1>3. CASE label \notin {"idle", "retry"}
  <2>1. /\ at' = label /\ spec' = copy /\ queue' = queue \cup Woken
        /\ UNCHANGED <<cur, hash, updated, outcome>>
    BY <1>3 DEF Continue
  <2>2. queue' \subseteq Targets
    BY <1>1, <2>1 DEF WorkerTypes
  <2>3. WorkerTypes'
    BY <1>3, <2>1, <2>2 DEF WorkerTypes, Early
  <2>4. Held' /\ Copied' /\ Judged'
    BY <1>3, <2>1 DEF Held, Copied, Judged
  <2> QED
    BY <2>3, <2>4
<1> QED
  BY <1>2, <1>3

LEMMA RefusedKeeps ==
  ASSUME ConstantsAssumption, TInv, Refused
  PROVE  TInv'
<1>1. ObjectTypes' /\ Stored'
  BY DEF TInv, Refused, Fault, ObjectTypes, Stored, objects, ConstantsAssumption
<1>2. Continue("retry", spec)
  BY DEF Refused, Goto
<1>3. WorkerTypes' /\ Held' /\ Copied' /\ Judged'
  BY <1>1, <1>2, ContinueKeeps DEF TInv, ObjectTypes, Early
<1> QED
  BY <1>1, <1>3 DEF TInv

LEMMA MoveKeeps ==
  ASSUME ConstantsAssumption, TInv, at # "idle",
         NEW label \in Labels \cup {"retry"}, Move(label),
         label \in Early \cup {"retry"} \/ hash # NoHash,
         label \notin {"idle", "retry", "addFinalizer"} => at # "addFinalizer",
         label \notin {"verdict", "verdictCondition"},
         label = "verdictStatus" => outcome \in Outcomes
  PROVE  TInv'
<1>1. ObjectTypes' /\ Stored'
  BY DEF TInv, Move, ObjectTypes, Stored, objects, bounds
<1>2. Continue(label, spec) /\ target' = target
  BY DEF Move, Goto
<1>3. WorkerTypes' /\ Held' /\ Copied' /\ Judged'
  BY <1>1, <1>2, ContinueKeeps DEF TInv, ObjectTypes, Held, Copied
<1> QED
  BY <1>1, <1>3 DEF TInv

LEMMA PatchKeeps ==
  ASSUME ConstantsAssumption, TInv, NEW record \in Record,
         NEW label \in Labels \cup {"retry"}, Patch(record, label),
         record.exists => record.creds \in Hashes /\ record.finalizer,
         label \in Early \cup {"retry"} \/ hash # NoHash,
         label \notin {"idle", "retry"} => record.exists,
         label \notin {"verdict", "verdictCondition"},
         label = "verdictStatus" => outcome \in Outcomes
  PROVE  TInv'
<1>1. CASE Refused
  BY <1>1, RefusedKeeps
<1>2. CASE /\ target' = [target EXCEPT ![cur] = record]
           /\ UNCHANGED <<objects, bounds>>
           /\ Continue(label, record.creds)
  <2>1. target' \in [Targets -> Record] /\ target'[cur] = record
    BY <1>2 DEF TInv, ObjectTypes, WorkerTypes
  <2>2. ObjectTypes' /\ Stored'
    BY <1>2, <2>1 DEF TInv, ObjectTypes, Stored, objects, bounds
  <2>3. WorkerTypes' /\ Held' /\ Copied' /\ Judged'
    BY <1>2, <2>1, ContinueKeeps DEF TInv
  <2> QED
    BY <2>2, <2>3 DEF TInv
<1> QED
  BY <1>1, <1>2 DEF Patch

-----------------------------------------------------------------------------
(* Each step keeps the types. *)

LEMMA NoRecordType == NoRecord \in Record
  BY DEF NoRecord, Record

LEMMA NoJobType == NoJob \in Job /\ NoJob.state = "absent"
  BY DEF NoJob, Job

LEMMA NoVolumeType == NoVolume \in Volume
  BY DEF NoVolume, Volume

\* The Target a worker holds, and its hash.
LEMMA Holding ==
  ASSUME ConstantsAssumption, TInv
  PROVE  /\ target[cur] \in Record
         /\ at # "idle" => spec \in Hashes
         /\ at \notin Early => hash \in Hashes /\ hash # NoHash
         /\ at \notin {"idle", "addFinalizer"} =>
               /\ target[cur].exists /\ target[cur].finalizer
               /\ target[cur].creds \in Hashes
  BY DEF TInv, ObjectTypes, WorkerTypes, Stored, Held, Copied, ConstantsAssumption

LEMMA Reads ==
  ASSUME ConstantsAssumption, TInv,
         AddFinalizer \/ ReadCredentials \/ MarkInProgress \/ RemoveFinalizer
  PROVE  TInv'
<1>1. CASE AddFinalizer
  <2>1. CASE target[cur].exists
    <3> DEFINE r == [target[cur] EXCEPT !.finalizer = TRUE]
    <3>1. r \in Record /\ r.exists /\ r.finalizer /\ r.creds \in Hashes
      BY <2>1, Holding DEF Record, TInv, Stored, WorkerTypes
    <3>2. Patch(r, "read")
      BY <1>1, <2>1 DEF AddFinalizer, PatchObject
    <3> HIDE DEF r
    <3> QED
      BY <3>1, <3>2, PatchKeeps DEF Labels, Early
  <2>2. CASE ~target[cur].exists
    <3>1. Move("retry") /\ at # "idle"
      BY <1>1, <2>2 DEF AddFinalizer, PatchObject
    <3> QED
      BY <3>1, MoveKeeps
  <2> QED
    BY <2>1, <2>2
<1>2. CASE ReadCredentials
  <2>1. spec \in Hashes /\ target[cur].exists /\ target[cur].finalizer
    BY <1>2, Holding DEF ReadCredentials
  <2>2. at' \in {"mark", "release", "volume", "validate"}
    BY <1>2 DEF ReadCredentials, AfterMark, AfterRelease
  <2>3. ObjectTypes' /\ Stored'
    BY <1>2 DEF ReadCredentials, TInv, ObjectTypes, Stored, objects, bounds
  <2>4. WorkerTypes'
    BY <1>2, <2>1, <2>2 DEF ReadCredentials, TInv, WorkerTypes, Labels, ConstantsAssumption
  <2>5. Held' /\ Copied' /\ Judged'
    BY <1>2, <2>1, <2>2 DEF ReadCredentials, Held, Copied, Judged
  <2> QED
    BY <2>3, <2>4, <2>5 DEF TInv
<1>3. CASE MarkInProgress
  <2> DEFINE r == [target[cur] EXCEPT !.reason = hash, !.status = "InProgress"]
             label == AfterMark(updated, target[cur].hash, target[cur].creds)
  <2>1. hash \in Hashes /\ hash # NoHash
    BY <1>3, Holding DEF MarkInProgress, Early
  <2>2. label \in {"release", "volume", "validate"}
    BY DEF AfterMark, AfterRelease
  <2>3. /\ target[cur] \in Record /\ target[cur].exists /\ target[cur].finalizer
        /\ target[cur].creds \in Hashes
    BY <1>3, Holding DEF MarkInProgress
  <2>5. r \in Record /\ r.exists /\ r.finalizer /\ r.creds \in Hashes
    BY <2>1, <2>3 DEF Record
  <2>4. Patch(r, label)
    BY <1>3 DEF MarkInProgress
  <2> HIDE DEF r, label
  <2> QED
    BY <2>1, <2>2, <2>4, <2>5, PatchKeeps DEF Labels
<1>4. CASE RemoveFinalizer
  <2>1. Patch(NoRecord, "idle")
    BY <1>4, Holding DEF RemoveFinalizer, PatchObject
  <2>2. NoRecord.exists = FALSE
    BY DEF NoRecord
  <2> QED
    BY <2>1, <2>2, NoRecordType, PatchKeeps DEF Labels, Early
<1> QED
  BY <1>1, <1>2, <1>3, <1>4

\* A patch of the status or the conditions.
LEMMA StatusKeeps ==
  ASSUME ConstantsAssumption, TInv, at \notin Early,
         NEW st \in {"InProgress", "Available", "Unavailable"},
         NEW label \in Labels \cup {"retry"}, PatchStatus(st, label),
         label \notin {"verdict", "verdictCondition", "verdictStatus"}
  PROVE  TInv'
<1> DEFINE r == [target[cur] EXCEPT !.status = st]
<1>1. /\ target[cur] \in Record /\ target[cur].exists /\ target[cur].finalizer
      /\ target[cur].creds \in Hashes /\ hash # NoHash
  BY Holding DEF Early
<1>2. r \in Record /\ r.exists /\ r.finalizer /\ r.creds \in Hashes
  BY <1>1 DEF Record
<1>3. Patch(r, label)
  BY DEF PatchStatus
<1> HIDE DEF r
<1> QED
  BY <1>1, <1>2, <1>3, PatchKeeps

LEMMA ConditionKeeps ==
  ASSUME ConstantsAssumption, TInv, at \notin Early, NEW o \in Outcomes,
         NEW label \in Labels, PatchCondition(o, label),
         label \notin {"verdict", "verdictCondition"},
         label = "verdictStatus" => outcome \in Outcomes
  PROVE  TInv'
<1> DEFINE r == [target[cur] EXCEPT !.validation = @ \cup {o}]
<1>1. /\ target[cur] \in Record /\ target[cur].exists /\ target[cur].finalizer
      /\ target[cur].creds \in Hashes /\ hash # NoHash
  BY Holding DEF Early
<1>2. CASE o \in target[cur].validation
  <2>1. Move(label)
    BY <1>2 DEF PatchCondition
  <2> QED
    BY <1>1, <2>1, MoveKeeps DEF Early
<1>3. CASE o \notin target[cur].validation
  <2>1. r \in Record /\ r.exists /\ r.finalizer /\ r.creds \in Hashes
    BY <1>1 DEF Record
  <2>2. Patch(r, label)
    BY <1>3 DEF PatchCondition
  <2> HIDE DEF r
  <2> QED
    BY <1>1, <2>1, <2>2, PatchKeeps
<1> QED
  BY <1>2, <1>3

LEMMA AfterwardsLabels ==
  ASSUME NEW r
  PROVE  /\ AfterUpdate(r) \in {"poller", "idle"}
         /\ AfterValidation(r) \in {"annotate", "poller", "idle"}
         /\ AfterJob(r) \in {"annotateAndWait", "poller", "idle"}
  BY DEF AfterUpdate, AfterValidation, AfterJob

LEMMA Statuses ==
  ASSUME ConstantsAssumption, TInv,
         AddStarted \/ AddCompleted \/ MarkAvailable \/ BeginValidation
           \/ AddVerdict \/ MarkVerdict
  PROVE  TInv'
<1>1. CASE AddStarted
  <2>1. at \notin Early /\ PatchCondition("InProgress", "completed")
    BY <1>1 DEF AddStarted, Early
  <2> QED
    BY <2>1, ConditionKeeps DEF Outcomes, Labels
<1>2. CASE AddCompleted
  <2>1. at \notin Early /\ PatchCondition("Completed", "available")
    BY <1>2 DEF AddCompleted, Early
  <2> QED
    BY <2>1, ConditionKeeps DEF Outcomes, Labels
<1>3. CASE MarkAvailable
  <2> DEFINE label == AfterValidation([target[cur] EXCEPT !.status = "Available"])
  <2>1. at \notin Early /\ PatchStatus("Available", label)
    BY <1>3 DEF MarkAvailable, Early
  <2>2. label \in {"annotate", "poller", "idle"}
    BY AfterwardsLabels
  <2> HIDE DEF label
  <2> QED
    BY <2>1, <2>2, StatusKeeps DEF Labels
<1>4. CASE BeginValidation
  <2>1. PICK label \in {"deleteJob", "removeEntry"} : PatchCondition("InProgress", label)
    BY <1>4 DEF BeginValidation
  <2>2. at \notin Early
    BY <1>4 DEF BeginValidation, Early
  <2> QED
    BY <2>1, <2>2, ConditionKeeps DEF Outcomes, Labels
<1>5. CASE AddVerdict
  <2>1. at \notin Early /\ PatchCondition(outcome, "verdictStatus")
    BY <1>5 DEF AddVerdict, Early
  <2>2. outcome \in Outcomes
    BY <1>5 DEF AddVerdict, TInv, Judged
  <2> QED
    BY <2>1, <2>2, ConditionKeeps DEF Labels
<1>6. CASE MarkVerdict
  <2> DEFINE label == IF outcome = "Completed" THEN "deleteValidated"
                      ELSE AfterJob([target[cur] EXCEPT !.status = Verdict])
  <2>1. at \notin Early /\ PatchStatus(Verdict, label)
    BY <1>6 DEF MarkVerdict, Early
  <2>2. label \in {"deleteValidated", "annotateAndWait", "poller", "idle"}
    BY AfterwardsLabels
  <2>3. Verdict \in {"InProgress", "Available", "Unavailable"}
    BY DEF Verdict
  <2> HIDE DEF label
  <2> QED
    BY <2>1, <2>2, <2>3, StatusKeeps DEF Labels
<1> QED
  BY <1>1, <1>2, <1>3, <1>4, <1>5, <1>6

\* A step that leaves the Targets alone and takes the worker further.
LEMMA GotoKeeps ==
  ASSUME ConstantsAssumption, TInv, at # "idle",
         NEW label \in Labels \cup {"retry"}, Goto(label),
         UNCHANGED target, ObjectTypes',
         label \in Early \cup {"retry"} \/ hash # NoHash,
         label \notin {"idle", "retry", "addFinalizer"} => at # "addFinalizer",
         label \notin {"verdict", "verdictCondition"},
         label = "verdictStatus" => outcome \in Outcomes
  PROVE  TInv'
<1>1. Stored'
  BY DEF TInv, Stored
<1>2. Continue(label, spec)
  BY DEF Goto
<1>3. WorkerTypes' /\ Held' /\ Copied' /\ Judged'
  BY <1>2, ContinueKeeps DEF TInv, ObjectTypes, Held, Copied
<1> QED
  BY <1>1, <1>3 DEF TInv

\* A job whose deletion is asked for.
LEMMA DeletingTypes ==
  ASSUME job \in [Hashes -> Job], NEW h
  PROVE  [job EXCEPT ![h].deleting = (@ \/ job[h] # NoJob)] \in [Hashes -> Job]
<1>1. CASE h \in Hashes
  <2> DEFINE d == job[h].deleting \/ job[h] # NoJob
  <2>1. d \in BOOLEAN /\ job[h] \in Job
    BY <1>1
  <2>2. [job EXCEPT ![h].deleting = (@ \/ job[h] # NoJob)]
           = [job EXCEPT ![h] = [job[h] EXCEPT !.deleting = d]]
    OBVIOUS
  <2> HIDE DEF d
  <2>3. [job[h] EXCEPT !.deleting = d] \in Job
    BY <2>1 DEF Job
  <2> QED
    BY <2>2, <2>3
<1>2. CASE h \notin Hashes
  <2>1. [job EXCEPT ![h].deleting = (@ \/ job[h] # NoJob)] = job
    BY <1>2
  <2> QED
    BY <2>1
<1> QED
  BY <1>1, <1>2

LEMMA RemovingType == ASSUME NEW v \in Volume PROVE Removing(v) \in Volume
  BY DEF Removing, Volume

LEMMA FaultTypes ==
  ASSUME ConstantsAssumption, TInv, Fault
  PROVE  faults' \in 0..MaxFaults
  BY DEF Fault, TInv, ObjectTypes, ConstantsAssumption

LEMMA Volumes ==
  ASSUME ConstantsAssumption, TInv, CleanupForHash \/ ReconcileVolume
  PROVE  TInv'
<1>1. CASE CleanupForHash
  <2> DEFINE old == target[cur].hash
             withoutVolume == [volume EXCEPT ![old] = Removing(@)]
             next == AfterRelease(spec)
  <2>1. at # "idle" /\ at # "addFinalizer" /\ hash # NoHash
    BY <1>1, Holding DEF CleanupForHash, Early
  <2>2. next \in {"volume", "validate"}
    BY DEF AfterRelease
  <2>3. withoutVolume \in [Hashes -> Volume]
    BY RemovingType DEF TInv, ObjectTypes
  <2>4. ASSUME Users(old) \ {cur} # {}
        PROVE  TInv'
    <3>1. Move(next)
      BY <1>1, <2>4 DEF CleanupForHash
    <3> HIDE DEF next
    <3> QED
      BY <2>1, <2>2, <3>1, MoveKeeps DEF Labels
  <2>5. ASSUME /\ volume' = withoutVolume
               /\ job' = [job EXCEPT ![old].deleting = (@ \/ job[old] # NoJob)]
               /\ UNCHANGED <<target, entry, cron, proven, bounds>>
               /\ Goto(next)
        PROVE  TInv'
    <3>1. job' \in [Hashes -> Job]
      BY <2>5, DeletingTypes DEF TInv, ObjectTypes
    <3>2. ObjectTypes'
      BY <2>3, <2>5, <3>1 DEF TInv, ObjectTypes, bounds
    <3> HIDE DEF next
    <3> QED
      BY <2>1, <2>2, <2>5, <3>2, GotoKeeps DEF Labels
  <2>6. ASSUME /\ Fault
               /\ volume' \in {volume, withoutVolume}
               /\ UNCHANGED <<target, job, entry, cron, proven, edits>>
               /\ Goto("retry")
        PROVE  TInv'
    <3>1. ObjectTypes'
      BY <2>3, <2>6, FaultTypes DEF TInv, ObjectTypes
    <3> QED
      BY <2>1, <2>6, <3>1, GotoKeeps
  <2> QED
    BY <1>1, <2>4, <2>5, <2>6 DEF CleanupForHash
<1>2. CASE ReconcileVolume
  <2> DEFINE made == [volume EXCEPT ![hash] = [state |-> "exists", export |-> spec]]
  <2>1. at # "idle" /\ at # "addFinalizer" /\ hash # NoHash /\ spec \in Hashes
    BY <1>2, Holding DEF ReconcileVolume, Early
  <2>2. made \in [Hashes -> Volume]
    <3>1. [state |-> "exists", export |-> spec] \in Volume
      BY <2>1 DEF Volume
    <3> QED
      BY <3>1 DEF TInv, ObjectTypes
  <2>3. ASSUME Move("retry") \/ Move("validate")
        PROVE  TInv'
    BY <2>1, <2>3, MoveKeeps DEF Labels
  <2>4. ASSUME /\ volume' = made
               /\ UNCHANGED <<target, job, entry, cron, proven, bounds>>
               /\ Goto("validate")
        PROVE  TInv'
    <3>1. ObjectTypes'
      BY <2>2, <2>4 DEF TInv, ObjectTypes, bounds
    <3> QED
      BY <2>1, <2>4, <3>1, GotoKeeps DEF Labels
  <2>5. ASSUME /\ Fault
               /\ volume' \in {volume, made}
               /\ UNCHANGED <<target, job, entry, cron, proven, edits>>
               /\ Goto("retry")
        PROVE  TInv'
    <3>1. ObjectTypes'
      BY <2>2, <2>5, FaultTypes DEF TInv, ObjectTypes
    <3> QED
      BY <2>1, <2>5, <3>1, GotoKeeps
  <2>6. volume[hash].state \in {"absent", "exists", "deleting"}
    BY <2>1 DEF TInv, ObjectTypes, WorkerTypes, Volume
  <2>7. CASE volume[hash].state = "deleting"
    BY <1>2, <2>3, <2>7 DEF ReconcileVolume
  <2>8. CASE volume[hash].state = "exists"
    BY <1>2, <2>3, <2>8, RefusedKeeps DEF ReconcileVolume
  <2>9. CASE volume[hash].state = "absent"
    BY <1>2, <2>4, <2>5, <2>9 DEF ReconcileVolume
  <2> QED
    BY <2>6, <2>7, <2>8, <2>9
<1> QED
  BY <1>1, <1>2

LEMMA Validates ==
  ASSUME ConstantsAssumption, TInv,
         ProcessValidationConfigMap \/ UpdateValidationConfigMap
           \/ RemoveCredHash \/ UpdateCredentialsHash \/ ReconcilePollerCronJob
  PROVE  TInv'
<1>0. at \notin Early => hash \in Hashes /\ hash # NoHash /\ cur \in Targets
  BY Holding DEF TInv, WorkerTypes
<1>1. CASE ProcessValidationConfigMap
  <2> DEFINE label == AfterEntry(target[cur])
  <2>1. at \notin Early /\ hash \in Hashes /\ hash # NoHash
    BY <1>0, <1>1 DEF ProcessValidationConfigMap, Early
  <2>2. ObjectTypes' /\ Stored' /\ UNCHANGED target
    BY <1>1 DEF ProcessValidationConfigMap, TInv, ObjectTypes, Stored, objects, bounds
  <2>3. CASE label = "verdict"
    <3>1. /\ at' = "verdict" /\ outcome' = JobStatus(job[hash].state)
          /\ UNCHANGED <<queue, cur, spec, hash, updated>>
      BY <1>1, <2>3 DEF ProcessValidationConfigMap
    <3>2. outcome' \in JobStatuses /\ outcome' # "none"
      BY <3>1 DEF JobStatus, JobStatuses, Outcomes
    <3>3. WorkerTypes'
      BY <2>1, <3>1, <3>2 DEF TInv, WorkerTypes, Labels
    <3>4. Held' /\ Copied' /\ Judged'
      BY <1>1, <2>2, <3>1, <3>2
      DEF ProcessValidationConfigMap, TInv, Held, Copied, Judged
    <3> QED
      BY <2>2, <3>3, <3>4 DEF TInv
  <2>4. CASE label # "verdict"
    <3>1. Goto(label)
      BY <1>1, <2>4 DEF ProcessValidationConfigMap
    <3>2. label \in {"annotate", "poller", "idle", "available", "started", "begin"}
      <4>1. AfterValidation(target[cur]) \in {"annotate", "poller", "idle"}
        BY AfterwardsLabels
      <4>2. ByJob \in {"begin", "verdict"}
        BY DEF ByJob
      <4> QED
        BY <2>4, <4>1, <4>2 DEF AfterEntry
    <3>3. at # "idle" /\ at # "addFinalizer"
      BY <1>1 DEF ProcessValidationConfigMap
    <3> HIDE DEF label
    <3> QED
      BY <2>1, <2>2, <3>1, <3>2, <3>3, GotoKeeps DEF Labels
  <2> QED
    BY <2>3, <2>4
<1>2. CASE UpdateValidationConfigMap
  <2>1. at = "verdict" /\ hash \in Hashes /\ hash # NoHash /\ outcome # "none"
    BY <1>0, <1>2 DEF UpdateValidationConfigMap, Early, TInv, Judged
  <2>2. CASE Refused
    BY <2>2, RefusedKeeps
  <2>3. CASE ~Refused
    <3>1. entry' \in [Hashes -> {"none", "Valid", "Invalid"}]
      BY <1>2, <2>3 DEF UpdateValidationConfigMap, TInv, ObjectTypes
    <3>2. UNCHANGED <<target, job, cron, volume, proven, bounds>>
      BY <1>2, <2>3 DEF UpdateValidationConfigMap
    <3>3. ObjectTypes' /\ Stored'
      BY <3>1, <3>2 DEF TInv, ObjectTypes, Stored, bounds
    <3>4. /\ at' \in {"verdictStatus", "verdictCondition"}
          /\ UNCHANGED <<cur, spec, hash, updated>>
          /\ queue' = queue \cup Woken
      BY <1>2, <2>3 DEF UpdateValidationConfigMap
    <3>5. outcome' \in Outcomes
      BY <1>2, <2>1, <2>3
      DEF UpdateValidationConfigMap, Outcomes, JobStatuses, TInv, WorkerTypes
    <3>6. Woken \subseteq Targets
      BY DEF Woken
    <3>7. WorkerTypes'
      BY <2>1, <3>4, <3>5, <3>6 DEF TInv, WorkerTypes, Labels, JobStatuses
    <3>8. Held' /\ Copied' /\ Judged'
      BY <2>1, <3>2, <3>4, <3>5 DEF TInv, Held, Copied, Judged
    <3> QED
      BY <3>3, <3>7, <3>8 DEF TInv
  <2> QED
    BY <2>2, <2>3
<1>3. CASE RemoveCredHash
  <2>1. at # "idle" /\ at # "addFinalizer" /\ hash # NoHash
    BY <1>0, <1>3 DEF RemoveCredHash, Early
  <2>2. UNCHANGED <<target, job, cron, volume, proven, edits>> /\ Goto("createJob")
    BY <1>3 DEF RemoveCredHash, bounds
  <2>3. entry' \in [Hashes -> {"none", "Valid", "Invalid"}]
    BY <1>3 DEF RemoveCredHash, TInv, ObjectTypes
  <2>4. faults' \in 0..MaxFaults
    BY <1>3, FaultTypes DEF RemoveCredHash, bounds, TInv, ObjectTypes
  <2>5. ObjectTypes'
    BY <2>2, <2>3, <2>4 DEF TInv, ObjectTypes
  <2> QED
    BY <2>1, <2>2, <2>5, GotoKeeps DEF Labels
<1>4. CASE UpdateCredentialsHash
  <2> DEFINE r == [target[cur] EXCEPT !.hash = hash]
  <2>1. /\ target[cur] \in Record /\ target[cur].exists /\ target[cur].finalizer
        /\ target[cur].creds \in Hashes /\ hash \in Hashes /\ hash # NoHash
    BY <1>4, Holding DEF UpdateCredentialsHash, Early
  <2>2. r \in Record /\ r.exists /\ r.finalizer /\ r.creds \in Hashes
    BY <2>1 DEF Record
  <2>3. AfterUpdate(target[cur]) \in {"poller", "idle"}
    BY AfterwardsLabels
  <2>4. \/ Patch(r, "retry")
        \/ Patch(r, AfterUpdate(target[cur]))
    BY <1>4, <2>1 DEF UpdateCredentialsHash, PatchObject
  <2> HIDE DEF r
  <2> QED
    BY <2>1, <2>2, <2>3, <2>4, PatchKeeps DEF Labels
<1>5. CASE ReconcilePollerCronJob
  <2>1. at # "idle" /\ hash # NoHash /\ cur \in Targets
    BY <1>0, <1>5 DEF ReconcilePollerCronJob, Early
  <2>2. CASE Refused
    BY <2>2, RefusedKeeps
  <2>3. CASE ~Refused
    <3>1. /\ cron' = [cron EXCEPT ![hash] = cur]
          /\ UNCHANGED <<target, job, entry, volume, proven, bounds>>
          /\ Goto("idle")
      BY <1>5, <2>3 DEF ReconcilePollerCronJob
    <3>2. ObjectTypes'
      BY <2>1, <3>1 DEF TInv, ObjectTypes, bounds
    <3> QED
      BY <2>1, <3>1, <3>2, GotoKeeps DEF Labels
  <2> QED
    BY <2>2, <2>3
<1> QED
  BY <1>1, <1>2, <1>3, <1>4, <1>5

LEMMA DeleteJobKeeps ==
  ASSUME ConstantsAssumption, TInv, at \notin Early,
         NEW label \in Labels, DeleteJob(label),
         label \notin {"verdict", "verdictCondition", "verdictStatus"}
  PROVE  TInv'
<1>1. CASE Refused
  BY <1>1, RefusedKeeps
<1>2. CASE ~Refused
  <2>1. /\ job' = [job EXCEPT ![hash].deleting = (@ \/ job[hash] # NoJob)]
        /\ UNCHANGED <<target, entry, cron, volume, proven, bounds>>
        /\ Goto(label)
    BY <1>2 DEF DeleteJob
  <2>2. job' \in [Hashes -> Job]
    BY <2>1, DeletingTypes DEF TInv, ObjectTypes
  <2>3. ObjectTypes'
    BY <2>1, <2>2 DEF TInv, ObjectTypes, bounds
  <2>4. at # "idle" /\ at # "addFinalizer" /\ hash # NoHash
    BY Holding DEF Early
  <2> QED
    BY <2>1, <2>3, <2>4, GotoKeeps
<1> QED
  BY <1>1, <1>2

LEMMA Jobs ==
  ASSUME ConstantsAssumption, TInv,
         DeleteFailedJob \/ CreateValidationJob \/ DeleteValidatedJob
  PROVE  TInv'
<1>0. AfterJob(target[cur]) \in {"annotateAndWait", "poller", "idle"}
  BY AfterwardsLabels
<1>1. CASE DeleteFailedJob
  <2>1. at \notin Early /\ DeleteJob("removeEntry")
    BY <1>1 DEF DeleteFailedJob, Early
  <2> QED
    BY <2>1, DeleteJobKeeps DEF Labels
<1>2. CASE DeleteValidatedJob
  <2>1. at \notin Early /\ DeleteJob(AfterJob(target[cur]))
    BY <1>2 DEF DeleteValidatedJob, Early
  <2> QED
    BY <1>0, <2>1, DeleteJobKeeps DEF Labels
<1>3. CASE CreateValidationJob
  <2>1. at # "idle" /\ at # "addFinalizer" /\ hash # NoHash /\ cur \in Targets
    BY <1>3, Holding DEF CreateValidationJob, Early, TInv, WorkerTypes
  <2>2. CASE Refused
    BY <2>2, RefusedKeeps
  <2>3. CASE Move("retry")
    BY <2>1, <2>3, MoveKeeps
  <2>4. CASE ~Refused /\ ~Move("retry")
    <3> DEFINE new == [state |-> "new", by |-> cur, mounts |-> spec \in NFS,
                       deleting |-> FALSE]
    <3>1. /\ job' = [job EXCEPT ![hash] = new]
          /\ UNCHANGED <<target, entry, cron, volume, proven, bounds>>
          /\ Goto(AfterJob(target[cur]))
      BY <1>3, <2>4 DEF CreateValidationJob
    <3>2. new \in Job /\ new.by \in Targets
      BY <2>1 DEF Job
    <3> HIDE DEF new
    <3>3. ObjectTypes'
      BY <3>1, <3>2 DEF TInv, ObjectTypes, bounds
    <3> QED
      BY <1>0, <2>1, <3>1, <3>3, GotoKeeps DEF Labels
  <2> QED
    BY <2>2, <2>3, <2>4
<1> QED
  BY <1>1, <1>2, <1>3

LEMMA Cleans ==
  ASSUME ConstantsAssumption, TInv, CleanupTarget
  PROVE  TInv'
<1> DEFINE old == target[cur].hash
           noJob == [job EXCEPT ![old] = NoJob]
           noCron == [cron EXCEPT ![old] = NoTarget]
           noVolume == IF spec \in NFS
                       THEN [volume EXCEPT ![old] = Removing(@)] ELSE volume
<1>1. at # "idle" /\ at # "addFinalizer"
  BY DEF CleanupTarget
<1>2. /\ noJob \in [Hashes -> Job] /\ noCron \in [Hashes -> Targets \cup {NoTarget}]
      /\ noVolume \in [Hashes -> Volume]
  BY NoJobType, RemovingType DEF TInv, ObjectTypes
<1>3. ASSUME NEW h \in Hashes, noJob[h].state # "absent"
      PROVE  noJob[h].by \in Targets
  BY <1>3, NoJobType DEF TInv, ObjectTypes
<1>4. Synced \in [Hashes -> {"none", "Valid", "Invalid"}]
  BY DEF Synced, TInv, ObjectTypes
<1>5. ASSUME \/ entry' = Synced /\ UNCHANGED bounds
             \/ Fault /\ UNCHANGED <<entry, edits>>
      PROVE  /\ entry' \in [Hashes -> {"none", "Valid", "Invalid"}]
             /\ edits' \in 0..MaxEdits /\ faults' \in 0..MaxFaults
  BY <1>4, <1>5, FaultTypes DEF bounds, TInv, ObjectTypes
<1>6. CASE old = NoHash
  <2>1. Move("removeFinalizer")
    BY <1>6 DEF CleanupTarget
  <2> QED
    BY <1>1, <2>1, MoveKeeps DEF Labels, Early
<1>7. CASE old # NoHash /\ LivingUsers(old) \ {cur} # {}
  <2>1. /\ \/ entry' = Synced /\ UNCHANGED bounds
           \/ Fault /\ UNCHANGED <<entry, edits>>
        /\ UNCHANGED <<target, job, cron, volume, proven>>
        /\ Goto("removeFinalizer")
    BY <1>7 DEF CleanupTarget
  <2>2. ObjectTypes'
    BY <1>5, <2>1 DEF TInv, ObjectTypes
  <2> QED
    BY <1>1, <2>1, <2>2, GotoKeeps DEF Labels, Early
<1>8. CASE old # NoHash /\ LivingUsers(old) \ {cur} = {}
  <2>1. ASSUME /\ job' = noJob /\ cron' = noCron /\ volume' = noVolume
               /\ \/ entry' = Synced /\ UNCHANGED bounds
                  \/ Fault /\ UNCHANGED <<entry, edits>>
               /\ UNCHANGED <<target, proven>>
               /\ Goto("removeFinalizer")
        PROVE  TInv'
    <3>1. ObjectTypes'
      BY <1>2, <1>5, <1>3, <2>1 DEF TInv, ObjectTypes
    <3> QED
      BY <1>1, <2>1, <3>1, GotoKeeps DEF Labels, Early
  <2>2. ASSUME /\ Fault
               /\ \E done \in {<<job, cron>>, <<noJob, cron>>, <<noJob, noCron>>} :
                     job' = done[1] /\ cron' = done[2]
               /\ UNCHANGED <<target, entry, volume, proven, edits>>
               /\ Goto("retry")
        PROVE  TInv'
    <3>1. job' \in {job, noJob} /\ cron' \in {cron, noCron}
      BY <2>2
    <3>2. ObjectTypes'
      BY <1>2, <1>3, <2>2, <3>1, FaultTypes DEF TInv, ObjectTypes
    <3> QED
      BY <1>1, <2>2, <3>2, GotoKeeps
  <2> QED
    BY <1>8, <2>1, <2>2 DEF CleanupTarget
<1> QED
  BY <1>6, <1>7, <1>8

LEMMA Starts ==
  ASSUME ConstantsAssumption, TInv, NEW t \in Targets, Start(t)
  PROVE  TInv'
<1>1. /\ target[t] \in Record /\ spec' \in Hashes \cup {NoHash}
      /\ target[t].exists => /\ spec' \in Hashes
                             /\ target[t].deleting => target[t].finalizer
  BY DEF Start, TInv, ObjectTypes, Stored, Record
<1>2. /\ at' \in {"idle", "cleanup", "read", "addFinalizer"}
      /\ at' # "idle" => target[t].exists
      /\ at' \in {"read", "cleanup"} => target[t].finalizer
  BY <1>1 DEF Start
<1>3. ObjectTypes' /\ Stored'
  BY DEF Start, TInv, ObjectTypes, Stored, objects, bounds
<1>4. WorkerTypes'
  BY <1>1, <1>2 DEF Start, TInv, WorkerTypes, Labels, Early
<1>5. Held' /\ Copied' /\ Judged'
  BY <1>1, <1>2 DEF Start, Held, Copied, Judged
<1> QED
  BY <1>3, <1>4, <1>5 DEF TInv

LEMMA Crashes ==
  ASSUME ConstantsAssumption, TInv, Crash
  PROVE  TInv'
<1>1. ObjectTypes' /\ Stored'
  BY FaultTypes DEF Crash, TInv, ObjectTypes, Stored, objects
<1>2. WorkerTypes' /\ Held' /\ Copied' /\ Judged'
  BY DEF Crash, Ends, TInv, WorkerTypes, Held, Copied, Judged, Labels, Early, JobStatuses
<1> QED
  BY <1>1, <1>2 DEF TInv

\* What goes on outside leaves the worker where it is, and its Target stored.
LEMMA OutsideKeeps ==
  ASSUME ConstantsAssumption, TInv, Outside, ObjectTypes', Stored',
         at \notin {"idle", "addFinalizer"} =>
             target'[cur].exists /\ target'[cur].finalizer
  PROVE  TInv'
<1>1. Woken \subseteq Targets
  BY DEF Woken
<1>2. WorkerTypes'
  BY <1>1 DEF Outside, worker, TInv, WorkerTypes
<1>3. Held' /\ Copied' /\ Judged'
  BY DEF Outside, worker, TInv, Held, Copied, Judged
<1> QED
  BY <1>2, <1>3 DEF TInv

LEMMA EditKeeps ==
  ASSUME ConstantsAssumption, TInv, NEW t \in Targets, NEW record \in Record,
         Edit(t, record),
         record.exists => /\ record.creds \in Hashes
                          /\ record.deleting => record.finalizer,
         target[t].exists /\ target[t].finalizer => record.exists /\ record.finalizer
  PROVE  TInv'
<1>1. /\ edits < MaxEdits /\ edits' = edits + 1
      /\ target' = [target EXCEPT ![t] = record]
      /\ UNCHANGED objects /\ Outside
  BY DEF Edit
<1>2. edits' \in 0..MaxEdits /\ faults' = faults
  BY <1>1 DEF TInv, ObjectTypes, Outside, ConstantsAssumption
<1>3. ObjectTypes' /\ Stored'
  BY <1>1, <1>2 DEF TInv, ObjectTypes, Stored, objects
<1>4. at \notin {"idle", "addFinalizer"} =>
          target'[cur].exists /\ target'[cur].finalizer
  BY <1>1, Holding DEF TInv, ObjectTypes, WorkerTypes
<1> QED
  BY <1>1, <1>3, <1>4, OutsideKeeps

LEMMA Edits ==
  ASSUME ConstantsAssumption, TInv, NEW t \in Targets,
         UserCreates(t) \/ UserEdits(t) \/ UserDeletes(t)
  PROVE  TInv'
<1>0. target[t] \in Record /\ Choices[t] \subseteq Hashes
      /\ (target[t].exists => /\ target[t].creds \in Hashes
                              /\ target[t].deleting => target[t].finalizer)
  BY DEF TInv, ObjectTypes, Stored, ConstantsAssumption
<1>1. CASE UserCreates(t)
  <2>1. PICK c \in Choices[t] :
            Edit(t, [NoRecord EXCEPT !.exists = TRUE, !.creds = c])
    BY <1>1 DEF UserCreates
  <2> DEFINE r == [NoRecord EXCEPT !.exists = TRUE, !.creds = c]
  <2>2. r \in Record /\ r.creds \in Hashes /\ ~r.deleting
    BY <1>0 DEF NoRecord, Record
  <2>3. ~target[t].exists /\ Edit(t, r)
    BY <1>1, <2>1 DEF UserCreates
  <2> HIDE DEF r
  <2> QED
    BY <2>2, <2>3, EditKeeps
<1>2. CASE UserEdits(t)
  <2>1. PICK c \in Choices[t] : Edit(t, [target[t] EXCEPT !.creds = c])
    BY <1>2 DEF UserEdits
  <2> DEFINE r == [target[t] EXCEPT !.creds = c]
  <2>2. /\ r \in Record /\ r.creds \in Hashes /\ r.exists = target[t].exists
        /\ r.finalizer = target[t].finalizer /\ r.deleting = target[t].deleting
    BY <1>0 DEF Record
  <2>3. target[t].exists /\ Edit(t, r)
    BY <1>2, <2>1 DEF UserEdits
  <2> HIDE DEF r
  <2> QED
    BY <1>0, <2>2, <2>3, EditKeeps
<1>3. CASE UserDeletes(t)
  <2>1. CASE target[t].finalizer
    <3> DEFINE r == [target[t] EXCEPT !.deleting = TRUE]
    <3>1. /\ r \in Record /\ r.creds = target[t].creds /\ r.exists = target[t].exists
          /\ r.finalizer = target[t].finalizer
      BY <1>0 DEF Record
    <3>2. target[t].exists /\ Edit(t, r)
      BY <1>3, <2>1 DEF UserDeletes
    <3> HIDE DEF r
    <3> QED
      BY <1>0, <2>1, <3>1, <3>2, EditKeeps
  <2>2. CASE ~target[t].finalizer
    <3>1. Edit(t, NoRecord)
      BY <1>3, <2>2 DEF UserDeletes
    <3>2. ~NoRecord.exists
      BY DEF NoRecord
    <3> QED
      BY <2>2, <3>1, <3>2, NoRecordType, EditKeeps
  <2> QED
    BY <2>1, <2>2
<1> QED
  BY <1>1, <1>2, <1>3

LEMMA BecomesKeeps ==
  ASSUME ConstantsAssumption, TInv, NEW h \in Hashes,
         NEW from, "absent" \notin from,
         NEW to \in {"overdue", "active", "badImage", "succeeded", "failed"},
         Becomes(h, from, to), proven' \subseteq Hashes \X BOOLEAN, Outside
  PROVE  TInv'
<1>1. [job[h] EXCEPT !.state = to] \in Job
  BY DEF TInv, ObjectTypes, Job
<1>2. job' = [job EXCEPT ![h] = [job[h] EXCEPT !.state = to]]
      /\ UNCHANGED <<target, entry, cron, volume, edits>>
  BY DEF Becomes
<1>3. job' \in [Hashes -> Job]
  BY <1>1, <1>2 DEF TInv, ObjectTypes
<1>4. ASSUME NEW g \in Hashes, job'[g].state # "absent"
      PROVE  job'[g].by \in Targets
  <2>1. CASE g = h
    <3>1. [job[h] EXCEPT !.state = to].by = job[h].by /\ job[h].state # "absent"
      BY DEF Becomes, TInv, ObjectTypes, Job
    <3> QED
      BY <1>2, <2>1, <3>1 DEF TInv, ObjectTypes
  <2>2. CASE g # h
    BY <1>2, <1>4, <2>2 DEF TInv, ObjectTypes
  <2> QED
    BY <2>1, <2>2
<1>5. ObjectTypes' /\ Stored'
  BY <1>2, <1>3, <1>4 DEF TInv, ObjectTypes, Stored, Outside
<1>6. at \notin {"idle", "addFinalizer"} =>
          target'[cur].exists /\ target'[cur].finalizer
  BY <1>2, Holding
<1> QED
  BY <1>5, <1>6, OutsideKeeps

LEMMA Progresses ==
  ASSUME ConstantsAssumption, TInv, NEW h \in Hashes,
         \/ JobStarts(h) \/ JobBlocked(h) \/ ImageMissing(h) \/ ImageFound(h)
         \/ JobSucceeds(h) \/ JobFails(h)
         \/ JobCollected(h) \/ VolumeCollected(h)
  PROVE  TInv'
<1>0. proven \subseteq Hashes \X BOOLEAN
  BY DEF TInv, ObjectTypes
<1>1. CASE JobStarts(h) \/ ImageFound(h)
  <2>1. PICK from \in {{"new", "overdue"}, {"badImage"}} : Becomes(h, from, "active")
    BY <1>1 DEF JobStarts, ImageFound
  <2>2. UNCHANGED proven /\ Outside
    BY <1>1 DEF JobStarts, ImageFound
  <2> QED
    BY <1>0, <2>1, <2>2, BecomesKeeps
<1>2. CASE JobBlocked(h)
  BY <1>0, <1>2, BecomesKeeps DEF JobBlocked
<1>3. CASE ImageMissing(h)
  BY <1>0, <1>3, BecomesKeeps DEF ImageMissing
<1>4. CASE JobFails(h)
  BY <1>0, <1>4, BecomesKeeps DEF JobFails
<1>5. CASE JobSucceeds(h)
  <2>1. Tested(h) \in Hashes
    <3>1. /\ volume[h].export \in Hashes \cup {NoHash}
      BY DEF TInv, ObjectTypes, Volume
    <3>2. job[h].by \in Targets
      BY <1>5 DEF JobSucceeds, Becomes, TInv, ObjectTypes
    <3>3. target[job[h].by].exists /\ Tested(h) # NoHash
      BY <1>5 DEF JobSucceeds
    <3> QED
      BY <3>1, <3>2, <3>3 DEF Tested, TInv, Stored
  <2>2. proven' \subseteq Hashes \X BOOLEAN
    <3> DEFINE b == job[h].by \in Reporting
    <3>1. proven' = proven \cup {<<Tested(h), b>>} /\ b \in BOOLEAN
      BY <1>5 DEF JobSucceeds
    <3> HIDE DEF b
    <3> QED
      BY <1>0, <2>1, <3>1
  <2> QED
    BY <1>5, <2>2, BecomesKeeps DEF JobSucceeds
<1>6. CASE JobCollected(h) \/ VolumeCollected(h)
  <2>1. /\ job' \in {job, [job EXCEPT ![h] = NoJob]}
        /\ volume' \in {volume, [volume EXCEPT ![h] = NoVolume]}
        /\ UNCHANGED <<target, entry, cron, proven, edits>> /\ Outside
    BY <1>6 DEF JobCollected, VolumeCollected
  <2>2. job' \in [Hashes -> Job] /\ volume' \in [Hashes -> Volume]
    BY <2>1, NoJobType, NoVolumeType DEF TInv, ObjectTypes
  <2>3. ASSUME NEW g \in Hashes, job'[g].state # "absent"
        PROVE  job'[g].by \in Targets
    BY <2>1, <2>3, NoJobType DEF TInv, ObjectTypes
  <2>4. ObjectTypes' /\ Stored'
    BY <2>1, <2>2, <2>3 DEF TInv, ObjectTypes, Stored, Outside
  <2>5. at \notin {"idle", "addFinalizer"} =>
            target'[cur].exists /\ target'[cur].finalizer
    BY <2>1, Holding
  <2> QED
    BY <2>1, <2>4, <2>5, OutsideKeeps
<1> QED
  BY <1>1, <1>2, <1>3, <1>4, <1>5, <1>6

LEMMA Begins == ASSUME ConstantsAssumption, Init PROVE TInv
<1>1. ObjectTypes
  BY NoRecordType, NoJobType, NoVolumeType DEF Init, ConstantsAssumption, ObjectTypes
<1>2. WorkerTypes
  BY DEF Init, WorkerTypes, Labels, Early, JobStatuses
<1>3. Stored
  BY DEF Init, Stored, NoRecord
<1>4. Held /\ Copied /\ Judged
  BY DEF Init, Held, Copied, Judged
<1> QED
  BY <1>1, <1>2, <1>3, <1>4 DEF TInv

LEMMA Stutters == ASSUME TInv, UNCHANGED vars PROVE TInv'
<1>1. ObjectTypes' /\ Stored'
  BY DEF TInv, vars, objects, bounds, ObjectTypes, Stored
<1>2. WorkerTypes' /\ Held' /\ Copied' /\ Judged'
  BY DEF TInv, vars, worker, WorkerTypes, Held, Copied, Judged
<1> QED
  BY <1>1, <1>2 DEF TInv

LEMMA WorkerStepKeeps == ASSUME ConstantsAssumption, TInv, WorkerStep PROVE TInv'
  BY Reads, Volumes, Statuses, Validates, Jobs, Cleans DEF WorkerStep

LEMMA NextKeeps == ASSUME ConstantsAssumption, TInv, [Next]_vars PROVE TInv'
<1>1. ASSUME NEW t \in Targets, Start(t) PROVE TInv'
  BY <1>1, Starts
<1>2. CASE WorkerStep
  BY <1>2, WorkerStepKeeps
<1>3. CASE Crash
  BY <1>3, Crashes
<1>4. CASE Cluster
  BY <1>4, Edits, Progresses DEF Cluster
<1>5. CASE UNCHANGED vars
  BY <1>5, Stutters
<1> QED
  BY <1>1, <1>2, <1>3, <1>4, <1>5 DEF Next

\* Whatever the Targets, their credentials and the faults, the objects and the
\* worker's locals stay what their types say; in particular a reconciliation never
\* goes on for a Target that is gone, nor looks up anything by a hash it has not
\* computed.
THEOREM TypeCorrect == Spec => []TypeOK
<1>1. Init => TInv
  BY Begins, ConstantsAssumption
<1>2. TInv /\ [Next]_vars => TInv'
  BY NextKeeps, ConstantsAssumption
<1>3. TInv => TypeOK
  BY TypesAreParts DEF TInv
<1> QED
  BY <1>1, <1>2, <1>3, PTL DEF Spec

-----------------------------------------------------------------------------
(* Shared credentials.                                                     *)

\* Users never edit the credentials of a Target.
Fixed == \A t \in Targets : \A c, d \in Choices[t] : c = d

\* Credentials belong to backup Targets or to reporting ones.
OneKind == \A t, u \in Targets, h \in Hashes :
               h \in Choices[t] /\ h \in Choices[u] => (t \in Reporting <=> u \in Reporting)

\* The credentials h were validated for a Target of the kind of t.
Shown(h, t) == <<h, t \in Reporting>> \in proven

\* Every Target that may have these credentials may rely on them.
Good(h) == \A t \in Targets : h \in Choices[t] => Shown(h, t)

\* A Target has the credentials it was given, and is annotated with no others.
Named ==
    \A t \in Targets :
        /\ target[t].exists => target[t].creds \in Choices[t]
        /\ target[t].hash \in Choices[t] \cup {NoHash}
        /\ ~target[t].exists => target[t] = NoRecord

\* What is named by a hash was made from its credentials.
Anchored ==
    \A h \in Hashes :
        /\ job[h].state # "absent" => h \in Choices[job[h].by]
        /\ volume[h].export \in {h, NoHash}

\* Success, an entry and the status rest on a validation.
Evidence ==
    /\ \A h \in Hashes :
          /\ job[h].state = "succeeded" => Good(h)
          /\ entry[h] = "Valid" => Good(h)
    /\ \A t \in Targets : target[t].status = "Available" => Good(target[t].creds)

\* Steps on the way to the status Available by a valid entry.
Confirmed == {"started", "completed", "available"}

\* Steps after the volumes have been reconciled.
Validating == Labels \ (Early \cup {"mark", "release", "volume"})

\* What the worker knows.
Local ==
    /\ at \in Early => hash = NoHash /\ outcome = "none"
    /\ at # "idle" => spec \in Choices[cur]
    /\ hash # NoHash => hash \in Choices[cur]
    /\ outcome = "Completed" => Good(hash)
    /\ at \in Confirmed => Good(hash)
    /\ at # "release"
    /\ at = "mark" /\ updated => target[cur].hash = NoHash
    /\ at = "cleanup" => target[cur].deleting
    /\ at \in Validating /\ hash \in NFS => volume[hash].state = "exists"

SInv == Named /\ Anchored /\ Evidence /\ VolumeKept /\ Local

\* Labels the worker continues with after a patch or a move.
Onward == Validating \cup {"volume", "idle", "retry", "read", "removeFinalizer"}

-----------------------------------------------------------------------------

LEMMA OneChoice ==
  ASSUME Fixed, NEW t \in Targets, NEW c \in Choices[t], NEW d \in Choices[t]
  PROVE  c = d
  BY DEF Fixed

LEMMA GoodStays == ASSUME proven \subseteq proven' PROVE \A h : Good(h) => Good(h)'
  BY DEF Good, Shown

\* Going on.
LEMMA ContinueSafe ==
  ASSUME ConstantsAssumption, Local, WorkerTypes,
         NEW label \in Onward, NEW copy, Continue(label, copy),
         UNCHANGED proven,
         label \notin {"idle", "retry"} => copy \in Choices[cur],
         label \in {"read", "removeFinalizer"} => at \in Early,
         label \in Confirmed => Good(hash),
         label \in Validating /\ hash \in NFS => volume'[hash].state = "exists"
  PROVE  Local'
<1>1. \A h : Good(h) => Good(h)'
  BY GoodStays
<1>2. CASE label \in {"idle", "retry"}
  <2>1. at' = "idle" /\ spec' = NoHash /\ hash' = NoHash /\ outcome' = "none"
    BY <1>2 DEF Continue, Ends
  <2> QED
    BY <2>1 DEF Local, Early, Confirmed, Validating
<1>3. CASE label \notin {"idle", "retry"}
  <2>1. at' = label /\ spec' = copy /\ UNCHANGED <<cur, hash, updated, outcome>>
    BY <1>3 DEF Continue
  <2>2. at' \notin {"idle", "mark", "release", "cleanup"}
    BY <1>3, <2>1 DEF Onward, Validating, Early
  <2>3. at' \in Early => hash' = NoHash /\ outcome' = "none"
    BY <1>3, <2>1 DEF Local, Onward, Validating, Early
  <2>4. Good(hash) => Good(hash)'
    BY <2>1 DEF Good, Shown
  <2> QED
    BY <1>3, <2>1, <2>2, <2>3, <2>4 DEF Local
<1> QED
  BY <1>2, <1>3

\* A refused call changes nothing and ends the reconciliation.
LEMMA RefusedSafe ==
  ASSUME ConstantsAssumption, TInv, SInv, Refused
  PROVE  SInv'
<1>1. UNCHANGED <<target, job, entry, cron, volume, proven>> /\ Continue("retry", spec)
  BY DEF Refused, Goto, objects
<1>2. Local'
  BY <1>1, ContinueSafe DEF SInv, TInv, Onward, Confirmed, Validating, Early, Labels
<1>3. Named' /\ Anchored' /\ VolumeKept'
  BY <1>1 DEF SInv, Named, Anchored, VolumeKept, Living
<1>4. Evidence'
  BY <1>1 DEF SInv, Evidence, Good, Shown
<1> QED
  BY <1>2, <1>3, <1>4 DEF SInv

LEMMA MoveSafe ==
  ASSUME ConstantsAssumption, TInv, SInv, at # "idle",
         NEW label \in Onward, Move(label),
         label \in {"read", "removeFinalizer"} => at \in Early,
         label \in Confirmed => Good(hash),
         label \in Validating /\ hash \in NFS => volume[hash].state = "exists"
  PROVE  SInv'
<1>1. UNCHANGED <<target, job, entry, cron, volume, proven>> /\ Continue(label, spec)
  BY DEF Move, Goto, objects
<1>2. Local'
  BY <1>1, ContinueSafe DEF SInv, TInv, Local
<1>3. Named' /\ Anchored' /\ VolumeKept'
  BY <1>1 DEF SInv, Named, Anchored, VolumeKept, Living
<1>4. Evidence'
  BY <1>1 DEF SInv, Evidence, Good, Shown
<1> QED
  BY <1>2, <1>3, <1>4 DEF SInv

\* A patch of the Target in hand.
LEMMA PatchSafe ==
  ASSUME ConstantsAssumption, TInv, SInv, at # "idle",
         NEW r, NEW label \in Onward, Patch(r, label),
         target[cur].exists, r.exists,
         r.creds = target[cur].creds, r.deleting = target[cur].deleting,
         \/ r.hash = target[cur].hash
         \/ /\ r.hash = hash /\ hash # NoHash
            /\ hash \in NFS => volume[hash].state = "exists",
         r.status = "Available" => r.status = target[cur].status \/ Good(r.creds),
         label \in {"read", "removeFinalizer"} => at \in Early,
         label \in Confirmed => Good(hash),
         label \in Validating /\ hash \in NFS => volume[hash].state = "exists"
  PROVE  SInv'
<1>1. CASE Refused
  BY <1>1, RefusedSafe
<1>2. CASE ~Refused
  <2>1. /\ target' = [target EXCEPT ![cur] = r]
        /\ UNCHANGED <<job, entry, cron, volume, proven>>
        /\ Continue(label, r.creds)
    BY <1>2 DEF Patch, objects
  <2>2. /\ cur \in Targets /\ target'[cur] = r
        /\ \A t \in Targets \ {cur} : target'[t] = target[t]
    BY <2>1 DEF TInv, ObjectTypes, WorkerTypes
  <2>3. r.creds \in Choices[cur]
    BY <2>2 DEF SInv, Named
  <2>4. Local'
    BY <2>1, <2>3, ContinueSafe DEF SInv, TInv
  <2>5. Named'
    BY <2>2, <2>3 DEF SInv, Named, Local
  <2>6. Anchored'
    BY <2>1 DEF SInv, Anchored
  <2>7. Evidence'
    BY <2>1, <2>2 DEF SInv, Evidence, Good, Shown
  <2>8. VolumeKept'
    BY <2>1, <2>2 DEF SInv, VolumeKept, Living
  <2> QED
    BY <2>4, <2>5, <2>6, <2>7, <2>8 DEF SInv
<1> QED
  BY <1>1, <1>2

-----------------------------------------------------------------------------
(* The steps of the worker. *)

\* Once the hash is computed it is that of the copy and of the Target.
LEMMA InHand ==
  ASSUME ConstantsAssumption, Fixed, TInv, SInv, at \notin Early
  PROVE  /\ cur \in Targets /\ hash \in Hashes /\ hash # NoHash
         /\ hash \in Choices[cur] /\ spec = hash
         /\ target[cur] \in Record /\ target[cur].exists
         /\ target[cur].creds = hash /\ target[cur].hash \in {hash, NoHash}
<1>1. /\ cur \in Targets /\ hash \in Hashes /\ hash # NoHash
      /\ target[cur] \in Record /\ target[cur].exists /\ at # "idle"
  BY Holding DEF TInv, WorkerTypes, Early
<1>2. hash \in Choices[cur] /\ spec \in Choices[cur] /\ target[cur].creds \in Choices[cur]
      /\ target[cur].hash \in Choices[cur] \cup {NoHash}
  BY <1>1 DEF SInv, Local, Named
<1> QED
  BY <1>1, <1>2, OneChoice

LEMMA FinalizerSafe ==
  ASSUME ConstantsAssumption, TInv, SInv, AddFinalizer
  PROVE  SInv'
<1>1. at \in Early /\ at # "idle"
  BY DEF AddFinalizer, Early
<1>2. "read" \notin Confirmed \cup Validating /\ "retry" \notin Confirmed \cup Validating
  BY DEF Confirmed, Validating, Early, Labels
<1>3. CASE target[cur].exists
  <2> DEFINE r == [target[cur] EXCEPT !.finalizer = TRUE]
  <2>1. Patch(r, "read")
    BY <1>3 DEF AddFinalizer, PatchObject
  <2>2. /\ r.exists /\ r.creds = target[cur].creds /\ r.deleting = target[cur].deleting
        /\ r.hash = target[cur].hash /\ r.status = target[cur].status
    BY <1>3, Holding DEF Record
  <2> HIDE DEF r
  <2> QED
    BY <1>1, <1>2, <1>3, <2>1, <2>2, PatchSafe DEF Onward
<1>4. CASE ~target[cur].exists
  <2>1. Move("retry")
    BY <1>4 DEF AddFinalizer, PatchObject
  <2> QED
    BY <1>1, <1>2, <2>1, MoveSafe DEF Onward
<1> QED
  BY <1>3, <1>4

LEMMA ReadSafe ==
  ASSUME ConstantsAssumption, Fixed, TInv, SInv, ReadCredentials
  PROVE  SInv'
<1>1. /\ UNCHANGED <<target, job, entry, cron, volume, proven, cur, spec, outcome>>
      /\ hash' = spec /\ at = "read"
      /\ updated' = (target[cur].hash # spec)
  BY DEF ReadCredentials, objects
<1>2. spec \in Choices[cur] /\ target[cur].hash \in Choices[cur] \cup {NoHash}
      /\ outcome = "none" /\ cur \in Targets
  BY <1>1 DEF SInv, Local, Named, TInv, WorkerTypes, Early
<1>3. target[cur].hash # spec => target[cur].hash = NoHash
  BY <1>2, OneChoice
<1>4. at' \in {"mark", "volume", "validate"}
      /\ (at' = "validate" => spec \notin NFS)
  BY <1>1, <1>3 DEF ReadCredentials, AfterMark, AfterRelease
<1>5. Local'
  BY <1>1, <1>2, <1>3, <1>4 DEF Local, Early, Confirmed, Validating
<1>6. Named' /\ Anchored' /\ VolumeKept'
  BY <1>1 DEF SInv, Named, Anchored, VolumeKept, Living
<1>7. Evidence'
  BY <1>1 DEF SInv, Evidence, Good, Shown
<1> QED
  BY <1>5, <1>6, <1>7 DEF SInv

LEMMA MarkSafe ==
  ASSUME ConstantsAssumption, Fixed, TInv, SInv, MarkInProgress
  PROVE  SInv'
<1> DEFINE r == [target[cur] EXCEPT !.reason = hash, !.status = "InProgress"]
           label == AfterMark(updated, target[cur].hash, target[cur].creds)
<1>1. at = "mark" /\ at \notin Early /\ Patch(r, label)
  BY DEF MarkInProgress, Early
<1>2. /\ target[cur] \in Record /\ target[cur].exists /\ target[cur].creds = hash
  BY <1>1, InHand
<1>3. label \in {"volume", "validate"} /\ (label = "validate" => hash \notin NFS)
  BY <1>1, <1>2 DEF AfterMark, AfterRelease, SInv, Local
<1>4. /\ r.exists /\ r.creds = target[cur].creds /\ r.deleting = target[cur].deleting
      /\ r.hash = target[cur].hash /\ r.status = "InProgress"
  BY <1>2 DEF Record
<1>5. label \in Onward /\ label \notin Confirmed /\ label \notin {"read", "removeFinalizer"}
  BY <1>3 DEF Onward, Confirmed, Validating, Labels, Early
<1>6. label \in Validating /\ hash \in NFS => volume[hash].state = "exists"
  BY <1>3 DEF Validating
<1> HIDE DEF r, label
<1> QED
  BY <1>1, <1>2, <1>4, <1>5, <1>6, PatchSafe DEF Early

\* A patch of the status or a condition.
LEMMA StatusSafe ==
  ASSUME ConstantsAssumption, Fixed, TInv, SInv, at \in Validating,
         NEW st, NEW label \in Validating \cup {"idle", "retry"},
         PatchStatus(st, label),
         st = "Available" => Good(hash),
         label \in Confirmed => Good(hash)
  PROVE  SInv'
<1> DEFINE r == [target[cur] EXCEPT !.status = st]
<1>1. at \notin Early /\ at # "idle" /\ Patch(r, label)
  BY DEF PatchStatus, Validating, Early
<1>2. /\ target[cur] \in Record /\ target[cur].exists /\ target[cur].creds = hash
  BY <1>1, InHand
<1>3. /\ r.exists /\ r.creds = target[cur].creds /\ r.deleting = target[cur].deleting
      /\ r.hash = target[cur].hash /\ r.status = st
  BY <1>2 DEF Record
<1>4. hash \in NFS => volume[hash].state = "exists"
  BY DEF SInv, Local
<1>5. label \in Onward /\ label \notin {"read", "removeFinalizer"}
  BY DEF Onward, Validating, Early
<1> HIDE DEF r
<1> QED
  BY <1>1, <1>2, <1>3, <1>4, <1>5, PatchSafe

LEMMA ConditionSafe ==
  ASSUME ConstantsAssumption, Fixed, TInv, SInv, at \in Validating,
         NEW o, NEW label \in Validating \cup {"idle", "retry"},
         PatchCondition(o, label),
         label \in Confirmed => Good(hash)
  PROVE  SInv'
<1> DEFINE r == [target[cur] EXCEPT !.validation = @ \cup {o}]
<1>1. at \notin Early /\ at # "idle"
  BY DEF Validating, Early
<1>2. /\ target[cur] \in Record /\ target[cur].exists /\ target[cur].creds = hash
  BY <1>1, InHand
<1>3. /\ r.exists /\ r.creds = target[cur].creds /\ r.deleting = target[cur].deleting
      /\ r.hash = target[cur].hash /\ r.status = target[cur].status
  BY <1>2 DEF Record
<1>4. hash \in NFS => volume[hash].state = "exists"
  BY DEF SInv, Local
<1>5. label \in Onward /\ label \notin {"read", "removeFinalizer"}
  BY DEF Onward, Validating, Early
<1>6. Patch(r, label) \/ Move(label)
  BY DEF PatchCondition
<1> HIDE DEF r
<1> QED
  BY <1>1, <1>2, <1>3, <1>4, <1>5, <1>6, PatchSafe, MoveSafe

LEMMA AfterwardsSafe ==
  ASSUME NEW r
  PROVE  /\ AfterUpdate(r) \in (Validating \cup {"idle", "retry"}) \ Confirmed
         /\ AfterValidation(r) \in (Validating \cup {"idle", "retry"}) \ Confirmed
         /\ AfterJob(r) \in (Validating \cup {"idle", "retry"}) \ Confirmed
  BY AfterwardsLabels DEF Validating, Confirmed, Labels, Early

LEMMA StatusesSafe ==
  ASSUME ConstantsAssumption, Fixed, TInv, SInv,
         AddStarted \/ AddCompleted \/ MarkAvailable \/ BeginValidation
           \/ AddVerdict \/ MarkVerdict
  PROVE  SInv'
<1>0. at \in Confirmed => Good(hash)
  BY DEF SInv, Local
<1>1. CASE AddStarted
  <2>1. at \in Validating /\ Good(hash) /\ PatchCondition("InProgress", "completed")
    BY <1>0, <1>1 DEF AddStarted, Validating, Labels, Early, Confirmed
  <2> QED
    BY <2>1, ConditionSafe DEF Validating, Labels, Early
<1>2. CASE AddCompleted
  <2>1. at \in Validating /\ Good(hash) /\ PatchCondition("Completed", "available")
    BY <1>0, <1>2 DEF AddCompleted, Validating, Labels, Early, Confirmed
  <2> QED
    BY <2>1, ConditionSafe DEF Validating, Labels, Early
<1>3. CASE MarkAvailable
  <2> DEFINE label == AfterValidation([target[cur] EXCEPT !.status = "Available"])
  <2>1. at \in Validating /\ Good(hash) /\ PatchStatus("Available", label)
    BY <1>0, <1>3 DEF MarkAvailable, Validating, Labels, Early, Confirmed
  <2>2. label \in Validating \cup {"idle", "retry"}
    BY AfterwardsSafe
  <2> HIDE DEF label
  <2> QED
    BY <2>1, <2>2, StatusSafe
<1>4. CASE BeginValidation
  <2>1. PICK label \in {"deleteJob", "removeEntry"} : PatchCondition("InProgress", label)
    BY <1>4 DEF BeginValidation
  <2>2. at \in Validating /\ label \in Validating \ Confirmed
    BY <1>4, <2>1 DEF BeginValidation, Validating, Labels, Early, Confirmed
  <2> QED
    BY <2>1, <2>2, ConditionSafe
<1>5. CASE AddVerdict
  <2>1. PatchCondition(outcome, "verdictStatus")
    BY <1>5 DEF AddVerdict
  <2>2. at \in Validating /\ "verdictStatus" \in Validating \ Confirmed
    BY <1>5 DEF AddVerdict, Validating, Labels, Early, Confirmed
  <2> QED
    BY <2>1, <2>2, ConditionSafe
<1>6. CASE MarkVerdict
  <2> DEFINE label == IF outcome = "Completed" THEN "deleteValidated"
                      ELSE AfterJob([target[cur] EXCEPT !.status = Verdict])
  <2>1. at \in Validating /\ PatchStatus(Verdict, label)
    BY <1>6 DEF MarkVerdict, Validating, Labels, Early
  <2>2. label \in (Validating \cup {"idle", "retry"}) \ Confirmed
    BY AfterwardsSafe DEF Validating, Labels, Early, Confirmed
  <2>3. Verdict = "Available" => Good(hash)
    BY DEF Verdict, SInv, Local
  <2> HIDE DEF label
  <2> QED
    BY <2>1, <2>2, <2>3, StatusSafe
<1> QED
  BY <1>1, <1>2, <1>3, <1>4, <1>5, <1>6

\* A step that leaves the Targets and the volumes alone.
LEMMA ObjectSafe ==
  ASSUME ConstantsAssumption, TInv, SInv, at # "idle",
         NEW label \in Onward, Goto(label),
         UNCHANGED <<target, volume, proven>>,
         Anchored',
         \A h \in Hashes : /\ job'[h].state = "succeeded" => Good(h)
                           /\ entry'[h] = "Valid" => Good(h),
         label \in {"read", "removeFinalizer"} => at \in Early,
         label \in Confirmed => Good(hash),
         label \in Validating /\ hash \in NFS => volume[hash].state = "exists"
  PROVE  SInv'
<1>1. Continue(label, spec)
  BY DEF Goto
<1>2. Local'
  BY <1>1, ContinueSafe DEF SInv, TInv, Local
<1>3. Named' /\ VolumeKept'
  BY DEF SInv, Named, VolumeKept, Living
<1>4. Evidence'
  BY DEF SInv, Evidence, Good, Shown
<1> QED
  BY <1>2, <1>3, <1>4 DEF SInv

LEMMA JobStatusSafe ==
  ASSUME SInv, NEW h \in Hashes, JobStatus(job[h].state) = "Completed"
  PROVE  Good(h)
  BY DEF JobStatus, SInv, Evidence

LEMMA ProcessSafe ==
  ASSUME ConstantsAssumption, Fixed, TInv, SInv, ProcessValidationConfigMap
  PROVE  SInv'
<1> DEFINE label == AfterEntry(target[cur])
<1>1. /\ at = "validate" /\ at \notin Early /\ at \in Validating
      /\ UNCHANGED <<target, job, entry, cron, volume, proven>>
  BY DEF ProcessValidationConfigMap, objects, Early, Validating, Labels
<1>2. hash \in Hashes /\ hash # NoHash
  BY <1>1, InHand
<1>3. hash \in NFS => volume[hash].state = "exists"
  BY <1>1 DEF SInv, Local
<1>4. CASE label = "verdict"
  <2>1. /\ at' = "verdict" /\ outcome' = JobStatus(job[hash].state)
        /\ UNCHANGED <<queue, cur, spec, hash, updated>>
    BY <1>4 DEF ProcessValidationConfigMap
  <2>2. outcome' = "Completed" => Good(hash)
    BY <1>2, <2>1, JobStatusSafe
  <2>3. Good(hash) => Good(hash)'
    BY <1>1, <2>1 DEF Good, Shown
  <2>4. Local'
    BY <1>1, <1>2, <1>3, <2>1, <2>2, <2>3 DEF SInv, Local, Early, Confirmed
  <2>5. Named' /\ Anchored' /\ VolumeKept'
    BY <1>1 DEF SInv, Named, Anchored, VolumeKept, Living
  <2>6. Evidence'
    BY <1>1 DEF SInv, Evidence, Good, Shown
  <2> QED
    BY <2>4, <2>5, <2>6 DEF SInv
<1>5. CASE label # "verdict"
  <2>1. Goto(label) /\ at # "idle"
    BY <1>1, <1>5 DEF ProcessValidationConfigMap
  <2>2. label \in Validating \cup {"idle", "retry"}
    BY AfterwardsSafe, <1>5 DEF AfterEntry, ByJob, Validating, Labels, Early
  <2>3. label \in Confirmed => Good(hash)
    <3>1. label \in Confirmed => entry[hash] = "Valid"
      BY AfterwardsSafe DEF AfterEntry, ByJob, Confirmed
    <3> QED
      BY <1>2, <3>1 DEF SInv, Evidence
  <2>4. Anchored'
    BY <1>1 DEF SInv, Anchored
  <2>5. \A h \in Hashes : /\ job'[h].state = "succeeded" => Good(h)
                          /\ entry'[h] = "Valid" => Good(h)
    BY <1>1 DEF SInv, Evidence
  <2>6. label \in Onward /\ label \notin {"read", "removeFinalizer"}
    BY <2>2 DEF Onward, Validating, Early
  <2> HIDE DEF label
  <2> QED
    BY <1>1, <1>3, <2>1, <2>3, <2>4, <2>5, <2>6, ObjectSafe
<1> QED
  BY <1>4, <1>5

LEMMA VerdictSafe ==
  ASSUME ConstantsAssumption, Fixed, TInv, SInv,
         UpdateValidationConfigMap \/ RemoveCredHash \/ ReconcilePollerCronJob
  PROVE  SInv'
<1>1. /\ at \notin Early /\ at \in Validating /\ at # "idle"
      /\ hash \in NFS => volume[hash].state = "exists"
  BY DEF UpdateValidationConfigMap, RemoveCredHash, ReconcilePollerCronJob, SInv, Local,
         Validating, Labels, Early
<1>2. hash \in Hashes /\ hash # NoHash
  BY <1>1, InHand
<1>3. outcome = "Completed" => Good(hash)
  BY DEF SInv, Local
<1>4. CASE UpdateValidationConfigMap
  <2>1. CASE Refused
    BY <2>1, RefusedSafe
  <2>2. CASE ~Refused
    <3>1. /\ entry' = CASE outcome = "Completed" -> [entry EXCEPT ![hash] = "Valid"]
                        [] outcome = "Failed" -> [entry EXCEPT ![hash] = "Invalid"]
                        [] OTHER -> entry
          /\ UNCHANGED <<target, job, cron, volume, proven>>
          /\ at' \in {"verdictStatus", "verdictCondition"}
          /\ outcome' = "Completed" => outcome = "Completed"
          /\ UNCHANGED <<cur, spec, hash, updated>>
      BY <1>4, <2>2 DEF UpdateValidationConfigMap
    <3>2. \A h \in Hashes : entry'[h] = "Valid" => Good(h)
      BY <1>2, <1>3, <3>1 DEF SInv, Evidence, TInv, ObjectTypes
    <3>3. Evidence'
      BY <3>1, <3>2 DEF SInv, Evidence, Good, Shown
    <3>4. Good(hash) => Good(hash)'
      BY <3>1 DEF Good, Shown
    <3>5. Local'
      BY <1>1, <1>2, <1>3, <3>1, <3>4 DEF SInv, Local, Early, Confirmed
    <3>6. Named' /\ Anchored' /\ VolumeKept'
      BY <3>1 DEF SInv, Named, Anchored, VolumeKept, Living
    <3> QED
      BY <3>3, <3>5, <3>6 DEF SInv
  <2> QED
    BY <2>1, <2>2
<1>5. CASE RemoveCredHash
  <2>1. UNCHANGED <<target, job, volume, proven>> /\ Goto("createJob")
    BY <1>5 DEF RemoveCredHash
  <2>2. entry' \in {entry, [entry EXCEPT ![hash] = "none"]}
    BY <1>5 DEF RemoveCredHash
  <2>3. \A h \in Hashes : /\ job'[h].state = "succeeded" => Good(h)
                          /\ entry'[h] = "Valid" => Good(h)
    BY <2>1, <2>2 DEF SInv, Evidence, TInv, ObjectTypes
  <2>4. Anchored'
    BY <2>1 DEF SInv, Anchored
  <2>5. "createJob" \in Onward \ Confirmed
    BY DEF Onward, Validating, Labels, Early, Confirmed
  <2> QED
    BY <1>1, <2>1, <2>3, <2>4, <2>5, ObjectSafe
<1>6. CASE ReconcilePollerCronJob
  <2>1. CASE Refused
    BY <2>1, RefusedSafe
  <2>2. CASE ~Refused
    <3>1. UNCHANGED <<target, job, entry, volume, proven>> /\ Goto("idle")
      BY <1>6, <2>2 DEF ReconcilePollerCronJob
    <3>2. /\ Anchored'
          /\ \A h \in Hashes : /\ job'[h].state = "succeeded" => Good(h)
                               /\ entry'[h] = "Valid" => Good(h)
      BY <3>1 DEF SInv, Anchored, Evidence
    <3>3. "idle" \in Onward \ (Confirmed \cup Validating)
      BY DEF Onward, Confirmed, Validating, Early
    <3> QED
      BY <1>1, <3>1, <3>2, <3>3, ObjectSafe
  <2> QED
    BY <2>1, <2>2
<1> QED
  BY <1>4, <1>5, <1>6

LEMMA AnnotateSafe ==
  ASSUME ConstantsAssumption, Fixed, TInv, SInv, UpdateCredentialsHash
  PROVE  SInv'
<1> DEFINE r == [target[cur] EXCEPT !.hash = hash]
<1>1. /\ at \notin Early /\ at \in Validating /\ at # "idle"
      /\ hash \in NFS => volume[hash].state = "exists"
  BY DEF UpdateCredentialsHash, SInv, Local, Validating, Labels, Early
<1>2. /\ target[cur] \in Record /\ target[cur].exists /\ hash # NoHash
  BY <1>1, InHand
<1>3. /\ r.exists /\ r.creds = target[cur].creds /\ r.deleting = target[cur].deleting
      /\ r.hash = hash /\ r.status = target[cur].status
  BY <1>2 DEF Record
<1>4. PICK label \in {"retry", AfterUpdate(target[cur])} : Patch(r, label)
  BY <1>2 DEF UpdateCredentialsHash, PatchObject
<1>5. label \in Onward /\ label \notin Confirmed \cup {"read", "removeFinalizer"}
  BY AfterwardsSafe DEF Onward, Confirmed, Validating, Early
<1> HIDE DEF r
<1> QED
  BY <1>1, <1>2, <1>3, <1>4, <1>5, PatchSafe

LEMMA JobsSafe ==
  ASSUME ConstantsAssumption, Fixed, TInv, SInv,
         DeleteFailedJob \/ CreateValidationJob \/ DeleteValidatedJob
  PROVE  SInv'
<1>1. /\ at \notin Early /\ at \in Validating /\ at # "idle"
      /\ hash \in NFS => volume[hash].state = "exists"
  BY DEF DeleteFailedJob, CreateValidationJob, DeleteValidatedJob, SInv, Local,
         Validating, Labels, Early
<1>2. hash \in Hashes /\ hash # NoHash /\ hash \in Choices[cur] /\ cur \in Targets
  BY <1>1, InHand
<1>3. AfterJob(target[cur]) \in (Validating \cup {"idle", "retry"}) \ Confirmed
  BY AfterwardsSafe
<1>4. ASSUME NEW label \in (Validating \cup {"idle", "retry"}) \ Confirmed, Goto(label),
             UNCHANGED <<target, entry, volume, proven>>,
             \A h \in Hashes :
                 /\ job'[h].state # "absent" => h \in Choices[job'[h].by]
                 /\ job'[h].state = "succeeded" => job[h].state = "succeeded"
      PROVE  SInv'
  <2>1. Anchored'
    BY <1>4 DEF SInv, Anchored
  <2>2. \A h \in Hashes : /\ job'[h].state = "succeeded" => Good(h)
                          /\ entry'[h] = "Valid" => Good(h)
    BY <1>4 DEF SInv, Evidence
  <2>3. label \in Onward /\ label \notin {"read", "removeFinalizer"}
    BY <1>4 DEF Onward, Validating, Early
  <2> QED
    BY <1>1, <1>4, <2>1, <2>2, <2>3, ObjectSafe
<1>5. CASE Refused
  BY <1>5, RefusedSafe
<1>6. ASSUME NEW label \in (Validating \cup {"idle", "retry"}) \ Confirmed,
             DeleteJob(label), ~Refused
      PROVE  SInv'
  <2>1. /\ job' = [job EXCEPT ![hash].deleting = (@ \/ job[hash] # NoJob)]
        /\ UNCHANGED <<target, entry, volume, proven>> /\ Goto(label)
    BY <1>6 DEF DeleteJob
  <2>2. \A h \in Hashes : job'[h].state = job[h].state /\ job'[h].by = job[h].by
    BY <2>1 DEF TInv, ObjectTypes, Job
  <2>3. \A h \in Hashes :
            /\ job'[h].state # "absent" => h \in Choices[job'[h].by]
            /\ job'[h].state = "succeeded" => job[h].state = "succeeded"
    BY <2>2 DEF SInv, Anchored
  <2> QED
    BY <1>4, <2>1, <2>3
<1>7. CASE DeleteFailedJob /\ ~Refused
  <2>1. "removeEntry" \in Validating \ Confirmed
    BY DEF Validating, Labels, Early, Confirmed
  <2> QED
    BY <1>6, <1>7, <2>1 DEF DeleteFailedJob
<1>8. CASE DeleteValidatedJob /\ ~Refused
  BY <1>3, <1>6, <1>8 DEF DeleteValidatedJob
<1>9. CASE CreateValidationJob /\ ~Refused
  <2>1. CASE Move("retry")
    <3>1. "retry" \in Onward \ (Confirmed \cup Validating)
      BY DEF Onward, Confirmed, Validating, Labels
    <3> QED
      BY <1>1, <2>1, <3>1, MoveSafe
  <2>2. CASE ~Move("retry")
    <3> DEFINE new == [state |-> "new", by |-> cur, mounts |-> spec \in NFS,
                       deleting |-> FALSE]
    <3>1. /\ job' = [job EXCEPT ![hash] = new]
          /\ UNCHANGED <<target, entry, volume, proven>>
          /\ Goto(AfterJob(target[cur]))
      BY <1>9, <2>2 DEF CreateValidationJob
    <3>2. new.state = "new" /\ new.by = cur
      OBVIOUS
    <3> HIDE DEF new
    <3>3. \A h \in Hashes :
              /\ job'[h].state # "absent" => h \in Choices[job'[h].by]
              /\ job'[h].state = "succeeded" => job[h].state = "succeeded"
      BY <1>2, <3>1, <3>2 DEF SInv, Anchored, TInv, ObjectTypes
    <3> QED
      BY <1>3, <1>4, <3>1, <3>3
  <2> QED
    BY <2>1, <2>2
<1> QED
  BY <1>5, <1>7, <1>8, <1>9

\* Nothing is released while credentials do not change.
LEMMA NothingReleased == ASSUME SInv PROVE ~CleanupForHash
  BY DEF SInv, Local, CleanupForHash

LEMMA VolumeSafe ==
  ASSUME ConstantsAssumption, Fixed, TInv, SInv, ReconcileVolume
  PROVE  SInv'
<1> DEFINE made == [volume EXCEPT ![hash] = [state |-> "exists", export |-> spec]]
<1>1. at \notin Early /\ at # "idle"
  BY DEF ReconcileVolume, Early
<1>2. hash \in Hashes /\ spec = hash
  BY <1>1, InHand
<1>3. /\ "validate" \in Onward \ Confirmed
      /\ "retry" \in Onward \ (Confirmed \cup Validating)
  BY DEF Onward, Confirmed, Validating, Labels, Early
<1>4. CASE Refused
  BY <1>4, RefusedSafe
<1>5. CASE Move("retry")
  BY <1>1, <1>3, <1>5, MoveSafe
<1>6. CASE Move("validate") /\ volume[hash].state = "exists"
  BY <1>1, <1>3, <1>6, MoveSafe
<1>7. ASSUME volume[hash].state = "absent", volume' \in {volume, made},
             UNCHANGED <<target, job, entry, cron, proven>>,
             NEW label \in {"validate", "retry"}, Goto(label),
             label = "validate" => volume' = made
      PROVE  SInv'
  <2>1. /\ \A h \in Hashes \ {hash} : volume'[h] = volume[h]
        /\ volume' = made => volume'[hash].state = "exists" /\ volume'[hash].export = hash
    BY <1>2, <1>7 DEF TInv, ObjectTypes
  <2>2. Anchored'
    BY <1>2, <1>7, <2>1 DEF SInv, Anchored
  <2>3. VolumeKept'
    BY <1>2, <1>7, <2>1 DEF SInv, VolumeKept, Living, ConstantsAssumption
  <2>4. Continue(label, spec)
    BY <1>7 DEF Goto
  <2>5. Local'
    BY <1>1, <1>3, <1>7, <2>1, <2>4, ContinueSafe DEF SInv, Local, TInv
  <2>6. Named' /\ Evidence'
    BY <1>7 DEF SInv, Named, Evidence, Good, Shown
  <2> QED
    BY <2>2, <2>3, <2>5, <2>6 DEF SInv
<1>8. volume[hash].state \in {"absent", "exists", "deleting"}
  BY <1>2 DEF TInv, ObjectTypes, Volume
<1>9. CASE volume[hash].state = "absent"
  BY <1>7, <1>9 DEF ReconcileVolume
<1>10. CASE volume[hash].state # "absent"
  BY <1>4, <1>5, <1>6, <1>8, <1>10 DEF ReconcileVolume
<1> QED
  BY <1>9, <1>10

LEMMA RemoveSafe ==
  ASSUME ConstantsAssumption, TInv, SInv, RemoveFinalizer
  PROVE  SInv'
<1>1. Patch(NoRecord, "idle")
  BY Holding DEF RemoveFinalizer, PatchObject
<1>2. CASE Refused
  BY <1>2, RefusedSafe
<1>3. CASE ~Refused
  <2>1. /\ target' = [target EXCEPT ![cur] = NoRecord]
        /\ UNCHANGED <<job, entry, cron, volume, proven>>
        /\ Continue("idle", NoRecord.creds)
    BY <1>1, <1>3 DEF Patch, objects
  <2>2. /\ target'[cur] = NoRecord
        /\ \A t \in Targets \ {cur} : target'[t] = target[t]
        /\ ~NoRecord.exists /\ NoRecord.hash = NoHash /\ NoRecord.status = ""
    BY <2>1 DEF TInv, ObjectTypes, WorkerTypes, NoRecord
  <2>3. "idle" \in Onward \ (Confirmed \cup Validating)
    BY DEF Onward, Confirmed, Validating, Early
  <2>4. Local'
    BY <2>1, <2>3, ContinueSafe DEF SInv, TInv
  <2>5. Named'
    BY <2>2 DEF SInv, Named
  <2>6. Anchored'
    BY <2>1 DEF SInv, Anchored
  <2>7. Evidence'
    <3>1. UNCHANGED <<job, entry, proven>>
      BY <2>1
    <3>2. \A t \in Targets : target'[t].status = "Available" => target'[t] = target[t]
      BY <2>2
    <3> QED
      BY <3>1, <3>2 DEF SInv, Evidence, Good, Shown
  <2>8. VolumeKept'
    BY <2>1, <2>2 DEF SInv, VolumeKept, Living
  <2> QED
    BY <2>4, <2>5, <2>6, <2>7, <2>8 DEF SInv
<1> QED
  BY <1>2, <1>3

LEMMA CleanupSafe ==
  ASSUME ConstantsAssumption, TInv, SInv, CleanupTarget
  PROVE  SInv'
<1> DEFINE old == target[cur].hash
           noJob == [job EXCEPT ![old] = NoJob]
           noVolume == IF spec \in NFS
                       THEN [volume EXCEPT ![old] = Removing(@)] ELSE volume
<1>1. at = "cleanup" /\ at # "idle" /\ at \in Early /\ target[cur].deleting
  BY DEF CleanupTarget, Early, SInv, Local
<1>2. /\ "removeFinalizer" \in Onward \ (Confirmed \cup Validating)
      /\ "retry" \in Onward \ (Confirmed \cup Validating)
  BY DEF Onward, Confirmed, Validating, Labels, Early
<1>3. \A h \in Hashes : Synced[h] = "Valid" => entry[h] = "Valid"
  BY DEF Synced
<1>4. \A h \in Hashes : noJob[h] = job[h] \/ noJob[h].state = "absent"
  BY NoJobType DEF TInv, ObjectTypes
<1>5. CASE old = NoHash
  <2>1. Move("removeFinalizer")
    BY <1>5 DEF CleanupTarget
  <2> QED
    BY <1>1, <1>2, <2>1, MoveSafe
<1>6. ASSUME job' \in {job, noJob}, entry' \in {entry, Synced},
             UNCHANGED <<target, volume, proven>>,
             NEW label \in {"removeFinalizer", "retry"}, Goto(label)
      PROVE  SInv'
  <2>1. Anchored'
    BY <1>4, <1>6 DEF SInv, Anchored
  <2>2. \A h \in Hashes : /\ job'[h].state = "succeeded" => Good(h)
                          /\ entry'[h] = "Valid" => Good(h)
    BY <1>3, <1>4, <1>6 DEF SInv, Evidence
  <2> QED
    BY <1>1, <1>2, <1>6, <2>1, <2>2, ObjectSafe
<1>7. ASSUME old # NoHash, LivingUsers(old) \ {cur} = {},
             job' = noJob, volume' = noVolume, entry' \in {entry, Synced},
             UNCHANGED <<target, proven>>, Goto("removeFinalizer")
      PROVE  SInv'
  <2>1. \A h \in Hashes : /\ volume'[h].export = volume[h].export
                          /\ h # old => volume'[h] = volume[h]
    BY <1>7 DEF Removing, TInv, ObjectTypes, Volume
  <2>2. Anchored'
    BY <1>4, <1>7, <2>1 DEF SInv, Anchored
  <2>3. \A t \in Targets : Living(t) => target[t].hash # old
    BY <1>1, <1>7 DEF LivingUsers, Users, Living
  <2>4. VolumeKept'
    BY <1>7, <2>1, <2>3 DEF SInv, VolumeKept, Living, ConstantsAssumption
  <2>5. Evidence'
    <3>1. \A h \in Hashes : /\ job'[h].state = "succeeded" => Good(h)
                            /\ entry'[h] = "Valid" => Good(h)
      BY <1>3, <1>4, <1>7 DEF SInv, Evidence
    <3> QED
      BY <1>7, <3>1 DEF SInv, Evidence, Good, Shown
  <2>6. Named'
    BY <1>7 DEF SInv, Named
  <2>7. Continue("removeFinalizer", spec)
    BY <1>7 DEF Goto
  <2>8. Local'
    BY <1>1, <1>2, <1>7, <2>7, ContinueSafe DEF SInv, Local, TInv
  <2> QED
    BY <2>2, <2>4, <2>5, <2>6, <2>8 DEF SInv
<1>8. CASE old # NoHash /\ LivingUsers(old) \ {cur} # {}
  <2>1. /\ entry' \in {entry, Synced} /\ UNCHANGED <<target, job, volume, proven>>
        /\ Goto("removeFinalizer")
    BY <1>8 DEF CleanupTarget
  <2> QED
    BY <1>6, <2>1
<1>9. CASE old # NoHash /\ LivingUsers(old) \ {cur} = {}
  <2> DEFINE noCron == [cron EXCEPT ![old] = NoTarget]
  <2>1. \/ /\ job' = noJob /\ cron' = noCron /\ volume' = noVolume
           /\ \/ entry' = Synced /\ UNCHANGED bounds
              \/ Fault /\ UNCHANGED <<entry, edits>>
           /\ UNCHANGED <<target, proven>>
           /\ Goto("removeFinalizer")
        \/ /\ Fault
           /\ \E done \in {<<job, cron>>, <<noJob, cron>>, <<noJob, noCron>>} :
                 job' = done[1] /\ cron' = done[2]
           /\ UNCHANGED <<target, entry, volume, proven, edits>>
           /\ Goto("retry")
    BY <1>9 DEF CleanupTarget
  <2>2. ASSUME /\ job' = noJob /\ volume' = noVolume
               /\ \/ entry' = Synced /\ UNCHANGED bounds
                  \/ Fault /\ UNCHANGED <<entry, edits>>
               /\ UNCHANGED <<target, proven>>
               /\ Goto("removeFinalizer")
        PROVE  SInv'
    <3>1. entry' \in {entry, Synced}
      BY <2>2
    <3> HIDE DEF noJob, noVolume
    <3> QED
      BY <1>7, <1>9, <2>2, <3>1
  <2>3. ASSUME /\ \E done \in {<<job, cron>>, <<noJob, cron>>, <<noJob, noCron>>} :
                     job' = done[1] /\ cron' = done[2]
               /\ UNCHANGED <<target, entry, volume, proven>>
               /\ Goto("retry")
        PROVE  SInv'
    <3>1. job' \in {job, noJob}
      BY <2>3
    <3> HIDE DEF noJob
    <3> QED
      BY <1>6, <2>3, <3>1
  <2> QED
    BY <2>1, <2>2, <2>3
<1> QED
  BY <1>5, <1>8, <1>9

LEMMA StartSafe ==
  ASSUME ConstantsAssumption, TInv, SInv, NEW t \in Targets, Start(t)
  PROVE  SInv'
<1>1. /\ at = "idle" /\ cur' = t /\ spec' = target[t].creds
      /\ UNCHANGED <<target, job, entry, cron, volume, proven, hash, updated, outcome>>
  BY DEF Start, objects
<1>2. /\ at' \in {"idle", "cleanup", "read", "addFinalizer"}
      /\ at' # "idle" => target[t].exists
      /\ at' = "cleanup" => target[t].deleting
  BY DEF Start
<1>3. hash = NoHash /\ outcome = "none"
  BY <1>1 DEF SInv, Local, Early
<1>4. target[t].exists => target[t].creds \in Choices[t]
  BY DEF SInv, Named
<1>5. Local'
  BY <1>1, <1>2, <1>3, <1>4 DEF Local, Early, Confirmed, Validating
<1>6. Named' /\ Anchored' /\ VolumeKept'
  BY <1>1 DEF SInv, Named, Anchored, VolumeKept, Living
<1>7. Evidence'
  BY <1>1 DEF SInv, Evidence, Good, Shown
<1> QED
  BY <1>5, <1>6, <1>7 DEF SInv

LEMMA CrashSafe ==
  ASSUME ConstantsAssumption, TInv, SInv, Crash
  PROVE  SInv'
<1>1. /\ at' = "idle" /\ hash' = NoHash /\ outcome' = "none"
      /\ UNCHANGED <<target, job, entry, volume, proven>>
  BY DEF Crash, Ends, objects
<1>2. Local'
  BY <1>1 DEF Local, Early, Confirmed, Validating
<1>3. Named' /\ Anchored' /\ VolumeKept'
  BY <1>1 DEF SInv, Named, Anchored, VolumeKept, Living
<1>4. Evidence'
  BY <1>1 DEF SInv, Evidence, Good, Shown
<1> QED
  BY <1>2, <1>3, <1>4 DEF SInv

-----------------------------------------------------------------------------
(* Users and the cluster. *)

\* What does not concern the worker.
LEMMA OutsideSafe ==
  ASSUME ConstantsAssumption, TInv, SInv, UNCHANGED worker, proven \subseteq proven',
         Named', Anchored', Evidence', VolumeKept',
         at = "mark" => target'[cur].hash = target[cur].hash,
         at = "cleanup" => target'[cur].deleting,
         \A h \in Hashes : volume[h].state = "exists" => volume'[h].state = "exists"
  PROVE  SInv'
<1>1. UNCHANGED <<at, cur, spec, hash, updated, outcome>>
  BY DEF worker
<1>2. Good(hash) => Good(hash)'
  BY <1>1 DEF Good, Shown
<1>3. hash \in NFS => hash \in Hashes
  BY DEF ConstantsAssumption
<1>4. Local'
  BY <1>1, <1>2, <1>3 DEF SInv, Local
<1> QED
  BY <1>4 DEF SInv

LEMMA EditSafe ==
  ASSUME ConstantsAssumption, TInv, SInv, NEW t \in Targets, NEW r, Edit(t, r),
         /\ r.exists => r.creds \in Choices[t]
         /\ r.hash \in {target[t].hash, NoHash}
         /\ ~r.exists => r = NoRecord
         /\ r.status = "Available" =>
               r.status = target[t].status /\ r.creds = target[t].creds
         /\ ~r.exists \/ r.deleting \/ r.hash = NoHash
         /\ target[t].exists /\ target[t].finalizer =>
               r.hash = target[t].hash /\ (target[t].deleting => r.deleting)
  PROVE  SInv'
<1>1. /\ target' = [target EXCEPT ![t] = r]
      /\ UNCHANGED <<job, entry, cron, volume, proven>> /\ UNCHANGED worker
  BY DEF Edit, Outside, objects
<1>2. target'[t] = r /\ \A u \in Targets \ {t} : target'[u] = target[u]
  BY <1>1 DEF TInv, ObjectTypes
<1>3. at \in {"mark", "cleanup"} => target[cur].exists /\ target[cur].finalizer
  BY Holding
<1>4. Named'
  BY <1>2 DEF SInv, Named
<1>5. Anchored'
  BY <1>1 DEF SInv, Anchored
<1>6. Evidence'
  BY <1>1, <1>2 DEF SInv, Evidence, Good, Shown
<1>7. VolumeKept'
  <2>1. ASSUME NEW u \in Targets, target'[u].exists, ~target'[u].deleting,
               target'[u].hash = target'[u].creds, target'[u].hash \in NFS
        PROVE  volume'[target'[u].hash].state = "exists"
    <3>1. u # t
      BY <1>2, <2>1 DEF ConstantsAssumption
    <3> QED
      BY <1>1, <1>2, <2>1, <3>1 DEF SInv, VolumeKept, Living
  <2> QED
    BY <2>1 DEF VolumeKept, Living
<1>8. at = "mark" => target'[cur].hash = target[cur].hash
  BY <1>2, <1>3 DEF TInv, WorkerTypes
<1>9. at = "cleanup" => target'[cur].deleting
  BY <1>2, <1>3 DEF TInv, WorkerTypes, SInv, Local
<1> QED
  BY <1>1, <1>4, <1>5, <1>6, <1>7, <1>8, <1>9, OutsideSafe

LEMMA UsersSafe ==
  ASSUME ConstantsAssumption, Fixed, TInv, SInv, NEW t \in Targets,
         UserCreates(t) \/ UserEdits(t) \/ UserDeletes(t)
  PROVE  SInv'
<1>0. /\ target[t] \in Record
      /\ target[t].exists => target[t].creds \in Choices[t]
      /\ ~NoRecord.exists /\ NoRecord.hash = NoHash /\ NoRecord.status = ""
  BY DEF SInv, Named, TInv, ObjectTypes, NoRecord
<1>1. CASE UserCreates(t)
  <2>1. PICK c \in Choices[t] :
            Edit(t, [NoRecord EXCEPT !.exists = TRUE, !.creds = c])
    BY <1>1 DEF UserCreates
  <2> DEFINE r == [NoRecord EXCEPT !.exists = TRUE, !.creds = c]
  <2>2. r.exists /\ r.creds = c /\ r.hash = NoHash /\ r.status = ""
    BY DEF NoRecord
  <2>3. ~target[t].exists /\ Edit(t, r)
    BY <1>1, <2>1 DEF UserCreates
  <2> HIDE DEF r
  <2> QED
    BY <2>2, <2>3, EditSafe
<1>2. ~UserEdits(t)
  BY <1>0, OneChoice DEF UserEdits
<1>3. CASE UserDeletes(t)
  <2>1. CASE target[t].finalizer
    <3> DEFINE r == [target[t] EXCEPT !.deleting = TRUE]
    <3>1. /\ r.exists = target[t].exists /\ r.creds = target[t].creds /\ r.deleting
          /\ r.hash = target[t].hash /\ r.status = target[t].status
      BY <1>0 DEF Record
    <3>2. target[t].exists /\ Edit(t, r)
      BY <1>3, <2>1 DEF UserDeletes
    <3> HIDE DEF r
    <3> QED
      BY <1>0, <3>1, <3>2, EditSafe
  <2>2. CASE ~target[t].finalizer
    <3>1. Edit(t, NoRecord)
      BY <1>3, <2>2 DEF UserDeletes
    <3> QED
      BY <1>0, <2>2, <3>1, EditSafe
  <2> QED
    BY <2>1, <2>2
<1> QED
  BY <1>1, <1>2, <1>3

\* A job goes on; if it succeeds, credentials are good.
LEMMA BecomesSafe ==
  ASSUME ConstantsAssumption, TInv, SInv, NEW h \in Hashes,
         NEW from, "absent" \notin from, NEW to, Becomes(h, from, to), Outside,
         proven \subseteq proven', to = "succeeded" => Good(h)'
  PROVE  SInv'
<1>1. /\ job' = [job EXCEPT ![h].state = to] /\ job[h].state \in from
      /\ UNCHANGED <<target, entry, volume>> /\ UNCHANGED worker
  BY DEF Becomes, Outside
<1>2. /\ job'[h].state = to /\ job'[h].by = job[h].by
      /\ \A g \in Hashes \ {h} : job'[g] = job[g]
  BY <1>1 DEF TInv, ObjectTypes, Job
<1>3. \A g : Good(g) => Good(g)'
  BY GoodStays
<1>4. Anchored'
  BY <1>1, <1>2 DEF SInv, Anchored
<1>5. Evidence'
  <2>1. \A g \in Hashes : /\ job'[g].state = "succeeded" => Good(g)'
                          /\ entry'[g] = "Valid" => Good(g)'
    BY <1>1, <1>2, <1>3 DEF SInv, Evidence
  <2>2. ASSUME NEW t \in Targets, target'[t].status = "Available"
        PROVE  Good(target[t].creds)'
    <3>1. Good(target[t].creds)
      BY <1>1, <2>2 DEF SInv, Evidence
    <3> QED
      BY <1>1, <3>1 DEF Good, Shown
  <2> QED
    BY <2>1, <2>2 DEF Evidence
<1>6. Named' /\ VolumeKept'
  BY <1>1 DEF SInv, Named, VolumeKept, Living
<1>7. at = "cleanup" => target'[cur].deleting
  BY <1>1 DEF SInv, Local
<1> QED
  BY <1>1, <1>4, <1>5, <1>6, <1>7, OutsideSafe

\* What a job tests is what its name says.
LEMMA TestedHere ==
  ASSUME ConstantsAssumption, Fixed, TInv, SInv, NEW h \in Hashes, JobSucceeds(h)
  PROVE  job[h].by \in Targets /\ h \in Choices[job[h].by] /\ Tested(h) = h
<1>1. job[h].state = "active" /\ target[job[h].by].exists /\ Tested(h) # NoHash
  BY DEF JobSucceeds, Becomes
<1>2. job[h].by \in Targets /\ h \in Choices[job[h].by]
  BY <1>1 DEF TInv, ObjectTypes, SInv, Anchored
<1>3. CASE job[h].mounts
  <2>1. Tested(h) = volume[h].export
    BY <1>3, Zenon DEF Tested
  <2> QED
    BY <1>1, <1>2, <2>1 DEF SInv, Anchored
<1>4. CASE ~job[h].mounts
  <2>1. target[job[h].by].creds \in Choices[job[h].by]
    BY <1>1, <1>2 DEF SInv, Named
  <2>2. target[job[h].by].creds = h
    BY <1>2, <2>1, OneChoice
  <2>3. Tested(h) = target[job[h].by].creds
    BY <1>4, Zenon DEF Tested
  <2> QED
    BY <1>2, <2>2, <2>3
<1> QED
  BY <1>2, <1>3, <1>4

LEMMA SuccessSafe ==
  ASSUME ConstantsAssumption, Fixed, OneKind, TInv, SInv, NEW h \in Hashes,
         JobSucceeds(h)
  PROVE  SInv'
<1> DEFINE kind == job[h].by \in Reporting
<1>1. job[h].by \in Targets /\ h \in Choices[job[h].by] /\ Tested(h) = h
  BY TestedHere
<1>2. proven' = proven \cup {<<h, kind>>}
  BY <1>1 DEF JobSucceeds
<1>3. ASSUME NEW t \in Targets, h \in Choices[t]
      PROVE  <<h, t \in Reporting>> \in proven'
  <2>1. (t \in Reporting) <=> kind
    BY <1>1, <1>3 DEF OneKind
  <2>2. (t \in Reporting) = kind
    BY <2>1
  <2> QED
    BY <1>2, <2>2
<1>4. Good(h)'
  BY <1>3 DEF Good, Shown
<1>5. proven \subseteq proven'
  BY <1>2
<1>6. Becomes(h, {"active"}, "succeeded") /\ Outside
  BY DEF JobSucceeds
<1> QED
  BY <1>4, <1>5, <1>6, BecomesSafe

LEMMA CollectedSafe ==
  ASSUME ConstantsAssumption, TInv, SInv, NEW h \in Hashes,
         JobCollected(h) \/ VolumeCollected(h)
  PROVE  SInv'
<1>1. UNCHANGED <<target, entry, proven>> /\ UNCHANGED worker
  BY DEF JobCollected, VolumeCollected, Outside
<1>2. NoJob.state = "absent" /\ NoVolume.export = NoHash
  BY NoJobType DEF NoVolume
<1>3. \A g \in Hashes : job'[g] \in {job[g], NoJob}
  BY DEF JobCollected, VolumeCollected, TInv, ObjectTypes
<1>4. \A g \in Hashes : /\ volume'[g] \in {volume[g], NoVolume}
                        /\ volume[g].state = "exists" => volume'[g] = volume[g]
  BY DEF JobCollected, VolumeCollected, TInv, ObjectTypes
<1>5. Anchored'
  BY <1>2, <1>3, <1>4 DEF SInv, Anchored
<1>6. Evidence'
  <2>1. \A g : Good(g) => Good(g)'
    BY <1>1, GoodStays
  <2>2. \A g \in Hashes : /\ job'[g].state = "succeeded" => Good(g)'
                          /\ entry'[g] = "Valid" => Good(g)'
    BY <1>1, <1>2, <1>3, <2>1 DEF SInv, Evidence
  <2>3. \A t \in Targets :
            target'[t].status = "Available" => Good(target[t].creds)'
    BY <1>1 DEF SInv, Evidence, Good, Shown
  <2> QED
    BY <2>2, <2>3 DEF Evidence
<1>7. Named'
  BY <1>1 DEF SInv, Named
<1>8. VolumeKept'
  BY <1>1, <1>4 DEF SInv, VolumeKept, Living, ConstantsAssumption
<1>9. at = "cleanup" => target'[cur].deleting
  BY <1>1 DEF SInv, Local
<1> QED
  BY <1>1, <1>4, <1>5, <1>6, <1>7, <1>8, <1>9, OutsideSafe

LEMMA ProgressSafe ==
  ASSUME ConstantsAssumption, Fixed, OneKind, TInv, SInv, NEW h \in Hashes,
         \/ JobStarts(h) \/ JobBlocked(h) \/ ImageMissing(h) \/ ImageFound(h)
         \/ JobSucceeds(h) \/ JobFails(h) \/ JobCollected(h) \/ VolumeCollected(h)
  PROVE  SInv'
<1>1. ASSUME NEW from, "absent" \notin from, NEW to, to # "succeeded",
             Becomes(h, from, to), Outside, UNCHANGED proven
      PROVE  SInv'
  BY <1>1, BecomesSafe
<1>2. CASE JobStarts(h)
  BY <1>1, <1>2 DEF JobStarts
<1>3. CASE JobBlocked(h)
  BY <1>1, <1>3 DEF JobBlocked
<1>4. CASE ImageMissing(h) \/ ImageFound(h)
  BY <1>1, <1>4 DEF ImageMissing, ImageFound
<1>5. CASE JobFails(h)
  BY <1>1, <1>5 DEF JobFails
<1> QED
  BY <1>2, <1>3, <1>4, <1>5, SuccessSafe, CollectedSafe

-----------------------------------------------------------------------------
(* The whole. *)

LEMMA SafeBegins == ASSUME ConstantsAssumption, Init PROVE SInv
<1>1. /\ ~NoRecord.exists /\ NoRecord.hash = NoHash /\ NoRecord.status = ""
      /\ NoVolume.export = NoHash /\ NoJob.state = "absent"
  BY NoJobType DEF NoRecord, NoVolume
<1>2. /\ \A t \in Targets : target[t] = NoRecord
      /\ \A h \in Hashes : job[h] = NoJob /\ entry[h] = "none" /\ volume[h] = NoVolume
      /\ at = "idle" /\ hash = NoHash /\ outcome = "none"
  BY DEF Init
<1>3. Named /\ Anchored /\ Evidence
  BY <1>1, <1>2 DEF Named, Anchored, Evidence
<1>4. VolumeKept
  BY <1>1, <1>2 DEF VolumeKept, Living
<1>5. Local
  BY <1>2 DEF Local, Early, Confirmed, Validating
<1> QED
  BY <1>3, <1>4, <1>5 DEF SInv

LEMMA SafeStutters == ASSUME SInv, UNCHANGED vars PROVE SInv'
<1>1. UNCHANGED <<target, job, entry, cron, volume, proven, at, cur, spec, hash,
                  updated, outcome>>
  BY DEF vars, objects, worker
<1>2. Named' /\ Anchored' /\ VolumeKept'
  BY <1>1 DEF SInv, Named, Anchored, VolumeKept, Living
<1>3. Evidence'
  BY <1>1 DEF SInv, Evidence, Good, Shown
<1>4. Local'
  BY <1>1 DEF SInv, Local, Good, Shown
<1> QED
  BY <1>2, <1>3, <1>4 DEF SInv

LEMMA SafeNext ==
  ASSUME ConstantsAssumption, Fixed, OneKind, TInv, SInv, [Next]_vars
  PROVE  SInv'
<1>1. CASE WorkerStep
  BY <1>1, FinalizerSafe, ReadSafe, MarkSafe, NothingReleased, VolumeSafe,
     ProcessSafe, StatusesSafe, JobsSafe, VerdictSafe, AnnotateSafe, JobStatusSafe,
     CleanupSafe, RemoveSafe DEF WorkerStep
<1>2. CASE \E t \in Targets : Start(t)
  BY <1>2, StartSafe
<1>3. CASE Cluster
  BY <1>3, UsersSafe, ProgressSafe DEF Cluster
<1> QED
  BY <1>1, <1>2, <1>3, CrashSafe, SafeStutters DEF Next

LEMMA Invariance == Fixed /\ OneKind => (Spec => [](TInv /\ SInv))
<1> SUFFICES ASSUME Fixed, OneKind
             PROVE  Spec => [](TInv /\ SInv)
  OBVIOUS
<1>1. Init => TInv /\ SInv
  BY Begins, SafeBegins, ConstantsAssumption
<1>2. TInv /\ SInv /\ [Next]_vars => TInv' /\ SInv'
  BY NextKeeps, SafeNext, ConstantsAssumption
<1> QED
  BY <1>1, <1>2, PTL DEF Spec

\* Whatever job, entry or crash comes between: while credentials are fixed and
\* shared only among Targets of a kind, no Target is shown as Available by the
\* validation of credentials that are not its own.
THEOREM AvailableValidated == Fixed /\ OneKind => (Spec => []AvailableProven)
<1>1. TInv /\ SInv => AvailableProven
  <2> SUFFICES ASSUME SInv, NEW t \in Targets, target[t].status = "Available"
               PROVE  <<target[t].creds, t \in Reporting>> \in proven
    BY DEF AvailableProven
  <2>0. NoRecord.status = ""
    BY DEF NoRecord
  <2>1. target[t].exists
    BY <2>0 DEF SInv, Named
  <2>2. target[t].creds \in Choices[t] /\ Good(target[t].creds)
    BY <2>1 DEF SInv, Named, Evidence
  <2> QED
    BY <2>2 DEF Good, Shown
<1> QED
  BY <1>1, Invariance, PTL

\* While credentials are fixed, the cleanup of one Target never takes the volume
\* of a hash from a living Target annotated with it.
THEOREM VolumesKept == Fixed /\ OneKind => (Spec => []VolumeKept)
<1>1. TInv /\ SInv => VolumeKept
  BY DEF SInv
<1> QED
  BY <1>1, Invariance, PTL

=============================================================================
