-------------------------- MODULE ScanInstanceSafety --------------------------
(***************************************************************************)
(* The safety of pre-scan and completion through any lag of the caches,    *)
(* any faults and any deletions, for names that are used once; and, for    *)
(* names used any number of times, the end of every pre-scan job with its  *)
(* ScanInstance and the limit of concurrent scans, which only jobs that a  *)
(* stale list does not show exceed.                                        *)
(***************************************************************************)
EXTENDS ScanInstanceTypes, ScanInstanceHistory, FiniteSetTheorems

Gone(n) == si[n].incarnation = 0

Known(r) == r.locations # "unknown"

Unreported == {"new", "blocked", "overdue", "active", "badImage"}

\* What a record of a ScanInstance says, of any age.
Sound(r) ==
    /\ r.deleting => r.finalizer
    /\ Has(r, "PreScan", "Completed") => Known(r)

\* What an older record c says of the newest one, r.
Reflects(c, r) ==
    /\ Known(c) => Known(r) /\ (c.locations = r.locations \/ r.report)
    /\ c.report => r.report
    /\ c.deleting => r.deleting

\* A Completed status has its reason.
Finished(r) == r.status = "Completed" => r.report \/ r.locations = "none"

\* A name without a ScanInstance yet is unknown to everybody.
UnusedNames ==
    /\ \A n \in ScanInstances :
          /\ Gone(n) => si[n] = NoRecord
          /\ created[n] = 0 =>
                /\ Gone(n) /\ siCache[n] = NoRecord
                /\ res[n]["preScan"] = NoObject
                /\ resCache[n]["preScan"] = NoObject
                /\ res[n]["janitor"] = NoObject
                /\ at = "idle" \/ cur # n
    /\ at = "idle" => copy = NoRecord

\* The records the server and the cache hold.
Records ==
    \A n \in ScanInstances :
        \/ Gone(n)
        \/ /\ Sound(si[n]) /\ Finished(si[n])
           /\ Sound(siCache[n]) /\ Reflects(siCache[n], si[n])

\* What the worker knows at a step, with c in hand, r the newest record and old
\* the cached one.
Informed(label, c, r, old) ==
    /\ Sound(c)
    /\ Reflects(c, r)
    /\ label = "preScanCompleted" => Known(r)
    /\ label = "scanPhase" => Has(c, "PreScan", "Completed")
    /\ label = "noVMs" => c.locations = "none"
    /\ label \in {"completed", "completedLocked", "scanCompleted", "janitor"} =>
          c.report
    /\ label \in {"cleanup", "removeFinalizer"} => old.deleting

Working == Gone(cur) \/ Informed(at, copy, si[cur], siCache[cur])

\* What jobs say of their ScanInstance: a pre-scan job reports once, and the
\* janitor comes after the report.
Tell(r, job, cachedJob, janitor) ==
    /\ job.state \in {"reported", "succeeded"} => Known(r)
    /\ cachedJob.state \in {"reported", "succeeded"} => Known(r)
    /\ job.state \in Unreported => ~Known(r) \/ r.report
    /\ janitor # NoObject => r.report

JobsTell ==
    \A n \in ScanInstances :
        \/ Gone(n)
        \/ Tell(si[n], res[n]["preScan"], resCache[n]["preScan"],
                res[n]["janitor"])

\* A pre-scan job that has reported is deleted only after the scan, or by a
\* cleanup that no reconciliation comes back from.
Undone(r, job) == Known(r) /\ ~r.report /\ job = NoObject

LeavingLabels == {"idle", "cleanup", "removeFinalizer"}

Leaving ==
    \A n \in ScanInstances :
        ~Gone(n) /\ Undone(si[n], res[n]["preScan"]) =>
            /\ siCache[n].deleting
            /\ cur = n => at \in LeavingLabels

IInv == TypeOK /\ UnusedNames /\ Records /\ Working /\ JobsTell /\ Leaving

-----------------------------------------------------------------------------
(* Records of different ages. *)

LEMMA ReflectsTransitive ==
  ASSUME NEW a, NEW b, NEW c, Reflects(a, b), Reflects(b, c)
  PROVE  Reflects(a, c)
  BY DEF Reflects, Known

LEMMA NothingKnown ==
  ASSUME NEW r
  PROVE  Sound(NoRecord) /\ Reflects(NoRecord, r) /\ Reflects(r, r)
  BY DEF Sound, Reflects, Known, NoRecord, Has

\* Steps before which the worker needs to know nothing in particular.
Special == {"preScanCompleted", "scanPhase", "noVMs", "completed",
            "completedLocked", "scanCompleted", "janitor", "cleanup",
            "removeFinalizer"}

LEMMA PlainInformed ==
  ASSUME NEW c, NEW r, NEW old, NEW label, label \notin Special, Sound(c),
         Reflects(c, r)
  PROVE  Informed(label, c, r, old)
  BY DEF Informed, Special

-----------------------------------------------------------------------------
(* The effect of a step of the worker. *)

\* A step that writes r, and goes on with c in hand, keeps the invariant if r
\* forgets nothing and c is all the next step has to know.
LEMMA WorkerSafe ==
  ASSUME IInv, TypeOK', at # "idle", NEW label \in Targets,
         NEW c \in Record, NEW r \in Record,
         Goto(label, c), si' = [si EXCEPT ![cur] = r],
         UNCHANGED <<caches, created>>,
         \A n \in ScanInstances \ {cur} : res'[n] = res[n],
         \/ r = NoRecord
         \/ /\ r.incarnation # 0
            /\ Sound(r) /\ Finished(r) /\ Reflects(si[cur], r) /\ ~Gone(cur)
            /\ Informed(label, c, r, siCache[cur])
            /\ Tell(r, res'[cur]["preScan"], resCache[cur]["preScan"],
                    res'[cur]["janitor"])
            /\ Undone(r, res'[cur]["preScan"]) =>
                  /\ siCache[cur].deleting
                  /\ label \in LeavingLabels \cup {"retry"}
  PROVE  IInv'
  <1>1. /\ cur' = cur /\ cur \in ScanInstances
        /\ siCache' = siCache /\ resCache' = resCache /\ created' = created
        /\ si'[cur] = r
        /\ \A n \in ScanInstances : n # cur => si'[n] = si[n] /\ res'[n] = res[n]
    BY DEF IInv, TypeOK, Goto, caches
  <1>2. \/ label \in {"idle", "retry"} /\ at' = "idle" /\ copy' = NoRecord
        \/ label \notin {"idle", "retry"} /\ at' = label /\ copy' = c
    BY DEF Goto
  <1>3. created[cur] # 0
    BY <1>1 DEF IInv, UnusedNames
  <1>0. NoRecord.incarnation = 0
    BY DEF NoRecord
  <1>4. UnusedNames'
    BY <1>0, <1>1, <1>2, <1>3 DEF IInv, UnusedNames, Gone
  <1>5. CASE r = NoRecord
    <2>1. Gone(cur)'
      BY <1>0, <1>1, <1>5 DEF Gone
    <2>2. Records'
      BY <1>1, <2>1 DEF IInv, Records, Gone
    <2>3. JobsTell'
      BY <1>1, <2>1 DEF IInv, JobsTell, Gone
    <2>4. Leaving'
      BY <1>1, <2>1 DEF IInv, Leaving, Gone
    <2> QED
      BY <1>4, <2>1, <2>2, <2>3, <2>4, <1>1 DEF IInv, Working, Gone
  <1>6. CASE r # NoRecord
    <2>1. Records'
      <3>1. Reflects(siCache[cur], r) /\ Sound(siCache[cur])
        BY <1>1, <1>6, ReflectsTransitive DEF IInv, Records
      <3> QED
        BY <1>1, <1>6, <3>1 DEF IInv, Records, Gone
    <2>2. Working'
      <3>1. Informed(at', copy', r, siCache[cur])
        <4>1. Informed("idle", NoRecord, r, siCache[cur])
          BY NothingKnown, PlainInformed DEF Special
        <4> QED
          BY <1>2, <1>6, <4>1
      <3> QED
        BY <1>1, <3>1 DEF Working
    <2>3. JobsTell'
      BY <1>1, <1>6 DEF IInv, JobsTell, Gone
    <2>4. Leaving'
      BY <1>1, <1>2, <1>6 DEF IInv, Leaving, LeavingLabels, Gone
    <2> QED
      BY <1>4, <2>1, <2>2, <2>3, <2>4 DEF IInv
  <1> QED
    BY <1>5, <1>6

\* A step to label may be taken from here without a write.
Open(label) ==
    /\ Gone(cur) \/ Informed(label, copy, si[cur], siCache[cur])
    /\ at \in LeavingLabels => label \in LeavingLabels \cup {"retry"}

LEMMA CurrentFacts ==
  ASSUME IInv
  PROVE  /\ TypeOK /\ cur \in ScanInstances
         /\ si[cur] \in Record /\ copy \in Record /\ siCache[cur] \in Record
         /\ Gone(cur) => si[cur] = NoRecord
         /\ ~Gone(cur) =>
               /\ Sound(copy) /\ Reflects(copy, si[cur])
               /\ Sound(si[cur]) /\ Finished(si[cur])
               /\ Informed(at, copy, si[cur], siCache[cur])
               /\ Tell(si[cur], res[cur]["preScan"], resCache[cur]["preScan"],
                       res[cur]["janitor"])
               /\ Undone(si[cur], res[cur]["preScan"]) =>
                     siCache[cur].deleting /\ at \in LeavingLabels
  BY DEF IInv, TypeOK, UnusedNames, Records, Working, Informed, JobsTell, Leaving

\* Nothing written but, perhaps, objects of other kinds.
LEMMA QuietSafe ==
  ASSUME IInv, TypeOK', at # "idle", NEW label \in Targets, Goto(label, copy),
         UNCHANGED <<si, caches, created>>,
         \A n \in ScanInstances \ {cur} : res'[n] = res[n],
         res'[cur]["preScan"] = res[cur]["preScan"],
         res'[cur]["janitor"] = res[cur]["janitor"],
         Open(label)
  PROVE  IInv'
  <1>1. si' = [si EXCEPT ![cur] = si[cur]]
    BY DEF IInv, TypeOK
  <1>2. CASE Gone(cur)
    BY <1>1, <1>2, CurrentFacts, WorkerSafe
  <1>3. CASE ~Gone(cur)
    <2>1. si[cur].incarnation # 0 /\ Reflects(si[cur], si[cur])
      BY <1>3, NothingKnown DEF Gone
    <2>2. Undone(si[cur], res'[cur]["preScan"]) =>
             /\ siCache[cur].deleting
             /\ label \in LeavingLabels \cup {"retry"}
      BY <1>3, CurrentFacts DEF Open
    <2> QED
      BY <1>1, <1>3, <2>1, <2>2, CurrentFacts, WorkerSafe DEF Open
  <1> QED
    BY <1>2, <1>3

LEMMA MoveSafe ==
  ASSUME IInv, at # "idle", NEW label \in Targets, Move(label), Open(label)
  PROVE  IInv'
  <1>1. TypeOK'
    BY MoveType DEF IInv
  <1>2. /\ Goto(label, copy) /\ UNCHANGED <<si, caches, created>>
        /\ res' = res
    BY DEF Move, server, bounds
  <1> QED
    BY <1>1, <1>2, QuietSafe

LEMMA RetryOpen ==
  ASSUME IInv, NEW label \in {"retry", "idle"}
  PROVE  Open(label) /\ label \in Targets
  BY CurrentFacts, PlainInformed DEF Open, Special, LeavingLabels, Targets, Labels

LEMMA RefusedSafe ==
  ASSUME IInv, at # "idle", Refused
  PROVE  IInv'
  <1>1. TypeOK'
    BY RefusedType DEF IInv
  <1>2. /\ Goto("retry", copy) /\ UNCHANGED <<si, caches, created>>
        /\ res' = res
    BY DEF Refused, server
  <1> QED
    BY <1>1, <1>2, RetryOpen, QuietSafe

\* A record of a ScanInstance that exists, with all it said still said, and its
\* locations, which only the pre-scan container writes, the same.
Extends(r) ==
    /\ r.incarnation # 0
    /\ Sound(r) /\ Finished(r)
    /\ r.locations = si[cur].locations
    /\ si[cur].report => r.report
    /\ si[cur].deleting => r.deleting

LEMMA AcceptedSafe ==
  ASSUME IInv, at # "idle", NEW label \in Targets, NEW r \in Record,
         Accepted(r, label),
         at \in LeavingLabels => label \in LeavingLabels \cup {"retry"},
         r = NoRecord \/ (Extends(r) /\ Informed(label, r, r, siCache[cur]))
  PROVE  IInv'
  <1>1. TypeOK'
    BY AcceptedType DEF IInv
  <1>2. /\ ~Gone(cur) /\ si' = [si EXCEPT ![cur] = r] /\ Goto(label, r)
        /\ UNCHANGED <<caches, created>> /\ res' = res
    BY DEF Accepted, Gone, bounds
  <1>3. CASE r = NoRecord
    BY <1>1, <1>2, <1>3, WorkerSafe
  <1>4. CASE r # NoRecord
    <2>1. Reflects(si[cur], r)
      BY <1>4 DEF Extends, Reflects, Known
    <2>2. Tell(r, res[cur]["preScan"], resCache[cur]["preScan"],
               res[cur]["janitor"])
      BY <1>2, <1>4, CurrentFacts DEF Extends, Tell, Known
    <2>3. Undone(r, res[cur]["preScan"]) =>
             /\ siCache[cur].deleting
             /\ label \in LeavingLabels \cup {"retry"}
      BY <1>2, <1>4, CurrentFacts DEF Extends, Undone, Known
    <2> QED
      BY <1>1, <1>2, <1>4, <2>1, <2>2, <2>3, CurrentFacts, WorkerSafe DEF Extends
  <1> QED
    BY <1>3, <1>4

\* A patch of the status is safe if Completed has its reason.
LEMMA PatchStatusSafe ==
  ASSUME IInv, at \notin LeavingLabels, NEW label \in Targets,
         NEW status \in Statuses, PatchStatus(status, label),
         Gone(cur) \/ status # "Completed" \/ si[cur].report
            \/ si[cur].locations = "none",
         label \in Special => label = "scanCompleted" /\ si[cur].report
  PROVE  IInv'
  <1>0. at # "idle"
    BY DEF LeavingLabels
  <1>1. CASE Refused
    BY <1>0, <1>1, RefusedSafe
  <1>2. CASE Accepted(IF copy.status = status THEN si[cur]
                      ELSE [si[cur] EXCEPT !.status = status], label)
    <2> DEFINE r == IF copy.status = status THEN si[cur]
                    ELSE [si[cur] EXCEPT !.status = status]
    <2>1. ~Gone(cur)
      BY <1>2 DEF Accepted, Gone
    <2>2. r \in Record
      BY CurrentFacts DEF Record
    <2>3. /\ r.incarnation = si[cur].incarnation
          /\ r.locations = si[cur].locations /\ r.report = si[cur].report
          /\ r.deleting = si[cur].deleting /\ r.finalizer = si[cur].finalizer
          /\ r.conditions = si[cur].conditions
          /\ r.status \in {si[cur].status, status}
      BY CurrentFacts DEF Record
    <2> HIDE DEF r
    <2>4. Extends(r)
      BY <2>1, <2>3, CurrentFacts DEF Extends, Gone, Sound, Finished, Has, Known
    <2>5. Informed(label, r, r, siCache[cur])
      <3>1. Reflects(r, r) /\ Sound(r)
        BY <2>4, NothingKnown DEF Extends
      <3>2. CASE label \notin Special
        BY <3>1, <3>2, PlainInformed
      <3>3. CASE label \in Special
        BY <2>1, <2>3, <3>1, <3>3 DEF Informed, Special, Known
      <3> QED
        BY <3>2, <3>3
    <2> QED
      BY <1>0, <1>2, <2>2, <2>4, <2>5, AcceptedSafe DEF r
  <1> QED
    BY <1>1, <1>2 DEF PatchStatus

\* A patch of the conditions is safe if PreScan/Completed has its reason.
LEMMA PatchConditionSafe ==
  ASSUME IInv, at \notin LeavingLabels, NEW label \in Targets,
         NEW phase, NEW status, <<phase, status>> \in Conditions,
         PatchCondition(phase, status, label),
         <<phase, status>> = <<"PreScan", "Completed">> =>
             Gone(cur) \/ Known(si[cur]),
         \/ label \notin Special
         \/ label = "scanPhase" /\ <<phase, status>> = <<"PreScan", "Completed">>
         \/ label = "janitor" /\ (Gone(cur) \/ copy.report)
  PROVE  IInv'
  <1>0. at # "idle"
    BY DEF LeavingLabels
  <1>1. CASE Refused
    BY <1>0, <1>1, RefusedSafe
  <1>2. CASE Has(copy, phase, status) /\ Move(label)
    <2>1. Open(label)
      BY <1>2, CurrentFacts DEF Open, Informed, Special, Has
    <2> QED
      BY <1>0, <1>2, <2>1, MoveSafe
  <1>3. CASE Accepted([si[cur] EXCEPT !.conditions =
                          copy.conditions \cup {<<phase, status>>}], label)
    <2> DEFINE r == [si[cur] EXCEPT !.conditions =
                        copy.conditions \cup {<<phase, status>>}]
    <2>1. ~Gone(cur)
      BY <1>3 DEF Accepted, Gone
    <2>2. r \in Record
      <3>1. copy.conditions \cup {<<phase, status>>} \in SUBSET Conditions
        BY CurrentFacts DEF Record
      <3> QED
        BY <3>1, CurrentFacts DEF Record
    <2>3. /\ r.incarnation = si[cur].incarnation
          /\ r.locations = si[cur].locations /\ r.report = si[cur].report
          /\ r.deleting = si[cur].deleting /\ r.finalizer = si[cur].finalizer
          /\ r.conditions = copy.conditions \cup {<<phase, status>>}
          /\ r.status = si[cur].status
      BY CurrentFacts DEF Record
    <2> HIDE DEF r
    <2>4. Has(r, "PreScan", "Completed") => Known(r)
      <3>1. CASE Has(copy, "PreScan", "Completed")
        BY <2>1, <2>3, <3>1, CurrentFacts DEF Sound, Reflects, Known
      <3>2. CASE <<phase, status>> = <<"PreScan", "Completed">>
        BY <2>1, <2>3, <3>2 DEF Known
      <3> QED
        BY <2>3, <3>1, <3>2 DEF Has
    <2>5. Extends(r)
      BY <2>1, <2>3, <2>4, CurrentFacts DEF Extends, Gone, Sound, Finished
    <2>6. Informed(label, r, r, siCache[cur])
      <3>1. Reflects(r, r) /\ Sound(r)
        BY <2>5, NothingKnown DEF Extends
      <3>2. CASE label \notin Special
        BY <3>1, <3>2, PlainInformed
      <3>3. CASE label \in Special
        BY <2>1, <2>3, <3>1, <3>3, CurrentFacts DEF Informed, Reflects, Has
      <3> QED
        BY <3>2, <3>3
    <2> QED
      BY <1>0, <1>3, <2>2, <2>5, <2>6, AcceptedSafe DEF r
  <1> QED
    BY <1>1, <1>2, <1>3 DEF PatchCondition

\* The creation of an object is safe: of a pre-scan job, because it is missing,
\* and of a janitor, if there is a report.
LEMMA CreateSafe ==
  ASSUME IInv, at \notin LeavingLabels, NEW kind \in Kinds,
         NEW state \in {"new", "starting", "exists"},
         NEW accepted \in Targets, NEW exists \in Targets,
         NEW rejected \in Targets,
         accepted \notin Special, exists \notin Special, rejected \notin Special,
         Create(kind, state, accepted, exists, rejected),
         kind = "janitor" => Gone(cur) \/ copy.report
  PROVE  IInv'
  <1>0. at # "idle"
    BY DEF LeavingLabels
  <1>1. TypeOK'
    <2>1. [state |-> state, owner |-> 0] \in Object
      BY DEF Object, JobStates
    <2> QED
      BY <2>1, CreateType DEF IInv
  <1>2. ASSUME NEW label \in Targets, label \notin Special PROVE Open(label)
    BY <1>2, CurrentFacts, PlainInformed DEF Open
  <1>3. CASE Move(exists)
    BY <1>0, <1>2, <1>3, MoveSafe
  <1>4. CASE Fault /\ Goto(rejected, copy) /\ UNCHANGED <<server, caches, created>>
    BY <1>0, <1>1, <1>2, <1>4, QuietSafe DEF server
  <1>5. CASE /\ res[cur][kind] = NoObject
             /\ res' = [res EXCEPT ![cur][kind] =
                           [state |-> state,
                            owner |-> IF kind \in Owned THEN copy.incarnation ELSE 0]]
             /\ Goto(accepted, copy)
             /\ UNCHANGED <<si, caches, bounds>>
    <2> DEFINE o == [state |-> state,
                     owner |-> IF kind \in Owned THEN copy.incarnation ELSE 0]
    <2>1. /\ \A n \in ScanInstances \ {cur} : res'[n] = res[n]
          /\ res'[cur][kind] = o
          /\ \A k \in Kinds \ {kind} : res'[cur][k] = res[cur][k]
          /\ created' = created
      BY <1>5, CurrentFacts DEF TypeOK, bounds
    <2>2. o.state = state /\ o # NoObject
      BY DEF NoObject
    <2> HIDE DEF o
    <2>3. {"preScan", "janitor"} \subseteq Kinds
      BY DEF Kinds, Jobs
    <2>4. CASE kind \notin {"preScan", "janitor"}
      BY <1>0, <1>1, <1>2, <1>5, <2>1, <2>3, <2>4, QuietSafe
    <2>5. si' = [si EXCEPT ![cur] = si[cur]] /\ caches' = caches
      BY <1>5, CurrentFacts DEF TypeOK, caches
    <2>6. CASE Gone(cur)
      BY <1>0, <1>1, <1>5, <2>1, <2>5, <2>6, CurrentFacts, WorkerSafe
    <2>7. CASE ~Gone(cur) /\ kind \in {"preScan", "janitor"}
      <3>1. si[cur].incarnation # 0 /\ Reflects(si[cur], si[cur])
        BY <2>7, NothingKnown DEF Gone
      <3>2. Informed(accepted, copy, si[cur], siCache[cur])
        BY <1>2, <2>7 DEF Open
      <3>3. ~Undone(si[cur], res[cur]["preScan"])
        BY <2>7, CurrentFacts
      <3>4. CASE kind = "preScan"
        <4>1. /\ res'[cur]["preScan"].state = state
              /\ res'[cur]["preScan"] # NoObject
              /\ res'[cur]["janitor"] = res[cur]["janitor"]
          BY <2>1, <2>2, <2>3, <3>4
        <4>2. ~Known(si[cur]) \/ si[cur].report
          BY <1>5, <3>3, <3>4 DEF Undone
        <4>3. Tell(si[cur], res'[cur]["preScan"], resCache[cur]["preScan"],
                   res'[cur]["janitor"])
          BY <2>7, <4>1, <4>2, CurrentFacts DEF Tell
        <4> QED
          BY <1>0, <1>1, <1>5, <2>1, <2>5, <2>7, <3>1, <3>2, <4>1, <4>3,
             CurrentFacts, WorkerSafe DEF Undone
      <3>5. CASE kind = "janitor"
        <4>1. res'[cur]["preScan"] = res[cur]["preScan"]
          BY <2>1, <2>3, <3>5
        <4>2. si[cur].report
          BY <2>7, <3>5, CurrentFacts DEF Reflects
        <4>3. Tell(si[cur], res'[cur]["preScan"], resCache[cur]["preScan"],
                   res'[cur]["janitor"])
          BY <2>7, <4>1, <4>2, CurrentFacts DEF Tell
        <4> QED
          BY <1>0, <1>1, <1>5, <2>1, <2>5, <2>7, <3>1, <3>2, <3>3, <4>1, <4>3,
             CurrentFacts, WorkerSafe
      <3> QED
        BY <2>7, <3>4, <3>5
    <2> QED
      BY <2>4, <2>6, <2>7
  <1> QED
    BY <1>3, <1>4, <1>5 DEF Create

-----------------------------------------------------------------------------
(* Every step of the worker. *)

LEMMA StartSafe ==
  ASSUME IInv, NEW n \in ScanInstances, Start(n)
  PROVE  IInv'
  <1>1. TypeOK'
    BY StartType DEF IInv
  <1>2. /\ at = "idle" /\ cur' = n /\ at' = FirstStep(siCache[n])
        /\ copy' = IF at' = "idle" THEN NoRecord ELSE siCache[n]
        /\ si' = si /\ siCache' = siCache /\ res' = res /\ resCache' = resCache
        /\ created' = created
    BY DEF Start, At, server, caches, bounds
  <1>3. created[n] = 0 => at' = "idle"
    <2>1. NoRecord.incarnation = 0
      BY DEF NoRecord
    <2>2. created[n] = 0 => siCache[n].incarnation = 0
      BY <2>1 DEF IInv, UnusedNames
    <2> QED
      BY <1>2, <2>2 DEF FirstStep
  <1>4. UnusedNames'
    BY <1>2, <1>3 DEF IInv, UnusedNames, Gone
  <1>5. Records' /\ JobsTell'
    BY <1>2 DEF IInv, Records, JobsTell, Gone
  <1>6. Working'
    <2>1. CASE Gone(n)
      BY <1>2, <2>1 DEF Working, Gone
    <2>2. CASE ~Gone(n) /\ at' = "idle"
      <3>1. Informed("idle", NoRecord, si[n], siCache[n])
        BY NothingKnown, PlainInformed DEF Special
      <3> QED
        BY <1>2, <2>2, <3>1 DEF Working
    <2>3. CASE ~Gone(n) /\ at' # "idle"
      <3>1. Sound(siCache[n]) /\ Reflects(siCache[n], si[n])
        BY <2>3 DEF IInv, Records
      <3>2. Informed(at', siCache[n], si[n], siCache[n])
        BY <1>2, <3>1 DEF Informed, FirstStep, AfterFinalizer, Route
      <3> QED
        BY <1>2, <2>3, <3>2 DEF Working
    <2> QED
      BY <2>1, <2>2, <2>3
  <1>7. Leaving'
    <2>1. siCache[n].deleting /\ ~Gone(n) => at' \in LeavingLabels
      BY <1>2 DEF IInv, Records, Sound, FirstStep, LeavingLabels
    <2> QED
      BY <1>2, <2>1 DEF IInv, Leaving, Gone
  <1> QED
    BY <1>1, <1>4, <1>5, <1>6, <1>7 DEF IInv

LEMMA AddFinalizerSafe ==
  ASSUME IInv, AddFinalizer
  PROVE  IInv'
  <1> DEFINE r == [si[cur] EXCEPT !.finalizer = TRUE]
  <1>1. at = "addFinalizer" /\ at # "idle" /\ at \notin LeavingLabels
    BY DEF AddFinalizer, At, LeavingLabels
  <1>2. CASE Refused
    BY <1>1, <1>2, RefusedSafe
  <1>3. CASE Move("retry")
    BY <1>1, <1>3, RetryOpen, MoveSafe
  <1>4. CASE Accepted(r, AfterFinalizer(r))
    <2>1. ~Gone(cur) /\ r \in Record
      BY <1>4, CurrentFacts DEF Accepted, Gone, Record
    <2>2. /\ r.incarnation = si[cur].incarnation
          /\ r.locations = si[cur].locations /\ r.report = si[cur].report
          /\ r.deleting = si[cur].deleting /\ r.finalizer = TRUE
          /\ r.conditions = si[cur].conditions /\ r.status = si[cur].status
      BY CurrentFacts DEF Record
    <2> HIDE DEF r
    <2>3. Extends(r)
      BY <2>1, <2>2, CurrentFacts DEF Extends, Gone, Sound, Finished, Has, Known
    <2>4. Informed(AfterFinalizer(r), r, r, siCache[cur])
      BY <2>3, NothingKnown DEF Extends, Informed, AfterFinalizer, Route
    <2>5. AfterFinalizer(r) \in Targets
      BY DEF AfterFinalizer, Route, Targets, Labels
    <2> QED
      BY <1>1, <1>4, <2>1, <2>3, <2>4, <2>5, AcceptedSafe DEF r
  <1> QED
    BY <1>2, <1>3, <1>4 DEF AddFinalizer, AtVersion

LEMMA CleanupSafe ==
  ASSUME IInv, Cleanup
  PROVE  IInv'
  <1>1. at = "cleanup" /\ at # "idle"
    BY DEF Cleanup, At
  <1>2. TypeOK'
    BY FinalizerType DEF IInv
  <1>a. PICK last \in 0..Len(CleanupOrder) :
           /\ res' = Deleted(cur, {k \in {CleanupOrder[i] : i \in 1..last} :
                                      Cached(k) # "absent"})
           /\ \/ Goto("removeFinalizer", copy) /\ UNCHANGED bounds
              \/ Goto("retry", copy) /\ UNCHANGED created
    BY DEF Cleanup
  <1> DEFINE kinds == {k \in {CleanupOrder[i] : i \in 1..last} :
                          Cached(k) # "absent"}
  <1>b. "janitor" \notin kinds
    <2>1. CleanupOrder \in Seq(Kinds \ {"janitor"})
      BY DEF CleanupOrder, Kinds, Jobs
    <2>2. Len(CleanupOrder) \in Nat
      BY DEF CleanupOrder
    <2>3. \A i \in 1..last : CleanupOrder[i] # "janitor"
      <3>1. last <= Len(CleanupOrder) /\ last \in Nat
        BY <1>a, <2>2
      <3> QED
        BY <2>1, <2>2, <3>1
    <2> QED
      BY <2>3
  <1>c. /\ res' = Deleted(cur, kinds)
        /\ si' = si /\ created' = created /\ UNCHANGED caches
    BY <1>a DEF Cleanup, bounds
  <1> HIDE DEF kinds
  <1>3. PICK label \in {"removeFinalizer", "retry"} : Goto(label, copy)
    BY <1>a
  <1>4. label \in Targets /\ label \in LeavingLabels \cup {"retry"}
    BY DEF Targets, Labels, LeavingLabels
  <1>5. /\ \A n \in ScanInstances \ {cur} : res'[n] = res[n]
        /\ res'[cur]["janitor"] = res[cur]["janitor"]
        /\ res'[cur]["preScan"] \in {NoObject, res[cur]["preScan"]}
    <2>1. {"preScan", "janitor"} \subseteq Kinds
      BY DEF Kinds, Jobs
    <2>2. res' = [res EXCEPT ![cur] =
                     [k \in Kinds |-> IF k \in kinds THEN NoObject ELSE res[cur][k]]]
      BY <1>c DEF Deleted
    <2> QED
      BY <1>b, <1>c, <2>1, <2>2, CurrentFacts DEF TypeOK
  <1>6. si' = [si EXCEPT ![cur] = si[cur]] /\ si[cur] \in Record /\ copy \in Record
    BY <1>c, CurrentFacts DEF TypeOK
  <1>7. CASE Gone(cur)
    BY <1>1, <1>2, <1>3, <1>c, <1>4, <1>5, <1>6, <1>7, CurrentFacts, WorkerSafe
  <1>8. CASE ~Gone(cur)
    <2>1. siCache[cur].deleting
      BY <1>1, <1>8, CurrentFacts DEF Informed
    <2>2. Informed(label, copy, si[cur], siCache[cur])
      BY <1>8, <2>1, CurrentFacts DEF Informed
    <2>3. si[cur].incarnation # 0 /\ Reflects(si[cur], si[cur])
      BY <1>8, NothingKnown DEF Gone
    <2>4. Tell(si[cur], res'[cur]["preScan"], resCache[cur]["preScan"],
               res'[cur]["janitor"])
      BY <1>5, <1>8, CurrentFacts DEF Tell, NoObject, Unreported
    <2> QED
      BY <1>1, <1>2, <1>3, <1>c, <1>4, <1>5, <1>6, <1>8, <2>1, <2>2, <2>3, <2>4,
         CurrentFacts, WorkerSafe
  <1> QED
    BY <1>7, <1>8

LEMMA RemoveFinalizerSafe ==
  ASSUME IInv, RemoveFinalizer
  PROVE  IInv'
  <1>1. at = "removeFinalizer" /\ at # "idle"
    BY DEF RemoveFinalizer, At
  <1>2. \/ Refused \/ Move("retry") \/ Move("idle")
        \/ Accepted(IF si[cur].deleting THEN NoRecord
                    ELSE [si[cur] EXCEPT !.finalizer = FALSE], "idle")
    BY DEF RemoveFinalizer, AtVersion
  <1>3. CASE Refused
    BY <1>1, <1>3, RefusedSafe
  <1>4. CASE Move("retry") \/ Move("idle")
    BY <1>1, <1>4, RetryOpen, MoveSafe
  <1>5. CASE Accepted(IF si[cur].deleting THEN NoRecord
                      ELSE [si[cur] EXCEPT !.finalizer = FALSE], "idle")
    <2>1. ~Gone(cur)
      BY <1>5 DEF Accepted, Gone
    <2>2. si[cur].deleting
      BY <1>1, <2>1, CurrentFacts DEF IInv, Records, Informed, Reflects
    <2>3. Accepted(NoRecord, "idle")
      BY <1>5, <2>2
    <2>4. "idle" \in Targets /\ "idle" \in LeavingLabels
      BY DEF Targets, Labels, LeavingLabels
    <2> QED
      BY <1>1, <2>3, <2>4, NoRecordType, AcceptedSafe
  <1> QED
    BY <1>2, <1>3, <1>4, <1>5

LEMMA MarkQueuedSafe ==
  ASSUME IInv, MarkQueued
  PROVE  IInv'
  <1> DEFINE r == [si[cur] EXCEPT !.status = "Queued"]
  <1>1. at = "queued" /\ at # "idle" /\ at \notin LeavingLabels
    BY DEF MarkQueued, At, LeavingLabels
  <1>2. CASE Refused
    BY <1>1, <1>2, RefusedSafe
  <1>3. CASE Accepted(r, Route(r))
    <2>0. ~Gone(cur)
      BY <1>3 DEF Accepted, Gone
    <2>1. r \in Record
      BY CurrentFacts DEF Record, Statuses
    <2>2. /\ r.incarnation = si[cur].incarnation
          /\ r.locations = si[cur].locations /\ r.report = si[cur].report
          /\ r.deleting = si[cur].deleting /\ r.finalizer = si[cur].finalizer
          /\ r.conditions = si[cur].conditions /\ r.status = "Queued"
      BY CurrentFacts DEF Record
    <2> HIDE DEF r
    <2>3. Extends(r)
      BY <2>0, <2>2, CurrentFacts DEF Extends, Gone, Sound, Finished, Has, Known
    <2>4. Informed(Route(r), r, r, siCache[cur])
      BY <2>3, NothingKnown DEF Extends, Informed, Route
    <2>5. Route(r) \in Targets
      BY DEF Route, Targets, Labels
    <2> QED
      BY <1>1, <1>3, <2>1, <2>3, <2>4, <2>5, AcceptedSafe DEF r
  <1> QED
    BY <1>2, <1>3 DEF MarkQueued

\* Steps that only decide where to go.
LEMMA DecisionSafe ==
  ASSUME IInv,
         \/ ReadPreScanJob \/ ReconcileScanPhase
         \/ RefetchRedisDeployment \/ RefetchRedisService
  PROVE  IInv'
  <1>1. ASSUME NEW label \in Targets, Move(label), at # "idle",
               at \notin LeavingLabels, Gone(cur) \/ label \notin Special
        PROVE  IInv'
    <2>1. Open(label)
      BY <1>1, CurrentFacts, PlainInformed DEF Open
    <2> QED
      BY <1>1, <2>1, MoveSafe
  <1>2. CASE ReadPreScanJob
    <2>1. PICK label : Move(label) /\ label \in Targets /\
             /\ label \notin Special \/ label = "preScanCompleted"
             /\ label = "preScanCompleted" => Cached("preScan") = "succeeded"
      BY <1>2 DEF ReadPreScanJob, JobStatusWithPodCheck, JobStatus, Special,
                  Targets, Labels
    <2>2. at # "idle" /\ at \notin LeavingLabels
      BY <1>2 DEF ReadPreScanJob, At, LeavingLabels
    <2>3. CASE Gone(cur) \/ label \notin Special
      BY <1>1, <2>1, <2>2, <2>3
    <2>4. CASE ~Gone(cur) /\ label = "preScanCompleted"
      <3>1. Known(si[cur])
        BY <2>1, <2>4, CurrentFacts DEF Tell, Cached
      <3>2. Open(label)
        BY <2>2, <2>4, <3>1, CurrentFacts DEF Open, Informed
      <3> QED
        BY <2>1, <2>2, <3>2, MoveSafe
    <2> QED
      BY <2>1, <2>3, <2>4
  <1>3. CASE ReconcileScanPhase
    <2>1. PICK label : Move(label) /\ label \in Targets /\
             /\ label \notin Special \/ label \in {"noVMs", "completed"}
             /\ label = "noVMs" => copy.locations # "some"
             /\ label = "completed" => copy.report
      BY <1>3 DEF ReconcileScanPhase, ScanJobRoute, BeforeScan, RedisRoute,
                  Special, Targets, Labels
    <2>2. at = "scanPhase" /\ at # "idle" /\ at \notin LeavingLabels
      BY <1>3 DEF ReconcileScanPhase, At, LeavingLabels
    <2>3. CASE Gone(cur) \/ label \notin Special
      BY <1>1, <2>1, <2>2, <2>3
    <2>4. CASE ~Gone(cur) /\ label \in {"noVMs", "completed"}
      <3>1. Known(copy)
        BY <2>2, <2>4, CurrentFacts DEF Informed, Sound
      <3>2. label = "noVMs" => copy.locations = "none"
        BY <2>1, <3>1, CurrentFacts DEF Known, Record
      <3>3. Open(label)
        BY <2>1, <2>2, <2>4, <3>2, CurrentFacts DEF Open, Informed
      <3> QED
        BY <2>1, <2>2, <3>3, MoveSafe
    <2> QED
      BY <2>1, <2>3, <2>4
  <1>4. CASE RefetchRedisDeployment
    <2>1. PICK label \in {"serviceReady", "service", "redisFailed"} : Move(label)
      BY <1>4 DEF RefetchRedisDeployment, RedisFound
    <2> QED
      BY <1>1, <1>4, <2>1 DEF RefetchRedisDeployment, At, LeavingLabels, Special,
                              Targets, Labels
  <1>5. CASE RefetchRedisService
    <2>1. PICK label \in {"redisReady", "idle", "redisFailed"} : Move(label)
      BY <1>5 DEF RefetchRedisService, ServiceFound
    <2> QED
      BY <1>1, <1>5, <2>1 DEF RefetchRedisService, LeavingLabels, Special,
                              Targets, Labels
  <1> QED
    BY <1>2, <1>3, <1>4, <1>5

\* Steps that patch the status.
LEMMA StatusSafe ==
  ASSUME IInv,
         \/ MarkPreScanInProgress \/ MarkPreScanRunning \/ MarkFailed
         \/ MarkNoVMs \/ MarkRedisGaveUp \/ MarkScanRunning \/ MarkCompleted
  PROVE  IInv'
  <1>1. ASSUME NEW label \in Targets, at \notin LeavingLabels,
               label \notin Special, Move(label)
        PROVE  IInv'
    <2>1. Open(label) /\ at # "idle"
      BY <1>1, CurrentFacts, PlainInformed DEF Open, LeavingLabels
    <2> QED
      BY <1>1, <2>1, MoveSafe
  <1>2. CASE MarkPreScanInProgress
    BY <1>2, PatchStatusSafe DEF MarkPreScanInProgress, At, LeavingLabels, Special,
                                 Targets, Labels, Statuses
  <1>3. CASE MarkPreScanRunning
    BY <1>1, <1>3, PatchStatusSafe DEF MarkPreScanRunning, LeavingLabels, Special,
                                       Targets, Labels, Statuses
  <1>4. CASE MarkFailed
    BY <1>4, PatchStatusSafe DEF MarkFailed, LeavingLabels, Special, Targets,
                                 Labels, Statuses
  <1>5. CASE MarkNoVMs
    <2>1. at = "noVMs"
      BY <1>5 DEF MarkNoVMs, At
    <2>2. Gone(cur) \/ si[cur].report \/ si[cur].locations = "none"
      BY <2>1, CurrentFacts DEF Informed, Reflects, Known
    <2> QED
      BY <1>5, <2>1, <2>2, PatchStatusSafe DEF MarkNoVMs, LeavingLabels, Special,
                                               Targets, Labels, Statuses
  <1>6. CASE MarkRedisGaveUp
    BY <1>6, PatchStatusSafe DEF MarkRedisGaveUp, At, LeavingLabels, Special,
                                 Targets, Labels, Statuses
  <1>7. CASE MarkScanRunning
    BY <1>1, <1>7, PatchStatusSafe DEF MarkScanRunning, LeavingLabels, Special,
                                       Targets, Labels, Statuses
  <1>8. CASE MarkCompleted
    <2>1. at \in {"completed", "completedLocked"} /\ at \notin LeavingLabels
      BY <1>8 DEF MarkCompleted, At, LeavingLabels
    <2>2. PatchStatus("Completed", "scanCompleted") \/ Move("retry")
      BY <1>8 DEF MarkCompleted, AtVersion
    <2>3. CASE Move("retry")
      BY <1>1, <2>1, <2>3 DEF Special, Targets
    <2>4. CASE Gone(cur)
      <3>1. Refused \/ Move("retry")
        BY <2>2, <2>4 DEF PatchStatus, Accepted, Gone
      <3> QED
        BY <2>1, <2>3, <3>1, RefusedSafe DEF LeavingLabels
    <2>5. CASE ~Gone(cur) /\ PatchStatus("Completed", "scanCompleted")
      <3>1. si[cur].report
        BY <2>1, <2>5, CurrentFacts DEF Informed, Reflects
      <3> QED
        BY <2>1, <2>5, <3>1, PatchStatusSafe DEF Special, Targets, Labels, Statuses
    <2> QED
      BY <2>2, <2>3, <2>4, <2>5
  <1> QED
    BY <1>2, <1>3, <1>4, <1>5, <1>6, <1>7, <1>8

\* Steps that add a condition.
LEMMA ConditionSafe ==
  ASSUME IInv,
         \/ MarkPreScanStarted \/ MarkPreScanRejected \/ MarkPreScanCompleted
         \/ MarkPreScanFailed \/ MarkRedisStarted \/ MarkRedisReady
         \/ MarkRedisFailed \/ MarkScanRejected \/ MarkScanStarted
         \/ MarkScanFailed \/ MarkScanCompleted
  PROVE  IInv'
  <1>1. CASE MarkPreScanCompleted
    <2>1. at = "preScanCompleted"
      BY <1>1 DEF MarkPreScanCompleted, At
    <2>2. Gone(cur) \/ Known(si[cur])
      BY <2>1, CurrentFacts DEF Informed
    <2> QED
      BY <1>1, <2>1, <2>2, PatchConditionSafe
      DEF MarkPreScanCompleted, LeavingLabels, Conditions, Targets, Labels
  <1>2. CASE MarkScanCompleted
    <2>1. at = "scanCompleted"
      BY <1>2 DEF MarkScanCompleted, At
    <2>2. Gone(cur) \/ copy.report
      BY <2>1, CurrentFacts DEF Informed
    <2> QED
      BY <1>2, <2>1, <2>2, PatchConditionSafe
      DEF MarkScanCompleted, LeavingLabels, Conditions, Targets, Labels
  <1>3. ASSUME NEW label \in {"preScanInProgress", "failedRetry", "failed",
                              "redis", "retry", "idle"},
               at \notin LeavingLabels, Move(label)
        PROVE  IInv'
    <2>1. Open(label) /\ at # "idle" /\ label \in Targets
      BY <1>3, CurrentFacts, PlainInformed DEF Open, LeavingLabels, Special,
                                               Targets, Labels
    <2> QED
      BY <1>3, <2>1, MoveSafe
  <1>4. ASSUME NEW label \in {"preScanInProgress", "failedRetry", "failed",
                              "redis", "retry", "idle"},
               NEW phase \in {"PreScan", "RedisDeployment", "Scanning"},
               NEW status \in {"InProgress", "Ready", "Failed"},
               at \notin LeavingLabels, PatchCondition(phase, status, label)
        PROVE  IInv'
    BY <1>4, PatchConditionSafe DEF Conditions, Special, Targets, Labels
  <1>5. CASE MarkPreScanStarted \/ MarkPreScanRejected
    BY <1>4, <1>5 DEF MarkPreScanStarted, MarkPreScanRejected, At, LeavingLabels
  <1>6. CASE MarkPreScanFailed
    BY <1>3, <1>4, <1>6 DEF MarkPreScanFailed, At, LeavingLabels
  <1>7. CASE MarkRedisStarted \/ MarkRedisFailed
    BY <1>4, <1>7 DEF MarkRedisStarted, MarkRedisFailed, At, LeavingLabels
  <1>8. CASE MarkRedisReady
    BY <1>3, <1>4, <1>8 DEF MarkRedisReady, At, LeavingLabels
  <1>9. CASE MarkScanRejected \/ MarkScanStarted
    BY <1>4, <1>9 DEF MarkScanRejected, MarkScanStarted, At, LeavingLabels
  <1>10. CASE MarkScanFailed
    BY <1>3, <1>4, <1>10 DEF MarkScanFailed, At, LeavingLabels
  <1> QED
    BY <1>1, <1>2, <1>5, <1>6, <1>7, <1>8, <1>9, <1>10

\* Steps that create an object.
LEMMA CreationSafe ==
  ASSUME IInv,
         \/ CreatePreScanJob \/ CreateRedisDeployment \/ CreateRedisService
         \/ CreateScanConfigMap \/ CreateScanSecret \/ CreateScanJob
         \/ CreateJanitorJob
  PROVE  IInv'
  <1>0. Kinds = {"preScan", "scan", "janitor", "redis", "service", "configMap",
                 "secret"}
    BY DEF Kinds, Jobs
  <1> DEFINE Next1 == {"idle", "preScanRejected", "redisExists", "serviceExists",
                       "serviceReadyExists", "service", "serviceReady",
                       "redisReady", "redisFailed", "secret", "scanJob",
                       "scanStarted", "scanRejected"}
  <1>1. \A label \in Next1 : label \in Targets /\ label \notin Special
    BY DEF Targets, Labels, Special
  <1> HIDE DEF Next1
  <1>2. ASSUME NEW label \in Next1, at \notin LeavingLabels, Move(label)
        PROVE  IInv'
    <2>1. Open(label) /\ at # "idle"
      BY <1>1, <1>2, CurrentFacts, PlainInformed DEF Open, LeavingLabels
    <2> QED
      BY <1>1, <1>2, <2>1, MoveSafe
  <1>3. CASE CreatePreScanJob
    BY <1>0, <1>1, <1>3, CreateSafe DEF CreatePreScanJob, At, LeavingLabels, Next1
  <1>4. CASE CreateRedisDeployment
    <2>1. RedisFound \in Next1
      BY DEF RedisFound, Next1
    <2> QED
      BY <1>0, <1>1, <1>2, <1>4, <2>1, CreateSafe
      DEF CreateRedisDeployment, At, LeavingLabels, Next1
  <1>5. CASE CreateRedisService
    <2>1. ServiceFound(at) \in Next1
      BY DEF ServiceFound, Next1
    <2> QED
      BY <1>0, <1>1, <1>2, <1>5, <2>1, CreateSafe
      DEF CreateRedisService, LeavingLabels, Next1
  <1>6. CASE CreateScanConfigMap
    BY <1>0, <1>1, <1>6, CreateSafe DEF CreateScanConfigMap, At, LeavingLabels, Next1
  <1>7. CASE CreateScanSecret
    BY <1>0, <1>1, <1>7, CreateSafe DEF CreateScanSecret, At, LeavingLabels, Next1
  <1>8. CASE CreateScanJob
    BY <1>0, <1>1, <1>2, <1>8, CreateSafe
    DEF CreateScanJob, At, LeavingLabels, Next1
  <1>9. CASE CreateJanitorJob
    <2>1. at = "janitor"
      BY <1>9 DEF CreateJanitorJob, At
    <2>2. Gone(cur) \/ copy.report
      BY <2>1, CurrentFacts DEF Informed
    <2> QED
      BY <1>0, <1>1, <1>2, <1>9, <2>1, <2>2, CreateSafe
      DEF CreateJanitorJob, LeavingLabels, Next1
  <1> QED
    BY <1>3, <1>4, <1>5, <1>6, <1>7, <1>8, <1>9

LEMMA ReportSafe ==
  ASSUME IInv, UpdateReport
  PROVE  IInv'
  <1> DEFINE r == [si[cur] EXCEPT !.report = TRUE]
  <1>1. at = "report" /\ at # "idle" /\ at \notin LeavingLabels
    BY DEF UpdateReport, At, LeavingLabels
  <1>2. CASE Refused
    BY <1>1, <1>2, RefusedSafe
  <1>3. CASE Move("retry")
    BY <1>1, <1>3, RetryOpen, MoveSafe
  <1>4. CASE Accepted(r, "completedLocked")
    <2>1. ~Gone(cur)
      BY <1>4 DEF Accepted, Gone
    <2>2. r \in Record
      BY CurrentFacts DEF Record
    <2>3. /\ r.incarnation = si[cur].incarnation
          /\ r.locations = si[cur].locations /\ r.report = TRUE
          /\ r.deleting = si[cur].deleting /\ r.finalizer = si[cur].finalizer
          /\ r.conditions = si[cur].conditions /\ r.status = si[cur].status
      BY CurrentFacts DEF Record
    <2> HIDE DEF r
    <2>4. Extends(r)
      BY <2>1, <2>3, CurrentFacts DEF Extends, Gone, Sound, Finished, Has, Known
    <2>5. Informed("completedLocked", r, r, siCache[cur])
      BY <2>3, <2>4, NothingKnown DEF Extends, Informed
    <2>6. "completedLocked" \in Targets
      BY DEF Targets, Labels
    <2> QED
      BY <1>1, <1>4, <2>2, <2>4, <2>5, <2>6, AcceptedSafe DEF r
  <1> QED
    BY <1>2, <1>3, <1>4 DEF UpdateReport, AtVersion

LEMMA WorkerStepSafe ==
  ASSUME IInv, WorkerStep
  PROVE  IInv'
  BY AddFinalizerSafe, CleanupSafe, RemoveFinalizerSafe, MarkQueuedSafe,
     DecisionSafe, StatusSafe, ConditionSafe, CreationSafe, ReportSafe
  DEF WorkerStep

-----------------------------------------------------------------------------
(* Every step of the informers, of the cluster and of the users. *)

LEMMA DeliverScanInstancesSafe ==
  ASSUME IInv, DeliverScanInstances
  PROVE  IInv'
  <1>1. TypeOK'
    BY ManagerType DEF IInv
  <1>2. /\ siCache' = si /\ si' = si /\ res' = res /\ resCache' = resCache
        /\ at' = at /\ cur' = cur /\ copy' = copy /\ created' = created
    BY DEF DeliverScanInstances, server, worker, bounds
  <1>3. UnusedNames'
    BY <1>2 DEF IInv, UnusedNames, Gone
  <1>4. Records'
    BY <1>2, NothingKnown DEF IInv, Records, Gone
  <1>5. Working'
    <2>1. ~Gone(cur) => Reflects(siCache[cur], si[cur])
      BY CurrentFacts DEF IInv, Records
    <2> QED
      BY <1>2, <2>1, CurrentFacts DEF Working, Gone, Informed, Reflects
  <1>6. JobsTell'
    BY <1>2 DEF IInv, JobsTell, Gone
  <1>7. Leaving'
    BY <1>2 DEF IInv, Leaving, Records, Reflects, Gone
  <1> QED
    BY <1>1, <1>3, <1>4, <1>5, <1>6, <1>7 DEF IInv

LEMMA DeliverSafe ==
  ASSUME IInv, NEW i \in Informers, Deliver(i)
  PROVE  IInv'
  <1>1. TypeOK'
    BY ManagerType DEF IInv
  <1>2. /\ siCache' = siCache /\ si' = si /\ res' = res
        /\ at' = at /\ cur' = cur /\ copy' = copy /\ created' = created
    BY DEF Deliver, server, worker, bounds
  <1>3. \A n \in ScanInstances :
           resCache'[n]["preScan"] \in {res[n]["preScan"], resCache[n]["preScan"]}
    <2>1. "preScan" \in Kinds
      BY DEF Kinds, Jobs
    <2> QED
      BY <2>1 DEF Deliver
  <1>4. UnusedNames'
    BY <1>2, <1>3 DEF IInv, UnusedNames, Gone
  <1>5. Records' /\ Working' /\ Leaving'
    BY <1>2 DEF IInv, Records, Working, Leaving, Gone
  <1>6. JobsTell'
    BY <1>2, <1>3 DEF IInv, JobsTell, Tell, Gone
  <1> QED
    BY <1>1, <1>4, <1>5, <1>6 DEF IInv

LEMMA CrashSafe ==
  ASSUME IInv, Crash
  PROVE  IInv'
  <1>1. TypeOK'
    BY ManagerType DEF IInv
  <1>2. /\ siCache' = si /\ si' = si /\ res' = res /\ resCache' = res
        /\ at' = "idle" /\ cur' = cur /\ copy' = NoRecord /\ created' = created
    BY DEF Crash, server
  <1>3. UnusedNames'
    BY <1>2 DEF IInv, UnusedNames, Gone
  <1>4. Records'
    BY <1>2, NothingKnown DEF IInv, Records, Gone
  <1>5. Working'
    <2>1. Informed("idle", NoRecord, si[cur], si[cur])
      BY NothingKnown, PlainInformed DEF Special
    <2> QED
      BY <1>2, <2>1 DEF Working
  <1>6. JobsTell'
    BY <1>2 DEF IInv, JobsTell, Tell, Gone
  <1>7. Leaving'
    BY <1>2 DEF IInv, Leaving, LeavingLabels, Records, Reflects, Gone
  <1> QED
    BY <1>1, <1>3, <1>4, <1>5, <1>6, <1>7 DEF IInv

\* A step of the cluster that leaves r of a ScanInstance is safe if r forgets
\* nothing and what became of its jobs tells no lie.
LEMMA ClusterSafe ==
  ASSUME IInv, TypeOK', NEW n \in ScanInstances, NEW r \in Record,
         UNCHANGED <<caches, worker, created>>,
         si' = [si EXCEPT ![n] = r],
         \A m \in ScanInstances \ {n} : res'[m] = res[m],
         created[n] = 0 => /\ r = NoRecord
                           /\ res'[n]["preScan"] = NoObject
                           /\ res'[n]["janitor"] = NoObject,
         \/ r = NoRecord
         \/ /\ r.incarnation # 0 /\ ~Gone(n)
            /\ Sound(r) /\ Finished(r) /\ Reflects(si[n], r)
            /\ Tell(r, res'[n]["preScan"], resCache[n]["preScan"],
                    res'[n]["janitor"])
            /\ Undone(r, res'[n]["preScan"]) => Undone(si[n], res[n]["preScan"])
  PROVE  IInv'
  <1>0. NoRecord.incarnation = 0
    BY DEF NoRecord
  <1>1. /\ siCache' = siCache /\ resCache' = resCache /\ created' = created
        /\ at' = at /\ cur' = cur /\ copy' = copy /\ si'[n] = r
        /\ \A m \in ScanInstances : m # n => si'[m] = si[m] /\ res'[m] = res[m]
    BY DEF IInv, TypeOK, caches, worker
  <1>2. UnusedNames'
    BY <1>0, <1>1 DEF IInv, UnusedNames, Gone
  <1>3. CASE r = NoRecord
    <2>1. Gone(n)'
      BY <1>0, <1>1, <1>3 DEF Gone
    <2>2. Records' /\ JobsTell' /\ Leaving'
      BY <1>1, <2>1 DEF IInv, Records, JobsTell, Leaving, Gone
    <2>3. Working'
      BY <1>1, <2>1, CurrentFacts DEF IInv, Working, Gone
    <2> QED
      BY <1>2, <2>2, <2>3 DEF IInv
  <1>4. CASE r # NoRecord
    <2>1. Records'
      <3>1. Sound(siCache[n]) /\ Reflects(siCache[n], r)
        BY <1>4, ReflectsTransitive DEF IInv, Records
      <3> QED
        BY <1>1, <1>4, <3>1 DEF IInv, Records, Gone
    <2>2. Working'
      <3>1. CASE cur # n
        BY <1>1, <3>1, CurrentFacts DEF IInv, Working, Gone
      <3>2. CASE cur = n
        <4>1. Informed(at, copy, si[n], siCache[n])
          BY <1>4, <3>2, CurrentFacts
        <4>2. Reflects(copy, r)
          BY <1>4, <4>1, ReflectsTransitive DEF Informed
        <4>3. Informed(at, copy, r, siCache[n])
          BY <1>4, <4>1, <4>2 DEF Informed, Reflects
        <4> QED
          BY <1>1, <3>2, <4>3 DEF Working
      <3> QED
        BY <3>1, <3>2
    <2>3. JobsTell'
      BY <1>1, <1>4 DEF IInv, JobsTell, Gone
    <2>4. Leaving'
      BY <1>1, <1>4 DEF IInv, Leaving, Gone
    <2> QED
      BY <1>2, <2>1, <2>2, <2>3, <2>4 DEF IInv
  <1> QED
    BY <1>3, <1>4

\* The same for a step that changes objects only.
LEMMA ObjectsSafe ==
  ASSUME IInv, TypeOK', NEW n \in ScanInstances,
         UNCHANGED <<si, caches, worker, created>>,
         \A m \in ScanInstances \ {n} : res'[m] = res[m],
         res[n]["janitor"] = NoObject => res'[n]["janitor"] = NoObject,
         res[n]["preScan"] = NoObject => res'[n]["preScan"] = NoObject,
         ~Gone(n) =>
            /\ Tell(si[n], res'[n]["preScan"], resCache[n]["preScan"],
                    res'[n]["janitor"])
            /\ Undone(si[n], res'[n]["preScan"]) =>
                  Undone(si[n], res[n]["preScan"])
  PROVE  IInv'
  <1>1. si[n] \in Record /\ si' = [si EXCEPT ![n] = si[n]]
    BY DEF IInv, TypeOK
  <1>2. Gone(n) => si[n] = NoRecord
    BY DEF IInv, UnusedNames
  <1>3. created[n] = 0 => /\ si[n] = NoRecord
                          /\ res'[n]["preScan"] = NoObject
                          /\ res'[n]["janitor"] = NoObject
    BY <1>2 DEF IInv, UnusedNames
  <1>4. ~Gone(n) =>
           /\ si[n].incarnation # 0
           /\ Sound(si[n]) /\ Finished(si[n]) /\ Reflects(si[n], si[n])
    BY NothingKnown DEF IInv, Records, Gone
  <1> QED
    BY <1>1, <1>2, <1>3, <1>4, ClusterSafe

\* What the records and the jobs of a ScanInstance say before a step.
LEMMA NameFacts ==
  ASSUME IInv, NEW n \in ScanInstances
  PROVE  /\ si[n] \in Record
         /\ res[n] \in [Kinds -> Object]
         /\ "preScan" \in Kinds /\ "janitor" \in Kinds
         /\ Gone(n) => si[n] = NoRecord
         /\ created[n] = 0 => /\ Gone(n)
                              /\ res[n]["preScan"] = NoObject
                              /\ res[n]["janitor"] = NoObject
         /\ ~Gone(n) =>
               /\ si[n].incarnation # 0
               /\ Sound(si[n]) /\ Finished(si[n])
               /\ Tell(si[n], res[n]["preScan"], resCache[n]["preScan"],
                       res[n]["janitor"])
  BY DEF IInv, TypeOK, UnusedNames, Records, JobsTell, Gone, Kinds, Jobs

LEMMA BecomesSafe ==
  ASSUME IInv, NEW n \in ScanInstances, NEW k \in Kinds, NEW from,
         NEW to \in JobStates \cup {"ready"}, Becomes(n, k, from, to),
         "absent" \notin from, to # "reported",
         k = "preScan" /\ to = "succeeded" => from \subseteq {"reported"},
         k = "preScan" /\ to \in Unreported => from \subseteq Unreported
  PROVE  IInv'
  <1>1. TypeOK'
    BY BecomesType DEF IInv
  <1> DEFINE o == [res[n][k] EXCEPT !.state = to]
  <1>2. /\ res[n][k].state \in from
        /\ res' = [res EXCEPT ![n] = [res[n] EXCEPT ![k] = o]]
        /\ UNCHANGED <<si, caches, worker, created>>
    BY DEF Becomes, Outside
  <1>3. o.state = to
    BY NameFacts DEF Object
  <1> HIDE DEF o
  <1>4. /\ \A m \in ScanInstances \ {n} : res'[m] = res[m]
        /\ res'[n][k] = o
        /\ \A j \in Kinds \ {k} : res'[n][j] = res[n][j]
    BY <1>2 DEF IInv, TypeOK
  <1>5. NoObject.state = "absent"
    BY DEF NoObject
  <1>6. res[n][k] # NoObject /\ o # NoObject
    BY <1>2, <1>3, <1>5 DEF JobStates
  <1>7. CASE k = "preScan"
    <2>1. /\ res'[n]["preScan"].state = to /\ res'[n]["preScan"] # NoObject
          /\ res'[n]["janitor"] = res[n]["janitor"]
      BY <1>3, <1>4, <1>6, <1>7, NameFacts
    <2>2. ~Gone(n) => Tell(si[n], res'[n]["preScan"], resCache[n]["preScan"],
                           res'[n]["janitor"])
      BY <1>2, <1>7, <2>1, NameFacts DEF Tell
    <2> QED
      BY <1>1, <1>2, <1>4, <1>6, <1>7, <2>1, <2>2, ObjectsSafe DEF Undone
  <1>8. CASE k # "preScan"
    <2>1. /\ res'[n]["preScan"] = res[n]["preScan"]
          /\ res[n]["janitor"] = NoObject <=> res'[n]["janitor"] = NoObject
      BY <1>4, <1>6, <1>8, NameFacts
    <2>2. ~Gone(n) => Tell(si[n], res'[n]["preScan"], resCache[n]["preScan"],
                           res'[n]["janitor"])
      BY <2>1, NameFacts DEF Tell
    <2> QED
      BY <1>1, <1>2, <1>4, <2>1, <2>2, ObjectsSafe
  <1> QED
    BY <1>7, <1>8

\* What jobs and deployments do by themselves.
LEMMA PodSafe ==
  ASSUME IInv, NEW n \in ScanInstances,
         \/ \E k \in Jobs :
               \/ JobStarts(n, k) \/ JobBlocked(n, k) \/ JobUnblocked(n, k)
               \/ ImageMissing(n, k) \/ ImageFound(n, k) \/ JobFails(n, k)
         \/ JobSucceeds(n) \/ RedisStarts(n)
  PROVE  IInv'
  <1>1. CASE \E k \in Jobs :
               \/ JobStarts(n, k) \/ JobBlocked(n, k) \/ JobUnblocked(n, k)
               \/ ImageMissing(n, k) \/ ImageFound(n, k) \/ JobFails(n, k)
    <2>1. PICK k \in Jobs :
               \/ JobStarts(n, k) \/ JobBlocked(n, k) \/ JobUnblocked(n, k)
               \/ ImageMissing(n, k) \/ ImageFound(n, k) \/ JobFails(n, k)
      BY <1>1
    <2>2. k \in Kinds /\ {"active", "blocked", "overdue", "badImage", "failed"}
                            \subseteq JobStates
      BY DEF Kinds, JobStates
    <2>3. CASE JobStarts(n, k) \/ JobUnblocked(n, k) \/ ImageFound(n, k)
      BY <2>2, <2>3, BecomesSafe DEF JobStarts, JobUnblocked, ImageFound, Unreported
    <2>4. CASE JobBlocked(n, k) \/ ImageMissing(n, k) \/ JobFails(n, k)
      BY <2>2, <2>4, BecomesSafe DEF JobBlocked, ImageMissing, JobFails, Unreported
    <2> QED
      BY <2>1, <2>3, <2>4
  <1>2. CASE JobSucceeds(n) \/ RedisStarts(n)
    BY <1>2, BecomesSafe DEF JobSucceeds, RedisStarts, Unreported, Kinds, Jobs,
                             JobStates
  <1> QED
    BY <1>1, <1>2

\* The container reports while its job is active, and so before the locations
\* are known.
LEMMA PreScanReportsSafe ==
  ASSUME IInv, NEW n \in ScanInstances, PreScanReports(n)
  PROVE  IInv'
  <1>1. TypeOK'
    BY UserType DEF IInv
  <1>2. UNCHANGED <<caches, worker, created>> /\ res[n]["preScan"].state = "active"
    BY DEF PreScanReports, Outside
  <1>3. NoObject.state = "absent"
    BY DEF NoObject
  <1>4. created[n] # 0 /\ res[n]["preScan"] # NoObject
    BY <1>2, <1>3, NameFacts
  <1>5. CASE Gone(n)
    <2>1. UNCHANGED si /\ \A m \in ScanInstances \ {n} : res'[m] = res[m]
      BY <1>5 DEF PreScanReports, Gone, IInv, TypeOK
    <2>2. si' = [si EXCEPT ![n] = si[n]]
      BY <2>1 DEF IInv, TypeOK
    <2> QED
      BY <1>1, <1>2, <1>4, <1>5, <2>1, <2>2, NameFacts, ClusterSafe
  <1>6. CASE ~Gone(n)
    <2>1. PICK l \in {"none", "some"} : si' = [si EXCEPT ![n].locations = l]
      BY <1>6 DEF PreScanReports, Gone
    <2> DEFINE r == [si[n] EXCEPT !.locations = l]
    <2>2. r \in Record /\ si' = [si EXCEPT ![n] = r]
      BY <2>1, NameFacts DEF Record
    <2>3. /\ r.incarnation = si[n].incarnation /\ r.report = si[n].report
          /\ r.deleting = si[n].deleting /\ r.finalizer = si[n].finalizer
          /\ r.conditions = si[n].conditions /\ r.status = si[n].status
          /\ r.locations = l
      BY NameFacts DEF Record
    <2> HIDE DEF r
    <2>4. Known(r)
      BY <2>3 DEF Known
    <2>5. Known(si[n]) => si[n].report
      BY <1>2, <1>6, NameFacts DEF Tell, Unreported
    <2>6. Sound(r) /\ Finished(r) /\ Reflects(si[n], r)
      BY <1>6, <2>3, <2>4, <2>5, NameFacts DEF Sound, Finished, Reflects, Has, Known
    <2> DEFINE o == [res[n]["preScan"] EXCEPT !.state = "reported"]
    <2>7. o.state = "reported"
      BY NameFacts DEF Object
    <2>8. res' = [res EXCEPT ![n] = [res[n] EXCEPT !["preScan"] = o]]
      BY <1>6 DEF PreScanReports, Gone
    <2> HIDE DEF o
    <2>9. /\ \A m \in ScanInstances \ {n} : res'[m] = res[m]
          /\ res'[n]["preScan"] = o
          /\ res'[n]["janitor"] = res[n]["janitor"]
      BY <2>8, NameFacts DEF IInv, TypeOK
    <2>10. Tell(r, res'[n]["preScan"], resCache[n]["preScan"], res'[n]["janitor"])
      BY <1>6, <2>3, <2>4, <2>7, <2>9, NameFacts DEF Tell, Unreported
    <2>11. ~Undone(r, res'[n]["preScan"])
      BY <1>3, <2>7, <2>9 DEF Undone
    <2>12. r.incarnation # 0
      BY <1>6, <2>3 DEF Gone
    <2> QED
      BY <1>1, <1>2, <1>4, <1>6, <2>2, <2>6, <2>9, <2>10, <2>11, <2>12, ClusterSafe
  <1> QED
    BY <1>5, <1>6

LEMMA UserDeleteSafe ==
  ASSUME IInv, NEW n \in ScanInstances, UserDelete(n)
  PROVE  IInv'
  <1>1. TypeOK'
    BY UserType DEF IInv
  <1>2. /\ UNCHANGED <<caches, worker, created>> /\ res' = res /\ ~Gone(n)
        /\ created[n] # 0
    BY NameFacts DEF UserDelete, Outside, Gone
  <1>3. CASE si[n].finalizer
    <2> DEFINE r == [si[n] EXCEPT !.deleting = TRUE]
    <2>1. r \in Record /\ si' = [si EXCEPT ![n] = r]
      BY <1>3, NameFacts DEF UserDelete, Record
    <2>2. /\ r.incarnation = si[n].incarnation /\ r.report = si[n].report
          /\ r.locations = si[n].locations /\ r.finalizer = si[n].finalizer
          /\ r.conditions = si[n].conditions /\ r.status = si[n].status
          /\ r.deleting = TRUE
      BY NameFacts DEF Record
    <2> HIDE DEF r
    <2>3. Sound(r) /\ Finished(r) /\ Reflects(si[n], r)
      BY <1>2, <1>3, <2>2, NameFacts DEF Sound, Finished, Reflects, Has, Known
    <2>4. /\ Tell(r, res[n]["preScan"], resCache[n]["preScan"], res[n]["janitor"])
          /\ Undone(r, res[n]["preScan"]) => Undone(si[n], res[n]["preScan"])
      BY <1>2, <2>2, NameFacts DEF Tell, Undone, Known
    <2>5. r.incarnation # 0
      BY <1>2, <2>2 DEF Gone
    <2> QED
      BY <1>1, <1>2, <2>1, <2>3, <2>4, <2>5, ClusterSafe
  <1>4. CASE ~si[n].finalizer
    <2>1. si' = [si EXCEPT ![n] = NoRecord]
      BY <1>4 DEF UserDelete
    <2> QED
      BY <1>1, <1>2, <2>1, NoRecordType, ClusterSafe
  <1> QED
    BY <1>3, <1>4

\* A name is used once: whoever creates a ScanInstance finds nothing of it.
LEMMA UserCreateSafe ==
  ASSUME IInv, MaxIncarnations = 1, NEW n \in ScanInstances, UserCreate(n)
  PROVE  IInv'
  <1>1. TypeOK'
    BY UserType DEF IInv
  <1>2. created[n] = 0
    BY DEF IInv, TypeOK, UserCreate
  <1> DEFINE r == [NoRecord EXCEPT !.incarnation = created[n] + 1]
  <1>3. /\ siCache' = siCache /\ resCache' = resCache /\ res' = res
        /\ at' = at /\ cur' = cur /\ copy' = copy
        /\ si' = [si EXCEPT ![n] = r] /\ created' = [created EXCEPT ![n] = 1]
    BY <1>2 DEF UserCreate, Outside, caches, worker
  <1>4. /\ r.incarnation # 0 /\ ~r.deleting /\ r.conditions = {}
        /\ r.locations = "unknown" /\ ~r.report /\ r.status = ""
    BY <1>2 DEF NoRecord
  <1> HIDE DEF r
  <1>5. /\ si'[n] = r /\ created'[n] = 1
        /\ \A m \in ScanInstances : m # n =>
              si'[m] = si[m] /\ created'[m] = created[m]
    BY <1>3 DEF IInv, TypeOK
  <1>6. /\ siCache[n] = NoRecord
        /\ res[n]["preScan"] = NoObject /\ resCache[n]["preScan"] = NoObject
        /\ res[n]["janitor"] = NoObject
        /\ at = "idle" \/ cur # n
        /\ at = "idle" => copy = NoRecord
    BY <1>2 DEF IInv, UnusedNames
  <1>7. Sound(r) /\ Finished(r) /\ Sound(NoRecord) /\ Reflects(NoRecord, r)
    BY <1>4, NothingKnown DEF Sound, Finished, Has, Known
  <1>8. UnusedNames'
    <2>0. created'[n] # 0
      BY <1>5
    <2>1. si'[n].incarnation # 0 /\ created'[n] # 0
      BY <1>4, <1>5, <2>0
    <2>2. at' = "idle" => copy' = NoRecord
      BY <1>3, <1>6
    <2>3. ASSUME NEW m \in ScanInstances, m # n
          PROVE  /\ Gone(m)' => si'[m] = NoRecord
                 /\ created'[m] = 0 =>
                       /\ Gone(m)' /\ siCache'[m] = NoRecord
                       /\ res'[m]["preScan"] = NoObject
                       /\ resCache'[m]["preScan"] = NoObject
                       /\ res'[m]["janitor"] = NoObject
                       /\ at' = "idle" \/ cur' # m
      BY <1>3, <1>5, <2>3 DEF IInv, UnusedNames, Gone
    <2> QED
      BY <2>1, <2>2, <2>3 DEF UnusedNames, Gone
  <1>9. Records'
    BY <1>3, <1>5, <1>6, <1>7 DEF IInv, Records, Gone
  <1>10. Working'
    <2>1. CASE cur # n
      BY <1>3, <1>5, <2>1, CurrentFacts DEF IInv, Working, Gone
    <2>2. CASE cur = n
      <3>1. Informed("idle", NoRecord, r, siCache[n])
        BY <1>7, PlainInformed DEF Special
      <3> QED
        BY <1>3, <1>5, <1>6, <2>2, <3>1 DEF Working
    <2> QED
      BY <2>1, <2>2
  <1>11. JobsTell'
    <2>1. NoObject.state = "absent"
      BY DEF NoObject
    <2>2. Tell(r, NoObject, NoObject, NoObject)
      BY <2>1 DEF Tell, Unreported
    <2> QED
      BY <1>3, <1>5, <1>6, <2>2 DEF IInv, JobsTell, Gone
  <1>12. Leaving'
    <2>1. ~Undone(r, NoObject)
      BY <1>4 DEF Undone, Known
    <2> QED
      BY <1>3, <1>5, <1>6, <2>1 DEF IInv, Leaving, Gone
  <1> QED
    BY <1>1, <1>8, <1>9, <1>10, <1>11, <1>12 DEF IInv

\* What deletes objects, or restarts them: the janitor comes after the report.
LEMMA RemovalSafe ==
  ASSUME IInv, NEW n \in ScanInstances,
         \/ JanitorRuns(n) \/ JanitorExpires(n) \/ RedisRestarts(n)
         \/ \E k \in Kinds : GarbageCollect(n, k)
  PROVE  IInv'
  <1>1. TypeOK'
    BY RemovalType DEF IInv
  <1>2. NoObject.state = "absent"
    BY DEF NoObject
  <1>3. CASE JanitorRuns(n)
    <2>1. PICK kinds : JanitorDone(n, kinds)
      BY <1>3 DEF JanitorRuns
    <2>2. res[n]["janitor"] # NoObject /\ UNCHANGED <<si, caches, worker, created>>
      BY <1>2, <1>3 DEF JanitorRuns, worker
    <2> DEFINE left == [k \in Kinds |-> IF k \in kinds THEN NoObject ELSE res[n][k]]
    <2>3. res' = [[res EXCEPT ![n] = left] EXCEPT ![n]["janitor"].state = "succeeded"]
      BY <2>1 DEF JanitorDone, Deleted
    <2>4. left["preScan"] \in {NoObject, res[n]["preScan"]} /\ left \in [Kinds -> Object]
      BY NameFacts, NoObjectType
    <2> HIDE DEF left
    <2>5. /\ \A m \in ScanInstances \ {n} : res'[m] = res[m]
          /\ res'[n]["preScan"] = left["preScan"]
      BY <2>3, <2>4, NameFacts DEF IInv, TypeOK
    <2>6. ~Gone(n) => si[n].report
      BY <2>2, NameFacts DEF Tell
    <2>7. ~Gone(n) =>
             /\ Tell(si[n], res'[n]["preScan"], resCache[n]["preScan"],
                     res'[n]["janitor"])
             /\ ~Undone(si[n], res'[n]["preScan"])
      BY <1>2, <2>4, <2>5, <2>6, NameFacts DEF Tell, Undone, Unreported
    <2> QED
      BY <1>1, <2>2, <2>4, <2>5, <2>7, ObjectsSafe
  <1>4. CASE JanitorExpires(n)
    <2>1. /\ res' = [res EXCEPT ![n] = [res[n] EXCEPT !["janitor"] = NoObject]]
          /\ UNCHANGED <<si, caches, worker, created>>
      BY <1>4 DEF JanitorExpires, Outside
    <2>2. /\ \A m \in ScanInstances \ {n} : res'[m] = res[m]
          /\ res'[n]["preScan"] = res[n]["preScan"]
          /\ res'[n]["janitor"] = NoObject
      BY <2>1, NameFacts DEF IInv, TypeOK
    <2> QED
      BY <1>1, <2>1, <2>2, NameFacts, ObjectsSafe DEF Tell
  <1>5. CASE RedisRestarts(n)
    <2>1. res' = [res EXCEPT ![n] = [res[n] EXCEPT !["redis"] =
                     [res[n]["redis"] EXCEPT !.state = "starting"]]]
      BY <1>5 DEF RedisRestarts
    <2>2. UNCHANGED <<si, caches, worker, created>>
      BY <1>5 DEF RedisRestarts, worker
    <2>3. /\ \A m \in ScanInstances \ {n} : res'[m] = res[m]
          /\ res'[n]["preScan"] = res[n]["preScan"]
          /\ res'[n]["janitor"] = res[n]["janitor"]
      BY <2>1, NameFacts DEF IInv, TypeOK
    <2> QED
      BY <1>1, <2>2, <2>3, NameFacts, ObjectsSafe DEF Tell
  <1>6. CASE \E k \in Kinds : GarbageCollect(n, k)
    <2>1. PICK k \in Kinds : GarbageCollect(n, k)
      BY <1>6
    <2>2. /\ k # "preScan"
          /\ res' = [res EXCEPT ![n] = [res[n] EXCEPT ![k] = NoObject]]
          /\ UNCHANGED <<si, caches, worker, created>>
      BY <2>1 DEF GarbageCollect, Owned, Outside
    <2>3. /\ \A m \in ScanInstances \ {n} : res'[m] = res[m]
          /\ res'[n]["preScan"] = res[n]["preScan"]
          /\ res'[n]["janitor"] \in {NoObject, res[n]["janitor"]}
      BY <2>2, NameFacts DEF IInv, TypeOK
    <2> QED
      BY <1>1, <2>2, <2>3, NameFacts, ObjectsSafe DEF Tell
  <1> QED
    BY <1>3, <1>4, <1>5, <1>6

-----------------------------------------------------------------------------
(* The invariant, and what follows from it. *)

LEMMA NextSafe ==
  ASSUME IInv, MaxIncarnations = 1, Next
  PROVE  IInv'
  <1>1. CASE \E n \in ScanInstances : Start(n)
    BY <1>1, StartSafe
  <1>2. CASE WorkerStep
    BY <1>2, WorkerStepSafe
  <1>3. CASE DeliverScanInstances
    BY <1>3, DeliverScanInstancesSafe
  <1>4. CASE \E i \in Informers : Deliver(i)
    BY <1>4, DeliverSafe
  <1>5. CASE Crash
    BY <1>5, CrashSafe
  <1>6. CASE \E n \in ScanInstances : Cluster(n)
    <2>1. PICK n \in ScanInstances : Cluster(n)
      BY <1>6
    <2> QED
      BY <2>1, UserCreateSafe, UserDeleteSafe, PodSafe, PreScanReportsSafe,
         RemovalSafe DEF Cluster
  <1> QED
    BY <1>1, <1>2, <1>3, <1>4, <1>5, <1>6 DEF Next

LEMMA InitSafe ==
  ASSUME Init
  PROVE  IInv
  <1>1. TypeOK
    BY InitType
  <1>2. /\ cur \in ScanInstances /\ at = "idle" /\ copy = NoRecord
        /\ \A n \in ScanInstances :
              /\ si[n] = NoRecord /\ siCache[n] = NoRecord
              /\ \A k \in Kinds : res[n][k] = NoObject /\ resCache[n][k] = NoObject
    BY DEF Init
  <1>3. NoRecord.incarnation = 0 /\ "preScan" \in Kinds /\ "janitor" \in Kinds
    BY DEF NoRecord, Kinds, Jobs
  <1>4. \A n \in ScanInstances : Gone(n)
    BY <1>2, <1>3 DEF Gone
  <1> QED
    BY <1>1, <1>2, <1>3, <1>4 DEF IInv, UnusedNames, Records, Working, JobsTell,
                                  Leaving

LEMMA Invariance == MaxIncarnations = 1 => (Spec => []IInv)
  <1> SUFFICES ASSUME MaxIncarnations = 1
               PROVE  Spec => []IInv
    OBVIOUS
  <1>1. IInv /\ [Next]_vars => IInv'
    <2>1. CASE UNCHANGED vars
      BY <2>1 DEF vars, IInv, TypeOK, UnusedNames, Records, Working, JobsTell,
                  Leaving, Gone
    <2> QED
      BY <2>1, NextSafe
  <1> QED
    BY InitSafe, <1>1, PTL DEF Spec

\* Whatever the caches lag behind and whatever fails, a ScanInstance with
\* virtual machines to scan is not shown as Completed without its report.
THEOREM NeverSkipped == MaxIncarnations = 1 => (Spec => []NoSkippedScan)
  <1>1. IInv => NoSkippedScan
    <2>1. NoRecord.status # "Completed"
      BY DEF NoRecord
    <2> QED
      BY <2>1 DEF IInv, UnusedNames, Records, Finished, NoSkippedScan
  <1> QED
    BY <1>1, Invariance, PTL

\* Whatever the caches lag behind and whatever fails, the pre-scan phase is
\* Completed only when the locations have been reported.
THEOREM LocationsFirst == MaxIncarnations = 1 => (Spec => []LocationsKnown)
  <1>1. IInv => LocationsKnown
    <2>1. NoRecord.conditions = {}
      BY DEF NoRecord
    <2> QED
      BY <2>1 DEF IInv, UnusedNames, Records, Sound, Known, LocationsKnown, Has
  <1> QED
    BY <1>1, Invariance, PTL

-----------------------------------------------------------------------------
(* The slots of the scan jobs, whatever the informers lag behind. *)

\* From the count of the jobs to the creation of one more.
Claiming == {"configMap", "secret", "scanJob"}

Busy(o) == o.state \notin {"absent", "succeeded", "failed"}

NoneAdded == ScanningJobs' \subseteq ScanningJobs

LEMMA NoneAddedBy ==
  ASSUME \A m \in ScanInstances :
            \/ res'[m]["scan"] = res[m]["scan"]
            \/ ~Busy(res'[m]["scan"])
            \/ Busy(res[m]["scan"])
  PROVE  NoneAdded
  BY DEF NoneAdded, ScanningJobs, Busy

\* What a worker's step may do without a slot.
Unclaimed == at' \notin Claiming /\ NoneAdded

LEMMA UnclaimedGoto ==
  ASSUME NEW label, NEW c, Goto(label, c), label \notin Claiming
  PROVE  at' \notin Claiming
  BY DEF Goto, Claiming

LEMMA UnclaimedWrite ==
  ASSUME NEW label, label \notin Claiming,
         \/ Move(label) \/ Move("retry") \/ Refused
         \/ \E r : Accepted(r, label)
         \/ \E status : PatchStatus(status, label)
         \/ \E phase, status : PatchCondition(phase, status, label)
  PROVE  Unclaimed
  <1>1. res' = res
    BY DEF Move, Refused, Accepted, PatchStatus, PatchCondition, server
  <1>2. \E l, c : Goto(l, c) /\ l \in {label, "retry"}
    BY DEF Move, Refused, Accepted, PatchStatus, PatchCondition
  <1>3. "retry" \notin Claiming
    BY DEF Claiming
  <1> QED
    BY <1>1, <1>2, <1>3, UnclaimedGoto, NoneAddedBy DEF Unclaimed

LEMMA UnclaimedCreate ==
  ASSUME TypeOK, NEW kind \in Kinds \ {"scan"}, NEW state, NEW accepted, NEW exists,
         NEW rejected, Create(kind, state, accepted, exists, rejected)
  PROVE  /\ NoneAdded
         /\ {accepted, exists, rejected} \cap Claiming = {} => at' \notin Claiming
  <1>1. \A m \in ScanInstances : res'[m]["scan"] = res[m]["scan"]
    BY DEF TypeOK, Create, Move, server, Kinds, Jobs
  <1>2. \E l \in {accepted, exists, rejected} : Goto(l, copy)
    BY DEF Create, Move
  <1> QED
    BY <1>1, <1>2, NoneAddedBy, UnclaimedGoto

\* The worker's steps that only write the ScanInstance, or nothing.
LEMMA PatchesUnclaimed ==
  ASSUME TypeOK,
         \/ AddFinalizer \/ MarkQueued
         \/ MarkPreScanStarted \/ MarkPreScanInProgress
         \/ MarkPreScanRejected \/ MarkPreScanCompleted
         \/ MarkPreScanFailed \/ MarkPreScanRunning \/ MarkFailed
         \/ MarkNoVMs \/ MarkRedisGaveUp \/ MarkRedisStarted
         \/ MarkRedisReady \/ MarkRedisFailed
         \/ MarkScanRejected \/ MarkScanStarted \/ MarkScanRunning
         \/ MarkScanFailed
         \/ UpdateReport \/ MarkCompleted \/ MarkScanCompleted
  PROVE  Unclaimed
  <1>1. CASE AddFinalizer
    <2>1. AfterFinalizer([si[cur] EXCEPT !.finalizer = TRUE]) \notin Claiming
      BY DEF AfterFinalizer, Route, Claiming
    <2> QED
      BY <1>1, <2>1, UnclaimedWrite DEF AddFinalizer, AtVersion
  <1>2. CASE MarkQueued
    <2>1. Route([si[cur] EXCEPT !.status = "Queued"]) \notin Claiming
      BY DEF Route, Claiming
    <2> QED
      BY <1>2, <2>1, UnclaimedWrite DEF MarkQueued
  <1>3. CASE MarkPreScanStarted \/ MarkPreScanInProgress \/ MarkPreScanRejected
             \/ MarkPreScanCompleted \/ MarkPreScanFailed
    <2>1. \A label \in {"preScanInProgress", "createPreScanJob", "failedRetry",
                        "scanPhase", "idle", "failed"} : label \notin Claiming
      BY DEF Claiming
    <2> QED
      BY <1>3, <2>1, UnclaimedWrite
      DEF MarkPreScanStarted, MarkPreScanInProgress, MarkPreScanRejected,
          MarkPreScanCompleted, MarkPreScanFailed
  <1>4. CASE MarkPreScanRunning \/ MarkScanRunning
    <2>1. \A label \in {"idle", "preScanFailed", "scanFailed"} : label \notin Claiming
      BY DEF Claiming
    <2> QED
      BY <1>4, <2>1, UnclaimedWrite DEF MarkPreScanRunning, MarkScanRunning
  <1>5. CASE MarkFailed \/ MarkNoVMs \/ MarkRedisGaveUp
    BY <1>5, UnclaimedWrite DEF MarkFailed, MarkNoVMs, MarkRedisGaveUp, Claiming
  <1>6. CASE MarkRedisStarted \/ MarkRedisReady \/ MarkRedisFailed
    BY <1>6, UnclaimedWrite
    DEF MarkRedisStarted, MarkRedisReady, MarkRedisFailed, Claiming
  <1>7. CASE MarkScanRejected \/ MarkScanStarted \/ MarkScanFailed
    BY <1>7, UnclaimedWrite
    DEF MarkScanRejected, MarkScanStarted, MarkScanFailed, Claiming
  <1>8. CASE UpdateReport \/ MarkCompleted \/ MarkScanCompleted
    <2>1. \A label \in {"completedLocked", "scanCompleted", "janitor"} :
             label \notin Claiming
      BY DEF Claiming
    <2> QED
      BY <1>8, <2>1, UnclaimedWrite
      DEF UpdateReport, MarkCompleted, MarkScanCompleted, AtVersion
  <1> QED
    BY <1>1, <1>2, <1>3, <1>4, <1>5, <1>6, <1>7, <1>8

\* The worker's steps that delete objects, read the caches, or create objects
\* other than the scan's.
LEMMA OthersUnclaimed ==
  ASSUME TypeOK,
         \/ Cleanup \/ RemoveFinalizer \/ ReadPreScanJob \/ CreatePreScanJob
         \/ CreateRedisDeployment \/ RefetchRedisDeployment
         \/ CreateRedisService \/ RefetchRedisService \/ CreateJanitorJob
  PROVE  Unclaimed
  <1>1. CASE Cleanup
    <2>1. PICK kinds : res' = Deleted(cur, kinds)
      BY <1>1 DEF Cleanup
    <2>2. \A m \in ScanInstances : res'[m]["scan"] \in {res[m]["scan"], NoObject}
      BY <2>1 DEF Deleted, TypeOK, Kinds, Jobs
    <2>3. at' \notin Claiming
      BY <1>1, UnclaimedGoto DEF Cleanup, Claiming
    <2>4. ~Busy(NoObject)
      BY DEF Busy, NoObject
    <2> QED
      BY <2>2, <2>3, <2>4, NoneAddedBy DEF Unclaimed
  <1>2. CASE RemoveFinalizer \/ ReadPreScanJob
    <2>1. \A label \in {"idle", "retry", "createPreScanJob", "preScanStarted",
                        "preScanCompleted", "preScanFailed", "preScanOverdue",
                        "preScanRunning"} : label \notin Claiming
      BY DEF Claiming
    <2> QED
      BY <1>2, <2>1, UnclaimedWrite DEF RemoveFinalizer, AtVersion, ReadPreScanJob
  <1>3. {"preScan", "janitor", "redis", "service"} \subseteq Kinds \ {"scan"}
    BY DEF Kinds, Jobs
  <1>4. CASE CreatePreScanJob
    BY <1>3, <1>4, UnclaimedCreate DEF CreatePreScanJob, Unclaimed, Claiming
  <1>5. CASE CreateRedisDeployment \/ RefetchRedisDeployment
    <2>1. RedisFound \notin Claiming
      BY DEF RedisFound, Claiming
    <2>2. {"service", "redisExists", "redisFailed"} \cap Claiming = {}
      BY DEF Claiming
    <2> QED
      BY <1>3, <1>5, <2>1, <2>2, UnclaimedWrite, UnclaimedCreate
      DEF CreateRedisDeployment, RefetchRedisDeployment, Unclaimed
  <1>6. CASE CreateRedisService \/ RefetchRedisService
    <2>1. \A label : ServiceFound(label) \notin Claiming
      BY DEF ServiceFound, Claiming
    <2>2. /\ {"serviceExists", "serviceReadyExists", "redisFailed"} \cap Claiming = {}
          /\ "redisFailed" \notin Claiming
      BY DEF Claiming
    <2>3. {ServiceFound(at), IF at = "service" THEN "serviceExists" ELSE
              "serviceReadyExists", "redisFailed"} \cap Claiming = {}
      BY <2>1, <2>2
    <2> QED
      BY <1>3, <1>6, <2>1, <2>2, <2>3, UnclaimedWrite, UnclaimedCreate
      DEF CreateRedisService, RefetchRedisService, Unclaimed
  <1>7. CASE CreateJanitorJob
    BY <1>3, <1>7, UnclaimedWrite, UnclaimedCreate
    DEF CreateJanitorJob, Unclaimed, Claiming
  <1> QED
    BY <1>1, <1>2, <1>4, <1>5, <1>6, <1>7

\* What any step does about slots: it takes none, counts them, or takes the one that
\* was counted.
TakesNone == NoneAdded /\ (at' \in Claiming => at \in Claiming)

Counts ==
    /\ NoneAdded
    /\ at = "scanPhase" /\ at' = "configMap"
    /\ CanStartNewScan

TakesOne ==
    /\ at \in Claiming /\ at' \notin Claiming
    /\ ScanningJobs' \subseteq ScanningJobs \cup {cur}

LEMMA ScanStepsTake ==
  ASSUME TypeOK,
         \/ ReconcileScanPhase \/ CreateScanConfigMap \/ CreateScanSecret
         \/ CreateScanJob
  PROVE  TakesNone \/ Counts \/ TakesOne
  <1>1. CASE ReconcileScanPhase
    <2>1. NoneAdded /\ at = "scanPhase"
      BY <1>1, NoneAddedBy DEF ReconcileScanPhase, At, Move, server
    <2>2. \A s : ScanJobRoute(copy, s) \notin Claiming
      BY DEF ScanJobRoute, Claiming
    <2>3. BeforeScan(copy) \in Claiming =>
             CanStartNewScan /\ BeforeScan(copy) = "configMap"
      BY DEF BeforeScan, RedisRoute, Claiming
    <2>4. at' \in Claiming => CanStartNewScan /\ at' = "configMap"
      BY <1>1, <2>2, <2>3 DEF ReconcileScanPhase, Move, Goto, Claiming
    <2> QED
      BY <2>1, <2>4 DEF TakesNone, Counts
  <1>2. CASE CreateScanConfigMap \/ CreateScanSecret
    <2>1. NoneAdded
      BY <1>2, UnclaimedCreate DEF CreateScanConfigMap, CreateScanSecret, Kinds, Jobs
    <2>2. at \in Claiming
      BY <1>2 DEF CreateScanConfigMap, CreateScanSecret, At, Claiming
    <2> QED
      BY <2>1, <2>2 DEF TakesNone
  <1>3. CASE CreateScanJob
    <2>1. at \in Claiming
      BY <1>3 DEF CreateScanJob, At, Claiming
    <2>2. at' \notin Claiming
      BY <1>3, UnclaimedGoto DEF CreateScanJob, Create, Move, Claiming
    <2>3. ScanningJobs' \subseteq ScanningJobs \cup {cur}
      BY <1>3 DEF CreateScanJob, Create, Move, server, TypeOK, ScanningJobs
    <2> QED
      BY <2>1, <2>2, <2>3 DEF TakesOne
  <1> QED
    BY <1>1, <1>2, <1>3

-----------------------------------------------------------------------------
\* Outside a reconciliation jobs start and finish, and none is created.
LEMMA ClusterAddsNone ==
  ASSUME TypeOK, NEW n \in ScanInstances, Cluster(n)
  PROVE  NoneAdded /\ at' = at
  <1>1. CASE UserCreate(n) \/ UserDelete(n)
    BY <1>1, NoneAddedBy DEF UserCreate, UserDelete, Outside, worker
  <1>2. ASSUME NEW k, NEW from, NEW to, Becomes(n, k, from, to),
               from \cap {"absent", "succeeded", "failed"} = {}
        PROVE  NoneAdded /\ at' = at
    <2>1. \A m \in ScanInstances : res'[m]["scan"] = res[m]["scan"] \/
                                   Busy(res[m]["scan"])
      BY <1>2 DEF Becomes, TypeOK, Busy
    <2> QED
      BY <1>2, <2>1, NoneAddedBy DEF Becomes, Outside, worker
  <1>3. CASE \/ \E k \in Jobs :
                  \/ JobStarts(n, k) \/ JobBlocked(n, k) \/ JobUnblocked(n, k)
                  \/ ImageMissing(n, k) \/ ImageFound(n, k) \/ JobFails(n, k)
             \/ JobSucceeds(n) \/ RedisStarts(n)
    <2>1. PICK k, from, to :
             /\ Becomes(n, k, from, to)
             /\ from \in {{"new"}, {"blocked"}, {"blocked", "overdue"}, {"active"},
                          {"badImage"}, {"active", "reported"}, {"reported"},
                          {"starting"}}
      BY <1>3 DEF JobStarts, JobBlocked, JobUnblocked, ImageMissing, ImageFound,
                  JobFails, JobSucceeds, RedisStarts
    <2>2. from \cap {"absent", "succeeded", "failed"} = {}
      BY <2>1
    <2> QED
      BY <1>2, <2>1, <2>2
  <1>4. CASE PreScanReports(n) \/ RedisRestarts(n)
    <2>1. \E k \in {"preScan", "redis"} : \E o :
             res' = [res EXCEPT ![n] = [res[n] EXCEPT ![k] = o]]
      <3>1. \E k \in {"preScan", "redis"} : \E s :
               res' = [res EXCEPT ![n] = [res[n] EXCEPT ![k] =
                          [res[n][k] EXCEPT !.state = s]]]
        BY <1>4 DEF PreScanReports, RedisRestarts
      <3> QED
        BY <3>1
    <2>2. \A m \in ScanInstances : res'[m]["scan"] = res[m]["scan"]
      BY <2>1 DEF TypeOK, Kinds, Jobs
    <2> QED
      BY <1>4, <2>2, NoneAddedBy DEF PreScanReports, RedisRestarts, Outside, worker
  <1>5. CASE \/ JanitorRuns(n) \/ JanitorExpires(n)
             \/ \E k \in Kinds : GarbageCollect(n, k)
    <2>1. \A m \in ScanInstances : res'[m]["scan"] \in {res[m]["scan"], NoObject}
      <3>1. CASE JanitorRuns(n)
        <4>1. PICK kinds : JanitorDone(n, kinds)
          BY <3>1 DEF JanitorRuns
        <4> DEFINE left == [k \in Kinds |-> IF k \in kinds THEN NoObject
                                                           ELSE res[n][k]]
        <4>2. left \in [Kinds -> Object] /\ left["scan"] \in {res[n]["scan"], NoObject}
          BY NoObjectType DEF TypeOK, Kinds, Jobs
        <4>3. Deleted(n, kinds) = [res EXCEPT ![n] = left]
          BY DEF Deleted
        <4> HIDE DEF left
        <4>4. PICK o : res' = [res EXCEPT ![n] = [left EXCEPT !["janitor"] = o]]
          <5>1. res' = [res EXCEPT ![n] = [left EXCEPT !["janitor"] =
                           [left["janitor"] EXCEPT !.state = "succeeded"]]]
            BY <4>1, <4>3 DEF JanitorDone, TypeOK
          <5> QED
            BY <5>1
        <4> QED
          BY <4>2, <4>4 DEF TypeOK, Kinds, Jobs
      <3>2. CASE JanitorExpires(n) \/ \E k \in Kinds : GarbageCollect(n, k)
        <4>1. PICK k : res' = [res EXCEPT ![n] = [res[n] EXCEPT ![k] = NoObject]]
          BY <3>2 DEF JanitorExpires, GarbageCollect
        <4> QED
          BY <4>1 DEF TypeOK, Kinds, Jobs
      <3> QED
        BY <1>5, <3>1, <3>2
    <2>2. ~Busy(NoObject)
      BY DEF Busy, NoObject
    <2> QED
      BY <1>5, <2>1, <2>2, NoneAddedBy
      DEF JanitorRuns, JanitorExpires, GarbageCollect, Outside, worker
  <1> QED
    BY <1>1, <1>3, <1>4, <1>5 DEF Cluster

LEMMA NextTakes ==
  ASSUME TypeOK, Next
  PROVE  TakesNone \/ Counts \/ TakesOne
  <1>1. CASE \E n \in ScanInstances : Start(n)
    <2>1. PICK n \in ScanInstances : Start(n)
      BY <1>1
    <2>2. NoneAdded
      BY <2>1, NoneAddedBy DEF Start, server
    <2>3. FirstStep(siCache[n]) \notin Claiming
      BY DEF FirstStep, AfterFinalizer, Route, Claiming
    <2> QED
      BY <2>1, <2>2, <2>3 DEF Start, TakesNone
  <1>2. CASE WorkerStep
    BY <1>2, PatchesUnclaimed, OthersUnclaimed, ScanStepsTake
    DEF WorkerStep, Unclaimed, TakesNone
  <1>3. CASE DeliverScanInstances \/ (\E i \in Informers : Deliver(i)) \/ Crash
    <2>1. NoneAdded
      BY <1>3, NoneAddedBy DEF DeliverScanInstances, Deliver, Crash, server
    <2>2. at' \in Claiming => at \in Claiming
      BY <1>3 DEF DeliverScanInstances, Deliver, Crash, worker, Claiming
    <2> QED
      BY <2>1, <2>2 DEF TakesNone
  <1>4. CASE \E n \in ScanInstances : Cluster(n)
    BY <1>4, ClusterAddsNone DEF TakesNone
  <1> QED
    BY <1>1, <1>2, <1>3, <1>4 DEF Next

\* The worker and the cluster do not write the caches.
LEMMA WorkerReads ==
  ASSUME WorkerStep
  PROVE  caches' = caches /\ cur' = cur
  <1>1. CASE AddFinalizer \/ Cleanup \/ RemoveFinalizer \/ MarkQueued \/ UpdateReport
    BY <1>1 DEF AddFinalizer, Cleanup, RemoveFinalizer, MarkQueued, UpdateReport,
       AtVersion, Accepted, Refused, Move, Goto, caches
  <1>2. CASE \/ MarkPreScanStarted \/ MarkPreScanInProgress
             \/ MarkPreScanRejected \/ MarkPreScanCompleted \/ MarkPreScanFailed
             \/ MarkPreScanRunning \/ MarkFailed \/ MarkNoVMs \/ MarkRedisGaveUp
             \/ MarkRedisStarted \/ MarkRedisReady \/ MarkRedisFailed
    BY <1>2 DEF MarkPreScanStarted, MarkPreScanInProgress, MarkPreScanRejected,
       MarkPreScanCompleted, MarkPreScanFailed, MarkPreScanRunning, MarkFailed,
       MarkNoVMs, MarkRedisGaveUp, MarkRedisStarted, MarkRedisReady, MarkRedisFailed,
       PatchStatus, PatchCondition, Accepted, Refused, Move, Goto, caches
  <1>3. CASE \/ MarkScanRejected \/ MarkScanStarted \/ MarkScanRunning \/ MarkScanFailed
             \/ MarkCompleted \/ MarkScanCompleted
             \/ ReadPreScanJob \/ ReconcileScanPhase \/ RefetchRedisDeployment
             \/ RefetchRedisService
    BY <1>3 DEF MarkScanRejected, MarkScanStarted, MarkScanRunning, MarkScanFailed,
       MarkCompleted, MarkScanCompleted, ReadPreScanJob, ReconcileScanPhase,
       RefetchRedisDeployment, RefetchRedisService, AtVersion,
       PatchStatus, PatchCondition, Accepted, Refused, Move, Goto, caches
  <1>4. CASE \/ CreatePreScanJob \/ CreateRedisDeployment \/ CreateRedisService
             \/ CreateScanConfigMap \/ CreateScanSecret \/ CreateScanJob
             \/ CreateJanitorJob
    BY <1>4 DEF CreatePreScanJob, CreateRedisDeployment, CreateRedisService,
       CreateScanConfigMap, CreateScanSecret, CreateScanJob, CreateJanitorJob,
       Create, Move, Goto, caches
  <1> QED
    BY <1>1, <1>2, <1>3, <1>4 DEF WorkerStep

LEMMA ClusterQuiet ==
  ASSUME NEW n \in ScanInstances, Cluster(n)
  PROVE  caches' = caches /\ UNCHANGED worker
  BY DEF Cluster, UserCreate, UserDelete, JobStarts, JobBlocked, JobUnblocked,
     ImageMissing, ImageFound, JobFails, PreScanReports, JobSucceeds,
     JanitorRuns, JanitorExpires, RedisStarts, RedisRestarts, GarbageCollect,
     Becomes, Outside, caches

\* The informer of jobs shows what it showed, or what there is.
LEMMA NextLists ==
  ASSUME TypeOK, Next
  PROVE  Listed' \in {Listed, ScanningJobs}
  <1>1. CASE resCache' = resCache
    BY <1>1 DEF Listed
  <1>2. CASE Crash
    BY <1>2 DEF Crash, server, Listed, ScanningJobs
  <1>3. CASE \E i \in Informers : Deliver(i)
    <2>1. PICK i \in Informers : Deliver(i)
      BY <1>3
    <2>2. "scan" \in Kinds
      BY DEF Kinds, Jobs
    <2>3. \A n \in ScanInstances :
             resCache'[n]["scan"] = IF "scan" \in KindsOf(i) THEN res[n]["scan"]
                                                            ELSE resCache[n]["scan"]
      BY <2>1, <2>2 DEF Deliver
    <2> QED
      BY <2>3 DEF Listed, ScanningJobs
  <1>4. CASE \/ \E n \in ScanInstances : Start(n)
             \/ DeliverScanInstances \/ \E n \in ScanInstances : Cluster(n)
    <2>1. resCache' = resCache
      BY <1>4, ClusterQuiet DEF Start, DeliverScanInstances, caches
    <2> QED
      BY <1>1, <2>1
  <1>5. CASE WorkerStep
    BY <1>1, <1>5, WorkerReads DEF caches
  <1> QED
    BY <1>2, <1>3, <1>4, <1>5 DEF Next

-----------------------------------------------------------------------------
\* The jobs that keep the limit: those that no count has overlooked.
Heeded == ScanningJobs \ overlooked

\* A slot counted as free is still free when it is taken, but for what the count
\* did not see: one worker, and jobs that only finish meanwhile.
SlotsHeld ==
    /\ IsFiniteSet(ScanningJobs) /\ IsFiniteSet(Listed)
    /\ Cardinality(Heeded) <= MaxConcurrentScans
    /\ at \in Claiming => Cardinality(Heeded) < MaxConcurrentScans

LEMMA Fewer ==
  ASSUME NEW S, NEW T, IsFiniteSet(S), T \subseteq S
  PROVE  /\ IsFiniteSet(T) /\ Cardinality(T) \in Nat /\ Cardinality(S) \in Nat
         /\ Cardinality(T) <= Cardinality(S)
  BY FS_Subset, FS_CardinalityType

LEMMA OneMore ==
  ASSUME NEW S, NEW T, NEW x, IsFiniteSet(S), T \subseteq S \cup {x}
  PROVE  /\ IsFiniteSet(T) /\ Cardinality(T) \in Nat /\ Cardinality(S) \in Nat
         /\ Cardinality(T) <= Cardinality(S) + 1
  <1> DEFINE more == S \cup {x}
  <1>1. IsFiniteSet(more) /\ Cardinality(more) = IF x \in S THEN Cardinality(S)
                                                ELSE Cardinality(S) + 1
    BY FS_AddElement
  <1>2. Cardinality(S) \in Nat
    BY FS_CardinalityType
  <1>3. /\ IsFiniteSet(T) /\ Cardinality(T) \in Nat
        /\ Cardinality(T) <= Cardinality(more)
    BY <1>1, Fewer
  <1> QED
    BY <1>1, <1>2, <1>3

\* What the cached list counts.
LEMMA CountedJobs == ActiveScanJobs = Listed
  <1>1. \A s : JobStatus(s) = "InProgress" <=> s \notin {"succeeded", "failed"}
    BY DEF JobStatus
  <1> QED
    BY <1>1 DEF ActiveScanJobs, Listed

LEMMA HeldBy ==
  ASSUME SlotsHeld, MaxConcurrentScans # 0, Remember,
         TakesNone \/ Counts \/ TakesOne, Listed' \in {Listed, ScanningJobs}
  PROVE  SlotsHeld'
  <1>0. /\ overlooked \cap ScanningJobs' \subseteq overlooked'
        /\ MaxConcurrentScans \in Nat
    BY ConstantsAssumption DEF Remember
  <1>1. IsFiniteSet(ScanningJobs') /\ IsFiniteSet(Listed')
    <2>1. ScanningJobs' \subseteq ScanningJobs \cup {cur}
      BY DEF TakesNone, Counts, TakesOne, NoneAdded
    <2> QED
      BY <2>1, OneMore DEF SlotsHeld
  <1>2. IsFiniteSet(Heeded)
    BY Fewer DEF Heeded, SlotsHeld
  <1>3. CASE TakesNone
    <2>1. Heeded' \subseteq Heeded
      BY <1>0, <1>3 DEF Heeded, TakesNone, NoneAdded
    <2>2. /\ Cardinality(Heeded') \in Nat /\ Cardinality(Heeded) \in Nat
          /\ Cardinality(Heeded') <= Cardinality(Heeded)
      BY <1>2, <2>1, Fewer
    <2> QED
      BY <1>0, <1>1, <1>3, <2>2 DEF SlotsHeld, TakesNone
  <1>4. CASE Counts
    <2>1. Heeded' \subseteq Listed
      BY <1>0, <1>4 DEF Counts, NoneAdded, Remember, Counted, Heeded
    <2>2. Cardinality(Listed) < MaxConcurrentScans
      BY <1>4, CountedJobs DEF Counts, CanStartNewScan
    <2>3. /\ Cardinality(Heeded') \in Nat /\ Cardinality(Listed) \in Nat
          /\ Cardinality(Heeded') <= Cardinality(Listed)
      BY <2>1, Fewer DEF SlotsHeld
    <2>4. Cardinality(Heeded') < MaxConcurrentScans
      BY <1>0, <2>2, <2>3
    <2> QED
      BY <1>0, <1>1, <2>3, <2>4 DEF SlotsHeld
  <1>5. CASE TakesOne
    <2>1. Heeded' \subseteq Heeded \cup {cur}
      BY <1>0, <1>5 DEF Heeded, TakesOne
    <2>2. /\ Cardinality(Heeded') \in Nat /\ Cardinality(Heeded) \in Nat
          /\ Cardinality(Heeded') <= Cardinality(Heeded) + 1
      BY <1>2, <2>1, OneMore
    <2>3. Cardinality(Heeded) < MaxConcurrentScans
      BY <1>5 DEF TakesOne, SlotsHeld
    <2>4. Cardinality(Heeded') <= MaxConcurrentScans
      BY <1>0, <2>2, <2>3
    <2> QED
      BY <1>1, <1>5, <2>4 DEF SlotsHeld, TakesOne
  <1> QED
    BY <1>3, <1>4, <1>5

LEMMA HeldStep ==
  ASSUME TypeOK, SlotsHeld, MaxConcurrentScans # 0, HistoryNext
  PROVE  SlotsHeld'
  BY HeldBy, NextTakes, NextLists DEF HistoryNext

LEMMA HeldInit ==
  ASSUME Init, overlooked = {}
  PROVE  SlotsHeld
  <1>1. ScanningJobs = {} /\ Listed = {} /\ at \notin Claiming
    BY DEF Init, ScanningJobs, Listed, NoObject, Kinds, Jobs, Claiming
  <1>2. Heeded = {}
    BY <1>1 DEF Heeded
  <1> QED
    BY <1>1, <1>2, FS_EmptySet, ConstantsAssumption DEF SlotsHeld

LEMMA HistoryTyped == HistorySpec => []TypeOK
  <1>1. HistoryInit => TypeOK
    BY InitType DEF HistoryInit
  <1>2. TypeOK /\ [HistoryNext]_<<vars, memory>> => TypeOK'
    <2>1. TypeOK /\ UNCHANGED vars => TypeOK'
      BY DEF vars, TypeOK
    <2> QED
      BY <2>1, NextType DEF HistoryNext
  <1> QED
    BY <1>1, <1>2, PTL DEF HistorySpec

\* There are never more unfinished scan jobs than MAX_CONCURRENT_SCANS but for those
\* that were unfinished already when the slots were counted and that the cached list
\* did not show: however far any informer lags behind, whatever fails, and however
\* often the manager restarts between the count and the creation of a job.
THEOREM SlotsKept == HistorySpec => []SlotsOverlooked
  <1>1. CASE MaxConcurrentScans = 0
    <2>1. SlotsOverlooked
      BY <1>1 DEF SlotsOverlooked
    <2> QED
      BY <2>1, PTL
  <1>2. CASE MaxConcurrentScans # 0
    <2>1. HistoryInit => SlotsHeld
      BY HeldInit DEF HistoryInit
    <2>2. TypeOK /\ SlotsHeld /\ [HistoryNext]_<<vars, memory>> => SlotsHeld'
      <3>1. SlotsHeld /\ UNCHANGED <<vars, memory>> => SlotsHeld'
        BY DEF vars, memory, SlotsHeld, ScanningJobs, Listed, Heeded
      <3> QED
        BY <1>2, <3>1, HeldStep
    <2>3. SlotsHeld => SlotsOverlooked
      BY DEF SlotsHeld, Heeded, SlotsOverlooked
    <2> QED
      BY <2>1, <2>2, <2>3, HistoryTyped, PTL DEF HistorySpec
  <1> QED
    BY <1>1, <1>2

-----------------------------------------------------------------------------
(* Pre-scan jobs, when the informers of ScanInstances and of jobs do not lag. *)

\* A ScanInstance that stays until the controller removes it.
Protected(r) == r.incarnation # 0 /\ r.finalizer

\* Steps of a reconciliation that may go on without a finalizer.
Unprotected == {"idle", "addFinalizer", "cleanup", "removeFinalizer"}

\* A pre-scan job has a ScanInstance that stays, a reconciliation that may make
\* one too, and one that lets a ScanInstance go has deleted its job.
Cared ==
    /\ \A n \in ScanInstances :
          /\ si[n].deleting => si[n].finalizer
          /\ res[n]["preScan"] # NoObject =>
                Protected(si[n]) /\ res[n]["preScan"].state # "absent"
    /\ at \notin Unprotected => Protected(si[cur])
    /\ at = "removeFinalizer" => res[cur]["preScan"] = NoObject

SameHold(r, s) ==
    r.incarnation = s.incarnation /\ r.finalizer = s.finalizer
    /\ r.deleting = s.deleting

NoneOrphaned ==
    /\ cur' = cur
    /\ \A n \in ScanInstances :
          /\ SameHold(si'[n], si[n])
          /\ \/ res'[n]["preScan"] \in {res[n]["preScan"], NoObject}
             \/ /\ res[n]["preScan"] # NoObject
                /\ res'[n]["preScan"].state # "absent"
    /\ at' = "removeFinalizer" => at = "removeFinalizer"
    /\ at' \notin Unprotected => at \notin Unprotected

LEMMA CaredStays ==
  ASSUME TypeOK, Cared, NoneOrphaned
  PROVE  Cared'
  BY DEF TypeOK, Cared, NoneOrphaned, SameHold, Protected

LEMMA CaredGoto ==
  ASSUME NEW label, NEW c, Goto(label, c), label # "removeFinalizer"
  PROVE  cur' = cur /\ at' # "removeFinalizer"
  BY DEF Goto

LEMMA CaredAccepted ==
  ASSUME TypeOK, NEW r, SameHold(r, si[cur]), NEW label, label # "removeFinalizer",
         at \notin Unprotected, Accepted(r, label)
  PROVE  NoneOrphaned
  <1>1. si' = [si EXCEPT ![cur] = r] /\ res' = res /\ Goto(label, r)
    BY DEF Accepted
  <1>2. \A n \in ScanInstances : SameHold(si'[n], si[n])
    BY <1>1 DEF TypeOK, SameHold
  <1> QED
    BY <1>1, <1>2, CaredGoto DEF NoneOrphaned

LEMMA CaredQuiet ==
  ASSUME NEW label, label # "removeFinalizer", at \notin Unprotected,
         Move(label) \/ Refused
  PROVE  NoneOrphaned
  <1>1. si' = si /\ res' = res
    BY DEF Move, Refused, server
  <1>2. Goto(label, copy) \/ Goto("retry", copy)
    BY DEF Move, Refused
  <1> QED
    BY <1>1, <1>2, CaredGoto DEF NoneOrphaned, SameHold

LEMMA CaredPatch ==
  ASSUME TypeOK, NEW label, label # "removeFinalizer", at \notin Unprotected,
         \/ \E status : PatchStatus(status, label)
         \/ \E phase, status : PatchCondition(phase, status, label)
  PROVE  NoneOrphaned
  <1>0. si[cur] \in Record
    BY DEF TypeOK
  <1>1. CASE \E status : PatchStatus(status, label)
    <2>1. PICK status : PatchStatus(status, label)
      BY <1>1
    <2>2. /\ SameHold(si[cur], si[cur])
          /\ SameHold([si[cur] EXCEPT !.status = status], si[cur])
      BY <1>0 DEF SameHold, Record
    <2>3. CASE Refused
      BY <2>3, CaredQuiet
    <2>4. CASE Accepted(IF copy.status = status THEN si[cur]
                        ELSE [si[cur] EXCEPT !.status = status], label)
      BY <2>2, <2>4, CaredAccepted
    <2> QED
      BY <2>1, <2>3, <2>4 DEF PatchStatus
  <1>2. CASE \E phase, status : PatchCondition(phase, status, label)
    <2>1. PICK phase, status : PatchCondition(phase, status, label)
      BY <1>2
    <2> DEFINE r == [si[cur] EXCEPT !.conditions =
                        copy.conditions \cup {<<phase, status>>}]
    <2>2. SameHold(r, si[cur])
      BY <1>0 DEF SameHold, Record
    <2>3. CASE Move(label) \/ Refused
      BY <2>3, CaredQuiet
    <2>4. CASE Accepted(r, label)
      BY <2>2, <2>4, CaredAccepted
    <2> QED
      BY <2>1, <2>3, <2>4 DEF PatchCondition
  <1> QED
    BY <1>1, <1>2

LEMMA CaredCreate ==
  ASSUME TypeOK, NEW kind \in Kinds \ {"preScan"}, NEW state, NEW accepted,
         NEW exists, NEW rejected, at \notin Unprotected,
         "removeFinalizer" \notin {accepted, exists, rejected},
         Create(kind, state, accepted, exists, rejected)
  PROVE  NoneOrphaned
  <1>1. \A n \in ScanInstances : res'[n]["preScan"] = res[n]["preScan"]
    BY DEF TypeOK, Create, Move, server, Kinds, Jobs
  <1>2. \E l \in {accepted, exists, rejected} : Goto(l, copy)
    BY DEF Create, Move
  <1>3. si' = si
    BY DEF Create, Move, server
  <1> QED
    BY <1>1, <1>2, <1>3, CaredGoto DEF NoneOrphaned, SameHold

\* The steps of a reconciliation past the finalizer, but for the creation of the
\* pre-scan job.
LEMMA CaredStatus ==
  ASSUME TypeOK,
         \/ MarkQueued \/ MarkPreScanStarted \/ MarkPreScanInProgress
         \/ MarkPreScanRejected \/ MarkPreScanCompleted
         \/ MarkPreScanFailed \/ MarkPreScanRunning \/ MarkFailed
         \/ MarkNoVMs \/ MarkRedisGaveUp \/ MarkRedisStarted
         \/ MarkRedisReady \/ MarkRedisFailed
         \/ MarkScanRejected \/ MarkScanStarted \/ MarkScanRunning
         \/ MarkScanFailed
         \/ UpdateReport \/ MarkCompleted \/ MarkScanCompleted
  PROVE  NoneOrphaned
  <1>0. si[cur] \in Record
    BY DEF TypeOK
  <1>1. at \notin Unprotected
    BY DEF Unprotected, At, MarkQueued, MarkPreScanStarted, MarkPreScanInProgress,
       MarkPreScanRejected, MarkPreScanCompleted, MarkPreScanFailed,
       MarkPreScanRunning, MarkFailed, MarkNoVMs, MarkRedisGaveUp,
       MarkRedisStarted, MarkRedisReady, MarkRedisFailed, MarkScanRejected,
       MarkScanStarted, MarkScanRunning, MarkScanFailed, UpdateReport,
       MarkCompleted, MarkScanCompleted
  <1>2. CASE MarkQueued
    <2> DEFINE r == [si[cur] EXCEPT !.status = "Queued"]
    <2>1. SameHold(r, si[cur])
      BY <1>0 DEF SameHold, Record
    <2>2. Route(r) # "removeFinalizer"
      BY DEF Route
    <2>3. Accepted(r, Route(r)) \/ Refused
      BY <1>2 DEF MarkQueued
    <2> HIDE DEF r
    <2> QED
      BY <1>1, <2>1, <2>2, <2>3, CaredAccepted, CaredQuiet
  <1>3. CASE UpdateReport
    <2> DEFINE r == [si[cur] EXCEPT !.report = TRUE]
    <2>1. SameHold(r, si[cur])
      BY <1>0 DEF SameHold, Record
    <2>2. Accepted(r, "completedLocked") \/ Refused \/ Move("retry")
      BY <1>3 DEF UpdateReport, AtVersion
    <2> HIDE DEF r
    <2> QED
      BY <1>1, <2>1, <2>2, CaredAccepted, CaredQuiet
  <1>4. CASE \/ MarkPreScanStarted \/ MarkPreScanInProgress
             \/ MarkPreScanRejected \/ MarkPreScanCompleted \/ MarkPreScanFailed
    BY <1>1, <1>4, CaredPatch, CaredQuiet
    DEF MarkPreScanStarted, MarkPreScanInProgress, MarkPreScanRejected,
        MarkPreScanCompleted, MarkPreScanFailed
  <1>5. CASE MarkPreScanRunning \/ MarkScanRunning \/ MarkFailed
    <2>1. PICK next \in {"idle", "retry", "preScanFailed", "scanFailed"} :
             Move(next) \/ \E status : PatchStatus(status, next)
      BY <1>5 DEF MarkPreScanRunning, MarkScanRunning, MarkFailed
    <2> QED
      BY <1>1, <2>1, CaredPatch, CaredQuiet
  <1>6. CASE MarkNoVMs \/ MarkRedisGaveUp \/ MarkRedisStarted \/ MarkRedisReady
             \/ MarkRedisFailed
    BY <1>1, <1>6, CaredPatch, CaredQuiet
    DEF MarkNoVMs, MarkRedisGaveUp, MarkRedisStarted, MarkRedisReady,
        MarkRedisFailed
  <1>7. CASE MarkScanRejected \/ MarkScanStarted \/ MarkScanFailed
    BY <1>1, <1>7, CaredPatch, CaredQuiet
    DEF MarkScanRejected, MarkScanStarted, MarkScanFailed
  <1>8. CASE MarkCompleted \/ MarkScanCompleted
    <2>1. \/ PatchStatus("Completed", "scanCompleted")
          \/ PatchCondition("Scanning", "Completed", "janitor")
          \/ Move("retry")
      BY <1>8 DEF MarkCompleted, MarkScanCompleted, AtVersion
    <2> QED
      BY <1>1, <2>1, CaredPatch, CaredQuiet
  <1> QED
    BY <1>2, <1>3, <1>4, <1>5, <1>6, <1>7, <1>8

LEMMA CaredObjects ==
  ASSUME TypeOK,
         \/ ReadPreScanJob \/ ReconcileScanPhase
         \/ CreateRedisDeployment \/ RefetchRedisDeployment
         \/ CreateRedisService \/ RefetchRedisService
         \/ CreateScanConfigMap \/ CreateScanSecret \/ CreateScanJob
         \/ CreateJanitorJob
  PROVE  NoneOrphaned
  <1>1. at \notin Unprotected
    BY DEF Unprotected, At, ReadPreScanJob, ReconcileScanPhase,
       CreateRedisDeployment, RefetchRedisDeployment, CreateRedisService,
       RefetchRedisService, CreateScanConfigMap, CreateScanSecret, CreateScanJob,
       CreateJanitorJob
  <1>2. {"scan", "janitor", "redis", "service", "configMap", "secret"}
           \subseteq Kinds \ {"preScan"}
    BY DEF Kinds, Jobs
  <1>3. CASE ReadPreScanJob
    <2>1. PICK label : Move(label) /\ label # "removeFinalizer"
      BY <1>3 DEF ReadPreScanJob
    <2> QED
      BY <1>1, <2>1, CaredQuiet
  <1>4. CASE ReconcileScanPhase
    <2>1. /\ \A s : ScanJobRoute(copy, s) # "removeFinalizer"
          /\ BeforeScan(copy) # "removeFinalizer"
      BY DEF ScanJobRoute, BeforeScan, RedisRoute
    <2>2. PICK label : Move(label) /\ label # "removeFinalizer"
      BY <1>4, <2>1 DEF ReconcileScanPhase
    <2> QED
      BY <1>1, <2>2, CaredQuiet
  <1>5. RedisFound # "removeFinalizer" /\ ServiceFound(at) # "removeFinalizer"
    BY DEF RedisFound, ServiceFound
  <1>6. CASE CreateRedisDeployment \/ RefetchRedisDeployment
    BY <1>1, <1>2, <1>5, <1>6, CaredQuiet, CaredCreate
    DEF CreateRedisDeployment, RefetchRedisDeployment
  <1>7. CASE CreateRedisService \/ RefetchRedisService
    <2>1. "removeFinalizer" \notin
             {ServiceFound(at), IF at = "service" THEN "serviceExists" ELSE
                 "serviceReadyExists", "redisFailed"}
      BY <1>5
    <2> QED
      BY <1>1, <1>2, <1>5, <1>7, <2>1, CaredQuiet, CaredCreate
      DEF CreateRedisService, RefetchRedisService
  <1>8. CASE CreateScanConfigMap \/ CreateScanSecret
    BY <1>1, <1>2, <1>8, CaredCreate DEF CreateScanConfigMap, CreateScanSecret
  <1>9. CASE CreateScanJob \/ CreateJanitorJob
    BY <1>1, <1>2, <1>9, CaredQuiet, CaredCreate DEF CreateScanJob, CreateJanitorJob
  <1> QED
    BY <1>3, <1>4, <1>6, <1>7, <1>8, <1>9

\* The steps at the finalizer, and the creation of the pre-scan job, rely on what
\* they read.
FreshForJobs == "ScanInstance" \notin Lagging /\ "Job" \notin Lagging

LEMMA FreshReads ==
  ASSUME FreshForJobs, NEW label, At(label)
  PROVE  /\ siCache = si
         /\ \A n \in ScanInstances : resCache[n]["preScan"] = res[n]["preScan"]
  BY DEF FreshForJobs, At, CaughtUp, Informers, KindsOf, Jobs

LEMMA CaredFinalizer ==
  ASSUME TypeOK, Cared, FreshForJobs,
         AddFinalizer \/ Cleanup \/ RemoveFinalizer \/ CreatePreScanJob
  PROVE  Cared'
  <1>0. /\ si \in [ScanInstances -> Record] /\ cur \in ScanInstances
        /\ res \in [ScanInstances -> [Kinds -> Object]]
        /\ "preScan" \in Kinds
    BY DEF TypeOK, Kinds, Jobs
  <1>1. CASE AddFinalizer
    <2> DEFINE r == [si[cur] EXCEPT !.finalizer = TRUE]
    <2>1. siCache[cur] = si[cur] /\ at = "addFinalizer"
      BY <1>1, FreshReads DEF AddFinalizer, At
    <2>2. /\ r.finalizer /\ r.incarnation = si[cur].incarnation
          /\ r.deleting = si[cur].deleting
      BY <1>0 DEF Record
    <2>3. AfterFinalizer(r) # "removeFinalizer"
      BY DEF AfterFinalizer, Route
    <2>4. Accepted(r, AfterFinalizer(r)) \/ Refused
      BY <1>1, <2>1 DEF AddFinalizer, AtVersion
    <2> HIDE DEF r
    <2>5. CASE Accepted(r, AfterFinalizer(r))
      <3>1. /\ si' = [si EXCEPT ![cur] = r] /\ res' = res /\ cur' = cur
            /\ at' # "removeFinalizer" /\ si[cur].incarnation # 0
        BY <2>3, <2>5, CaredGoto DEF Accepted
      <3> QED
        BY <1>0, <2>2, <3>1 DEF Cared, Protected
    <2>6. CASE Refused
      <3>1. /\ si' = si /\ res' = res /\ cur' = cur /\ at' = "idle"
        BY <2>6 DEF Refused, Goto, server
      <3> QED
        BY <3>1 DEF Cared, Unprotected
    <2> QED
      BY <2>4, <2>5, <2>6
  <1>2. CASE Cleanup
    <2>1. \A n \in ScanInstances : resCache[n]["preScan"] = res[n]["preScan"]
      BY <1>2, FreshReads DEF Cleanup
    <2>2. PICK last \in 0..Len(CleanupOrder) :
             /\ res' = Deleted(cur, {k \in {CleanupOrder[i] : i \in 1..last} :
                                        Cached(k) # "absent"})
             /\ \/ last = Len(CleanupOrder) /\ Goto("removeFinalizer", copy)
                \/ Goto("retry", copy)
      BY <1>2 DEF Cleanup
    <2>3. si' = si /\ cur' = cur /\ at' \in {"removeFinalizer", "idle"}
      BY <1>2, <2>2 DEF Cleanup, Goto
    <2>4. \A n \in ScanInstances :
             res'[n]["preScan"] \in {res[n]["preScan"], NoObject}
      BY <1>0, <2>2 DEF Deleted
    <2>5. ASSUME at' = "removeFinalizer"
          PROVE  res'[cur]["preScan"] = NoObject
      <3>1. last = 6
        BY <2>2, <2>5 DEF Goto, CleanupOrder
      <3>2. "preScan" \in {CleanupOrder[i] : i \in 1..last}
        BY <3>1 DEF CleanupOrder
      <3>3. CASE Cached("preScan") # "absent"
        BY <1>0, <2>2, <3>2, <3>3 DEF Deleted
      <3>4. CASE Cached("preScan") = "absent"
        <4>1. res[cur]["preScan"].state = "absent"
          BY <1>0, <2>1, <3>4 DEF Cached
        <4> QED
          BY <1>0, <2>4, <4>1 DEF Cared
      <3> QED
        BY <3>3, <3>4
    <2> QED
      BY <1>0, <2>3, <2>4, <2>5 DEF Cared, Unprotected
  <1>3. CASE RemoveFinalizer
    <2>1. siCache[cur] = si[cur] /\ at = "removeFinalizer"
      BY <1>3, FreshReads DEF RemoveFinalizer, At
    <2>2. res[cur]["preScan"] = NoObject
      BY <2>1 DEF Cared
    <2> DEFINE r == IF si[cur].deleting THEN NoRecord
                    ELSE [si[cur] EXCEPT !.finalizer = FALSE]
    <2>3. ~r.deleting
      BY <1>0 DEF NoRecord, Record
    <2>4. Move("idle") \/ Accepted(r, "idle") \/ Refused
      BY <1>3, <2>1 DEF RemoveFinalizer, AtVersion
    <2> HIDE DEF r
    <2>5. /\ si' = si \/ si' = [si EXCEPT ![cur] = r]
          /\ res' = res /\ cur' = cur /\ at' = "idle"
      BY <2>4 DEF Move, Accepted, Refused, Goto, server
    <2> QED
      BY <1>0, <2>2, <2>3, <2>5 DEF Cared, Unprotected
  <1>4. CASE CreatePreScanJob
    <2>1. at = "createPreScanJob" /\ Protected(si[cur])
      BY <1>4 DEF CreatePreScanJob, At, Cared, Unprotected
    <2>2. /\ si' = si
          /\ \A n \in ScanInstances \ {cur} : res'[n] = res[n]
      BY <1>0, <1>4 DEF CreatePreScanJob, Create, Move, server
    <2>3. cur' = cur /\ at' \in {"idle", "preScanRejected"}
      BY <1>4 DEF CreatePreScanJob, Create, Move, Goto
    <2>4. \/ res'[cur]["preScan"] = res[cur]["preScan"]
          \/ res'[cur]["preScan"].state = "new" /\ NoObject.state = "absent"
      BY <1>0, <1>4 DEF CreatePreScanJob, Create, Move, server, NoObject
    <2> QED
      BY <1>0, <2>1, <2>2, <2>3, <2>4 DEF Cared, Unprotected
  <1> QED
    BY <1>1, <1>2, <1>3, <1>4

LEMMA CaredManager ==
  ASSUME TypeOK, Cared, FreshForJobs,
         \/ \E n \in ScanInstances : Start(n)
         \/ DeliverScanInstances \/ (\E i \in Informers : Deliver(i)) \/ Crash
  PROVE  Cared'
  <1>1. CASE \E n \in ScanInstances : Start(n)
    <2>1. PICK n \in ScanInstances : Start(n)
      BY <1>1
    <2>2. si' = si /\ res' = res /\ cur' = n /\ at' = FirstStep(si[n])
      BY <2>1, FreshReads DEF Start, server
    <2>3. FirstStep(si[n]) \notin Unprotected => Protected(si[n])
      BY DEF Cared, FirstStep, Unprotected, Protected
    <2>4. FirstStep(si[n]) # "removeFinalizer"
      BY DEF FirstStep, AfterFinalizer, Route
    <2> QED
      BY <2>2, <2>3, <2>4 DEF Cared
  <1>2. CASE DeliverScanInstances \/ (\E i \in Informers : Deliver(i)) \/ Crash
    BY <1>2 DEF Cared, DeliverScanInstances, Deliver, Crash, server, worker,
                Unprotected
  <1> QED
    BY <1>1, <1>2

\* Around the manager: users take away only what has no finalizer, and jobs are
\* not made.
LEMMA CaredCluster ==
  ASSUME TypeOK, Cared, NEW n \in ScanInstances, Cluster(n)
  PROVE  Cared'
  <1>0. /\ si \in [ScanInstances -> Record] /\ cur \in ScanInstances
        /\ res \in [ScanInstances -> [Kinds -> Object]]
        /\ "preScan" \in Kinds /\ NoObject.state = "absent"
    BY DEF TypeOK, Kinds, Jobs, NoObject
  <1>1. cur' = cur /\ at' = at
    BY DEF Cluster, UserCreate, UserDelete, JobStarts, JobBlocked, JobUnblocked,
       ImageMissing, ImageFound, JobFails, PreScanReports, JobSucceeds,
       JanitorRuns, JanitorExpires, RedisStarts, RedisRestarts, GarbageCollect,
       Becomes, Outside, worker
  <1>2. CASE UserCreate(n)
    <2> DEFINE r == [NoRecord EXCEPT !.incarnation = created[n] + 1]
    <2>1. /\ si' = [si EXCEPT ![n] = r] /\ res' = res /\ si[n].incarnation = 0
          /\ ~r.deleting
      BY <1>2 DEF UserCreate, NoRecord
    <2> HIDE DEF r
    <2> QED
      BY <1>0, <1>1, <2>1 DEF Cared, Protected
  <1>3. CASE UserDelete(n)
    <2>1. CASE si[n].finalizer
      <3> DEFINE r == [si[n] EXCEPT !.deleting = TRUE]
      <3>1. si' = [si EXCEPT ![n] = r] /\ res' = res
        BY <1>3, <2>1 DEF UserDelete
      <3>2. r.finalizer /\ r.incarnation = si[n].incarnation
        BY <1>0, <2>1 DEF Record
      <3> HIDE DEF r
      <3> QED
        BY <1>0, <1>1, <2>1, <3>1, <3>2 DEF Cared, Protected
    <2>2. CASE ~si[n].finalizer
      <3>1. si' = [si EXCEPT ![n] = NoRecord] /\ res' = res /\ ~NoRecord.deleting
        BY <1>3, <2>2 DEF UserDelete, NoRecord
      <3> QED
        BY <1>0, <1>1, <2>2, <3>1 DEF Cared, Protected
    <2> QED
      BY <2>1, <2>2
  <1>4. ASSUME NEW k, NEW from, NEW to, Becomes(n, k, from, to), "absent" \notin from,
               to # "absent"
        PROVE  Cared'
    <2>1. si' = si /\ res[n][k].state # "absent"
      BY <1>4 DEF Becomes
    <2> DEFINE o == [res[n][k] EXCEPT !.state = to]
    <2>2. k = "preScan" => o.state = to
      BY <1>0 DEF Object
    <2>3. res' = [res EXCEPT ![n] = [res[n] EXCEPT ![k] = o]]
      BY <1>4 DEF Becomes
    <2> HIDE DEF o
    <2>4. ASSUME NEW m \in ScanInstances
          PROVE  \/ res'[m]["preScan"] = res[m]["preScan"]
                 \/ /\ res[m]["preScan"] # NoObject
                    /\ res'[m]["preScan"].state # "absent"
      BY <1>0, <1>4, <2>1, <2>2, <2>3
    <2> QED
      BY <1>1, <2>1, <2>4, CaredStays DEF NoneOrphaned, SameHold
  <1>5. CASE \/ \E k \in Jobs :
                  \/ JobStarts(n, k) \/ JobBlocked(n, k) \/ JobUnblocked(n, k)
                  \/ ImageMissing(n, k) \/ ImageFound(n, k) \/ JobFails(n, k)
             \/ JobSucceeds(n) \/ RedisStarts(n)
    <2>1. PICK k, from, to :
             /\ Becomes(n, k, from, to)
             /\ from \in {{"new"}, {"blocked"}, {"blocked", "overdue"}, {"active"},
                          {"badImage"}, {"active", "reported"}, {"reported"},
                          {"starting"}}
             /\ to # "absent"
      BY <1>5 DEF JobStarts, JobBlocked, JobUnblocked, ImageMissing, ImageFound,
                  JobFails, JobSucceeds, RedisStarts
    <2>2. "absent" \notin from
      BY <2>1
    <2> QED
      BY <1>4, <2>1, <2>2
  <1>6. CASE PreScanReports(n)
    <2>1. res[n]["preScan"] # NoObject /\ si[n].incarnation # 0
      BY <1>0, <1>6 DEF PreScanReports, Cared, Protected
    <2>2. PICK l : si' = [si EXCEPT ![n] = [si[n] EXCEPT !.locations = l]]
      BY <1>6, <2>1 DEF PreScanReports
    <2>3. \A m \in ScanInstances : SameHold(si'[m], si[m])
      BY <1>0, <2>2 DEF SameHold, Record
    <2>4. PICK o : /\ res' = [res EXCEPT ![n] = [res[n] EXCEPT !["preScan"] = o]]
                   /\ o.state # "absent"
      <3>1. res' = [res EXCEPT ![n] = [res[n] EXCEPT !["preScan"] =
                       [res[n]["preScan"] EXCEPT !.state = "reported"]]]
        BY <1>6, <2>1 DEF PreScanReports
      <3>2. [res[n]["preScan"] EXCEPT !.state = "reported"].state = "reported"
        BY <1>0 DEF Object
      <3> QED
        BY <3>1, <3>2
    <2>5. \A m \in ScanInstances :
             \/ res'[m]["preScan"] = res[m]["preScan"]
             \/ m = n /\ res'[m]["preScan"].state # "absent"
      BY <1>0, <2>4
    <2> QED
      BY <1>1, <2>1, <2>3, <2>5, CaredStays DEF NoneOrphaned
  <1>7. CASE JanitorRuns(n) \/ JanitorExpires(n) \/ RedisRestarts(n)
             \/ \E k \in Kinds : GarbageCollect(n, k)
    <2>1. si' = si
      BY <1>7 DEF JanitorRuns, JanitorExpires, RedisRestarts, GarbageCollect, Outside
    <2>2. \A m \in ScanInstances :
             res'[m]["preScan"] \in {res[m]["preScan"], NoObject}
      <3>1. CASE JanitorRuns(n)
        <4>1. PICK kinds : JanitorDone(n, kinds)
          BY <3>1 DEF JanitorRuns
        <4> DEFINE left == [k \in Kinds |-> IF k \in kinds THEN NoObject
                                                           ELSE res[n][k]]
        <4>2. /\ left \in [Kinds -> Object]
              /\ left["preScan"] \in {res[n]["preScan"], NoObject}
          BY <1>0, NoObjectType
        <4>3. Deleted(n, kinds) = [res EXCEPT ![n] = left]
          BY DEF Deleted
        <4> HIDE DEF left
        <4>4. PICK o : res' = [res EXCEPT ![n] = [left EXCEPT !["janitor"] = o]]
          <5>1. res' = [res EXCEPT ![n] = [left EXCEPT !["janitor"] =
                           [left["janitor"] EXCEPT !.state = "succeeded"]]]
            BY <1>0, <4>1, <4>3 DEF JanitorDone
          <5> QED
            BY <5>1
        <4> QED
          BY <1>0, <4>2, <4>4
      <3>2. CASE RedisRestarts(n)
        <4>1. PICK o : res' = [res EXCEPT ![n] = [res[n] EXCEPT !["redis"] = o]]
          <5>1. res' = [res EXCEPT ![n] = [res[n] EXCEPT !["redis"] =
                           [res[n]["redis"] EXCEPT !.state = "starting"]]]
            BY <3>2 DEF RedisRestarts
          <5> QED
            BY <5>1
        <4> QED
          BY <1>0, <4>1
      <3>3. CASE JanitorExpires(n) \/ \E k \in Kinds : GarbageCollect(n, k)
        <4>1. PICK k : res' = [res EXCEPT ![n] = [res[n] EXCEPT ![k] = NoObject]]
          BY <3>3 DEF JanitorExpires, GarbageCollect
        <4> QED
          BY <1>0, <4>1
      <3> QED
        BY <1>7, <3>1, <3>2, <3>3
    <2> QED
      BY <1>1, <2>1, <2>2, CaredStays DEF NoneOrphaned, SameHold
  <1> QED
    BY <1>2, <1>3, <1>5, <1>6, <1>7 DEF Cluster

LEMMA CaredInit ==
  ASSUME Init
  PROVE  Cared
  <1>1. "preScan" \in Kinds /\ ~NoRecord.deleting
    BY DEF Kinds, Jobs, NoRecord
  <1> QED
    BY <1>1 DEF Init, Cared, Unprotected

LEMMA CaredStep ==
  ASSUME TypeOK, Cared, FreshForJobs, Next
  PROVE  Cared'
  BY CaredStatus, CaredObjects, CaredStays, CaredFinalizer, CaredManager, CaredCluster
  DEF Next, WorkerStep

LEMMA CaredAlways == FreshForJobs => (Spec => []Cared)
  <1> SUFFICES ASSUME FreshForJobs
               PROVE  Spec => []Cared
    OBVIOUS
  <1>1. Cared /\ UNCHANGED vars => Cared'
    BY DEF vars, Cared
  <1>2. TypeOK /\ Cared /\ [Next]_vars => Cared'
    BY <1>1, CaredStep
  <1> QED
    BY <1>2, CaredInit, TypeCorrect, PTL DEF Spec

\* If the informers of ScanInstances and of jobs are not behind, no pre-scan job
\* outlives its ScanInstance, whatever fails, wherever the manager is killed and
\* whenever users delete a ScanInstance and create it again.
THEOREM NoOrphans == FreshForJobs => (Spec => []NoOrphanJob)
  <1>1. Cared => NoOrphanJob
    BY DEF Cared, Protected, NoOrphanJob
  <1> QED
    BY <1>1, CaredAlways, PTL

=============================================================================
