------------------------ MODULE PeriodicJanitorSafety ------------------------
(***************************************************************************)
(* What the sweeps of the periodic janitor take, and what the controller   *)
(* guarantees although they go on beside it.                               *)
(***************************************************************************)
EXTENDS PeriodicJanitor, ScanInstanceFresh

-----------------------------------------------------------------------------
(* What a sweep remembers of the list it has read.                         *)

\* A name is used again only by a ScanInstance that is none of those before, and
\* as long as it is not, the ScanInstance listed is still a failed one.
Remembered(item) ==
    /\ item[1] \in ScanInstances
    /\ item[2] \in 1..created[item[1]]
    /\ si[item[1]].incarnation = item[2] => si[item[1]].status = "Failed"

Remembering ==
    /\ \A n \in ScanInstances : si[n].incarnation <= created[n]
    /\ \A item \in listed : Remembered(item)
    /\ swept # None => Remembered(swept)

\* A name keeps its ScanInstance, loses it, or gets one of a new incarnation.
Renewed(n) ==
    \/ created'[n] = created[n] /\ si'[n].incarnation \in {0, si[n].incarnation}
    \/ created'[n] = created[n] + 1 /\ si'[n].incarnation = created[n] + 1

LEMMA ClusterRenews ==
  ASSUME TypeOK, NEW m \in ScanInstances, Cluster(m), NEW n \in ScanInstances
  PROVE  Renewed(n)
  <1>0. /\ si \in [ScanInstances -> Record] /\ created \in [ScanInstances -> 0..MaxIncarnations]
        /\ created[n] \in Nat
    BY ConstantsAssumption DEF TypeOK
  <1>1. CASE UserCreate(m)
    <2> DEFINE i == created[m] + 1
               r == [NoRecord EXCEPT !.incarnation = i]
    <2>1. /\ si' = [si EXCEPT ![m] = r]
          /\ created' = [created EXCEPT ![m] = i]
      BY <1>1 DEF UserCreate
    <2>2. r.incarnation = i
      BY DEF NoRecord
    <2>3. i = created[m] + 1
      OBVIOUS
    <2> HIDE DEF r, i
    <2> QED
      BY <1>0, <2>1, <2>2, <2>3 DEF Renewed
  <1>2. CASE UserDelete(m)
    <2> DEFINE r == IF si[m].finalizer THEN [si[m] EXCEPT !.deleting = TRUE] ELSE NoRecord
    <2>1. si' = [si EXCEPT ![m] = r] /\ created' = created
      BY <1>2 DEF UserDelete
    <2>2. r.incarnation \in {0, si[m].incarnation}
      BY <1>0 DEF NoRecord, Record
    <2> HIDE DEF r
    <2> QED
      BY <1>0, <2>1, <2>2 DEF Renewed
  <1>3. CASE PreScanReports(m)
    <2>1. created' = created
      BY <1>3 DEF PreScanReports
    <2>2. CASE si' = si
      BY <2>1, <2>2 DEF Renewed
    <2>3. ASSUME NEW l, si' = [si EXCEPT ![m] = [si[m] EXCEPT !.locations = l]]
          PROVE  Renewed(n)
      <3> DEFINE r == [si[m] EXCEPT !.locations = l]
      <3>1. r.incarnation = si[m].incarnation
        BY <1>0 DEF Record
      <3> HIDE DEF r
      <3> QED
        BY <1>0, <2>1, <2>3, <3>1 DEF Renewed, r
    <2> QED
      BY <1>3, <2>2, <2>3 DEF PreScanReports
  <1>4. CASE UNCHANGED <<si, created>>
    BY <1>4 DEF Renewed
  <1>5. CASE \E k \in Jobs : \/ JobStarts(m, k) \/ JobBlocked(m, k) \/ JobUnblocked(m, k)
                             \/ ImageMissing(m, k) \/ ImageFound(m, k) \/ JobFails(m, k)
    BY <1>4, <1>5 DEF JobStarts, JobBlocked, JobUnblocked, ImageMissing, ImageFound,
       JobFails, Becomes
  <1>6. CASE JobSucceeds(m) \/ RedisStarts(m)
    BY <1>4, <1>6 DEF JobSucceeds, RedisStarts, Becomes
  <1>7. CASE JanitorRuns(m) \/ JanitorExpires(m) \/ RedisRestarts(m)
             \/ \E k \in Kinds : GarbageCollect(m, k)
    BY <1>4, <1>7 DEF JanitorRuns, JanitorExpires, RedisRestarts, GarbageCollect
  <1> QED
    BY <1>1, <1>2, <1>3, <1>5, <1>6, <1>7 DEF Cluster

LEMMA NextRenews ==
  ASSUME Story, Fresh, Next, NEW n \in ScanInstances
  PROVE  Renewed(n)
  <1>0. /\ TypeOK /\ InHand /\ si \in [ScanInstances -> Record] /\ cur \in ScanInstances
    BY DEF Story, TypeOK
  <1>1. CASE WorkerStep
    <2>1. created' = created
      BY <1>1, WorkerLeaves
    <2>2. CASE at \notin Unprotected
      <3>1. PICK to, s : Flow(to, s) /\ Went(to, s)
        BY <1>0, <1>1, <2>2, WorkerFlows DEF Flows
      <3>2. /\ Kept(si[cur], s) /\ si'[cur] = s
            /\ n # cur => si'[n] = si[n]
        BY <1>0, <1>1, <2>2, <3>1, FlowsKept
      <3> QED
        BY <2>1, <3>2 DEF Kept, Renewed
    <2>3. CASE si' = si
      BY <2>1, <2>3 DEF Renewed
    <2>4. ASSUME NEW r, r = [si[cur] EXCEPT !.finalizer = TRUE] \/ r = NoRecord,
                 si' = [si EXCEPT ![cur] = r]
          PROVE  Renewed(n)
      <3>1. /\ si[cur] \in Record /\ NoRecord.incarnation = 0
            /\ [si[cur] EXCEPT !.finalizer = TRUE].incarnation = si[cur].incarnation
        BY <1>0 DEF Record, NoRecord
      <3> QED
        <4>1. r.incarnation \in {0, si[cur].incarnation}
          BY <2>4, <3>1
        <4>2. si'[n].incarnation \in {0, si[n].incarnation}
          BY <1>0, <2>4, <4>1
        <4> QED
          BY <2>1, <4>2 DEF Renewed
    <2>5. CASE AddFinalizer
      BY <1>0, <2>3, <2>4, <2>5, AddFinalizerWrites
    <2>6. CASE Cleanup
      BY <2>3, <2>6 DEF Cleanup
    <2>7. CASE RemoveFinalizer
      BY <1>0, <2>3, <2>4, <2>7, RemoveFinalizerWrites
    <2> QED
      BY <1>1, <2>2, <2>5, <2>6, <2>7, AtTheFinalizer
  <1>2. CASE \/ \E m \in ScanInstances : Start(m)
             \/ DeliverScanInstances \/ (\E i \in Informers : Deliver(i)) \/ Crash
    BY <1>2 DEF Start, DeliverScanInstances, Deliver, Crash, server, bounds, Renewed
  <1>3. CASE \E m \in ScanInstances : Cluster(m)
    BY <1>0, <1>3, ClusterRenews
  <1> QED
    BY <1>1, <1>2, <1>3 DEF Next

\* Whatever a step does to the ScanInstances, what is remembered stays true.
LEMMA RememberedStays ==
  ASSUME Story, Remembering, NEW item, Remembered(item),
         \A n \in ScanInstances : Renewed(n) /\ ~Forgets(n)
  PROVE  Remembered(item)'
  <1> DEFINE n == item[1]
             i == item[2]
  <1>1. /\ n \in ScanInstances /\ created[n] \in Nat /\ i \in 1..created[n]
        /\ si[n].incarnation = i => si[n].status = "Failed"
    BY ConstantsAssumption DEF Remembered, Story, TypeOK
  <1>2. Renewed(n) /\ ~Forgets(n)
    BY <1>1
  <1> HIDE DEF n, i
  <1>3. i \in 1..created'[n]
    BY <1>1, <1>2 DEF Renewed
  <1>4. si'[n].incarnation = i => si'[n].status = "Failed"
    BY <1>1, <1>2 DEF Renewed, Forgets, Terminal
  <1> QED
    BY <1>1, <1>3, <1>4 DEF Remembered, n, i

-----------------------------------------------------------------------------
(* Steps of a sweep leave everything but the objects alone.                *)

Beside == UNCHANGED <<si, caches, queue, worker, bounds>>

\* Objects only disappear.
TakesAway ==
    \A n \in ScanInstances, k \in Kinds : res'[n][k] \in {res[n][k], NoObject}

LEMMA SweepTakesAway ==
  ASSUME TypeOK, Sweep \/ SweepKilled
  PROVE  Beside /\ TakesAway /\ TypeOK'
  <1>0. res \in [ScanInstances -> [Kinds -> Object]]
    BY DEF TypeOK
  <1>1. CASE UNCHANGED vars
    <2>1. Beside /\ res' = res
      BY <1>1 DEF vars, Beside, caches, worker, bounds
    <2> QED
      BY <1>1, <2>1 DEF TakesAway, TypeOK, vars
  <1>2. CASE SweepDeletes
    <2> DEFINE n == swept[1]
               kind == SweepOrder[next]
    <2>1. Beside
      BY <1>2 DEF SweepDeletes, Beside, bounds
    <2>2. res' = res \/ res' = Deleted(n, {kind})
      BY <1>2 DEF SweepDeletes
    <2> HIDE DEF n, kind
    <2>3. /\ TakesAway /\ res' \in [ScanInstances -> [Kinds -> Object]]
      BY <1>0, <2>2, NoObjectType DEF Deleted, TakesAway
    <2> QED
      BY <2>1, <2>3 DEF TypeOK, Beside, caches, worker, bounds
  <1> QED
    BY <1>1, <1>2 DEF Sweep, SweepStarts, SweepTakes, SweepGoesOn, SweepKilled

LEMMA SweepStory ==
  ASSUME Story, Beside, TypeOK'
  PROVE  Story'
  BY DEF Story, InHand, Told, Beside, worker

\* What is listed is what the API server shows.
LEMMA ListedRemembered ==
  ASSUME Story, Remembering, NEW item \in FailedScanInstances
  PROVE  Remembered(item)
  <1>1. PICK n \in ScanInstances : /\ si[n].status = "Failed"
                                   /\ item = <<n, si[n].incarnation>>
    BY DEF FailedScanInstances
  <1>2. si[n].incarnation # 0 /\ si[n].incarnation \in Nat
    BY <1>1 DEF Story, InHand, TypeOK, Record
  <1>3. si[n].incarnation <= created[n] /\ created[n] \in Nat
    BY ConstantsAssumption DEF Remembering, Story, TypeOK
  <1>4. item[1] = n /\ item[2] = si[n].incarnation
    BY <1>1
  <1> QED
    BY <1>1, <1>2, <1>3, <1>4 DEF Remembered

LEMMA SweepRemembers ==
  ASSUME Story, Remembering, Sweep \/ SweepKilled
  PROVE  Remembering'
  <1>1. si' = si /\ created' = created
    BY SweepTakesAway DEF Story, Beside, bounds
  <1>2. \A item : Remembered(item)' <=> Remembered(item)
    BY <1>1 DEF Remembered
  <1>3. \A n \in ScanInstances : si'[n].incarnation <= created'[n]
    BY <1>1 DEF Remembering
  <1>4. CASE SweepStarts
    BY <1>2, <1>3, <1>4, ListedRemembered DEF SweepStarts, Remembering
  <1>5. CASE SweepTakes
    BY <1>2, <1>3, <1>5 DEF SweepTakes, Remembering
  <1>6. CASE SweepDeletes \/ SweepGoesOn \/ SweepKilled
    BY <1>2, <1>3, <1>6 DEF SweepDeletes, SweepGoesOn, SweepKilled, Remembering
  <1> QED
    BY <1>4, <1>5, <1>6 DEF Sweep

LEMMA NextRemembers ==
  ASSUME Story, Remembering, Fresh, Next, UNCHANGED sweepVars
  PROVE  Remembering'
  <1>1. \A n \in ScanInstances : Renewed(n) /\ ~Forgets(n)
    BY NextRenews, NothingForgotten
  <1>2. \A item : Remembered(item) => Remembered(item)'
    BY <1>1, RememberedStays
  <1>3. ASSUME NEW n \in ScanInstances
        PROVE  si'[n].incarnation <= created'[n]
    <2>1. si[n].incarnation <= created[n] /\ created[n] \in Nat /\ si[n].incarnation \in Nat
      BY ConstantsAssumption DEF Remembering, Story, TypeOK, Record
    <2> QED
      BY <1>1, <2>1 DEF Renewed
  <1> QED
    BY <1>2, <1>3 DEF Remembering, sweepVars

LEMMA StoryBeside == Fresh => (SweepSpec => [](Story /\ Remembering))
  <1> SUFFICES ASSUME Fresh
               PROVE  SweepSpec => [](Story /\ Remembering)
    OBVIOUS
  <1>1. SweepInit => Story /\ Remembering
    <2> SUFFICES ASSUME SweepInit
                 PROVE  Story /\ Remembering
      OBVIOUS
    <2>1. Story
      BY StoryInit, InitType DEF SweepInit, Story
    <2>2. \A n \in ScanInstances : si[n].incarnation <= created[n]
      <3>1. \A n \in ScanInstances : si[n] = NoRecord /\ created[n] = 0
        BY DEF SweepInit, Init
      <3>2. NoRecord.incarnation = 0
        BY DEF NoRecord
      <3> QED
        BY <3>1, <3>2
    <2> QED
      BY <2>1, <2>2 DEF SweepInit, Remembering
  <1>2. Story /\ Remembering /\ [SweepNext]_allVars => Story' /\ Remembering'
    <2> SUFFICES ASSUME Story, Remembering, [SweepNext]_allVars
                 PROVE  Story' /\ Remembering'
      OBVIOUS
    <2>0. TypeOK
      BY DEF Story
    <2>1. CASE UNCHANGED allVars
      <3>1. UNCHANGED <<vars, sweepVars>>
        BY <2>1 DEF allVars
      <3>2. Story'
        BY <3>1 DEF vars, Story, TypeOK, InHand, Told
      <3>3. \A item : Remembered(item)' <=> Remembered(item)
        BY <3>1 DEF vars, Remembered
      <3> QED
        BY <3>1, <3>2, <3>3 DEF vars, sweepVars, Remembering
    <2>2. CASE Next /\ UNCHANGED sweepVars
      <3>1. TypeOK' /\ InHand' /\ Told'
        BY <2>0, <2>2, NextType, StoryStep DEF Story
      <3> QED
        BY <2>2, <3>1, NextRemembers DEF Story
    <2>3. CASE Sweep \/ SweepKilled
      BY <2>0, <2>3, SweepTakesAway, SweepStory, SweepRemembers
    <2> QED
      BY <2>1, <2>2, <2>3 DEF SweepNext
  <1> QED
    BY <1>1, <1>2, PTL DEF SweepSpec

\* If the informer of ScanInstances is not behind, what a sweep takes, however old
\* its list is by then, belongs to a ScanInstance that is failed, or to one that
\* got the name after the list was read (cmd/janitor/main.go:122-134, 263-415).
THEOREM SparesOthers == Fresh => (SweepSpec => SweepSpares)
  <1> SUFFICES ASSUME Fresh
               PROVE  SweepSpec => SweepSpares
    OBVIOUS
  <1> DEFINE Spares ==
        \A k \in JanitorDeletes :
           /\ swept # None /\ swept' = swept /\ next' = next + 1
           /\ res[swept[1]][k] # NoObject /\ res'[swept[1]][k] = NoObject
           /\ si[swept[1]].incarnation = swept[2]
           => si[swept[1]].status = "Failed"
  <1>1. Remembering => Spares
    BY DEF Remembering, Remembered
  <1>2. ASSUME Remembering, [SweepNext]_allVars
        PROVE  [Spares]_allVars
    BY <1>1, <1>2
  <1> QED
    BY <1>2, StoryBeside, PTL DEF SweepSpec, SweepSpares

-----------------------------------------------------------------------------
(* What the controller guarantees although sweeps go on beside it.         *)

LEMMA FewerObjects ==
  ASSUME TypeOK, TakesAway, Beside
  PROVE  /\ Cared => Cared'
         /\ Placed => Placed'
  <1>0. NoObject.state = "absent" /\ "scan" \in Kinds /\ "preScan" \in Kinds
    BY DEF NoObject, Kinds, Jobs
  <1>1. \A n \in ScanInstances :
           /\ res'[n]["scan"] \in {res[n]["scan"], NoObject}
           /\ res'[n]["preScan"] \in {res[n]["preScan"], NoObject}
    BY <1>0 DEF TakesAway
  <1>2. UNCHANGED <<si, at, cur, copy>>
    BY DEF Beside, worker
  <1>3. ASSUME Cared
        PROVE  Cared'
    BY <1>0, <1>1, <1>2, <1>3 DEF Cared, TypeOK
  <1>4. ASSUME Placed
        PROVE  Placed'
    BY <1>0, <1>1, <1>2, <1>4 DEF Placed
  <1> QED
    BY <1>3, <1>4

\* The controller with its memory, and sweeps beside it.
SweepHistorySpec ==
    /\ SweepInit /\ unread = {} /\ overlooked = {}
    /\ [][SweepNext /\ Remember]_<<allVars, memory>>

\* What no sweep changes.
Lasting == TypeOK /\ Recalled /\ Guarded /\ (MaxConcurrentScans # 0 => SlotsHeld)

LEMMA SweepLasting ==
  ASSUME Lasting, Sweep \/ SweepKilled, Remember
  PROVE  Lasting' /\ Remembers
  <1>1. Beside /\ TakesAway /\ TypeOK'
    BY SweepTakesAway DEF Lasting
  <1>2. /\ UNCHANGED <<si, siCache, resCache, at, cur, copy>>
        /\ at' # "idle" => unread' = unread
    BY <1>1 DEF Beside, caches, worker, Remember
  <1>3. Remembers
    BY <1>2 DEF Remembers, Recalled, Guarded, LosesUnread, Lasting
  <1>4. ASSUME MaxConcurrentScans # 0
        PROVE  SlotsHeld'
    <2>1. NoObject.state = "absent" /\ "scan" \in Kinds
      BY DEF NoObject, Kinds, Jobs
    <2>2. NoneAdded
      BY <1>1, <2>1, NoneAddedBy DEF Busy, TakesAway
    <2>3. TakesNone /\ Listed' = Listed
      BY <1>2, <2>2 DEF TakesNone, Listed
    <2> QED
      BY <1>4, <2>3, HeldBy DEF Lasting
  <1> QED
    BY <1>1, <1>3, <1>4 DEF Lasting, Remembers

LEMMA LastingStep ==
  ASSUME Lasting, SweepNext /\ Remember
  PROVE  Lasting' /\ Remembers
  <1>1. CASE Next
    <2>1. HistoryNext
      BY <1>1 DEF HistoryNext
    <2> QED
      BY <1>1, <2>1, NextType, RecalledStep, HeldStep DEF Lasting, Remembers
  <1> QED
    BY <1>1, SweepLasting DEF SweepNext

LEMMA LastingAlways == SweepHistorySpec => []Lasting
  <1>1. SweepInit /\ unread = {} /\ overlooked = {} => Lasting
    BY InitType, RecalledInit, HeldInit DEF SweepInit, Lasting
  <1>2. Lasting /\ [SweepNext /\ Remember]_<<allVars, memory>> => Lasting'
    <2>1. Lasting /\ UNCHANGED <<allVars, memory>> => Lasting'
      BY DEF allVars, vars, memory, Lasting, TypeOK, Recalled, Guarded, SlotsHeld,
             ScanningJobs, Listed, Heeded
    <2> QED
      BY <2>1, LastingStep
  <1> QED
    BY <1>1, <1>2, PTL DEF SweepHistorySpec

\* However far the informers lag behind, sweeps, which no cache serves, add nothing to
\* what stale reads can cost: the controller loses no condition and no final status
\* that it had read, and exceeds the limit of scans only by jobs it had overlooked
\* (controller_helper.go:251-275, 849-868).
THEOREM HistoryBeside ==
  SweepHistorySpec => []SlotsOverlooked /\ ForgetsOnlyUnread /\ ReopensOnlyUnread
  <1> DEFINE Keeps ==
        \A n \in ScanInstances :
           si'[n].incarnation = si[n].incarnation =>
               si[n].conditions \ si'[n].conditions
                   \subseteq IF n = cur THEN unread ELSE {}
             Final ==
        \A n \in ScanInstances :
           /\ si'[n].incarnation = si[n].incarnation
           /\ si[n].status \in Terminal
           /\ si'[n].status # si[n].status
           => n = cur /\ <<"Status", si[n].status>> \in unread
  <1>1. Lasting => SlotsOverlooked
    BY DEF Lasting, SlotsHeld, Heeded, SlotsOverlooked
  <1>2. ASSUME Lasting, [SweepNext /\ Remember]_<<allVars, memory>>
        PROVE  [Keeps]_vars /\ [Final]_vars
    BY <1>2, LastingStep DEF Remembers, LosesUnread, allVars
  <1> QED
    BY <1>1, <1>2, LastingAlways, PTL
    DEF SweepHistorySpec, ForgetsOnlyUnread, ReopensOnlyUnread

\* If the informer of ScanInstances is not behind, sweeps do not lead the controller
\* to scan a second time when they have removed the job of the first
\* (controller_helper.go:589-591).
THEOREM OnceBeside == Fresh => (SweepSpec => ScannedOnce)
  <1> SUFFICES ASSUME Fresh
               PROVE  SweepSpec => ScannedOnce
    OBVIOUS
  <1> DEFINE Once ==
        \A n \in ScanInstances :
           res[n]["scan"] = NoObject /\ res'[n]["scan"] # NoObject
           => \A c \in si[n].conditions : c[1] # "Scanning"
  <1>1. ASSUME Story, Next
        PROVE  Once
    BY <1>1, NoSecondScan
  <1>2. ASSUME Story, Sweep \/ SweepKilled
        PROVE  Once
    <2>1. TakesAway /\ "scan" \in Kinds
      BY <1>2, SweepTakesAway DEF Story, Kinds, Jobs
    <2> QED
      BY <2>1 DEF TakesAway
  <1>3. ASSUME Story, [SweepNext]_allVars
        PROVE  [Once]_vars
    BY <1>1, <1>2, <1>3 DEF SweepNext, allVars
  <1> QED
    BY <1>3, StoryBeside, PTL DEF SweepSpec, ScannedOnce

LEMMA CareBeside == FreshForJobs => (SweepSpec => []Cared)
  <1> SUFFICES ASSUME FreshForJobs
               PROVE  SweepSpec => []Cared
    OBVIOUS
  <1>0. Fresh
    BY DEF Fresh, FreshForJobs
  <1>1. SweepInit => Cared
    BY CaredInit DEF SweepInit
  <1>2. Story /\ Cared /\ [SweepNext]_allVars => Cared'
    <2>1. Cared /\ UNCHANGED allVars => Cared'
      BY DEF allVars, vars, Cared
    <2> QED
      BY <2>1, CaredStep, SweepTakesAway, FewerObjects DEF SweepNext, Story
  <1> QED
    BY <1>0, <1>1, <1>2, StoryBeside, PTL DEF SweepSpec

LEMMA PlacedBeside ==
  ASSUME Story, Placed, Fresh, FreshForJobs \/ Seen, [SweepNext]_allVars
  PROVE  Placed'
  <1>1. CASE UNCHANGED allVars
    BY <1>1 DEF allVars, vars, Placed
  <1>2. CASE Next
    BY <1>2, PlacedStep
  <1>3. CASE Sweep \/ SweepKilled
    BY <1>3, SweepTakesAway, FewerObjects DEF Story
  <1> QED
    BY <1>1, <1>2, <1>3 DEF SweepNext

LEMMA PlacesBeside == FreshForJobs => (SweepSpec => []Placed)
  <1> SUFFICES ASSUME FreshForJobs
               PROVE  SweepSpec => []Placed
    OBVIOUS
  <1>0. Fresh
    BY DEF Fresh, FreshForJobs
  <1>1. SweepInit => Placed
    BY PlacedInit DEF SweepInit
  <1>2. Story /\ Placed /\ [SweepNext]_allVars => Placed'
    BY <1>0, PlacedBeside
  <1> QED
    BY <1>0, <1>1, <1>2, StoryBeside, PTL DEF SweepSpec

\* If the informers of ScanInstances and of jobs are not behind, sweeps, which no
\* cache serves, leave no pre-scan job without its ScanInstance, and no status
\* without the conditions that explain it (controller_helper.go:76-88, 489-499).
THEOREM StateBeside ==
  FreshForJobs => (SweepSpec => [](NoOrphanJob /\ StatusExplained))
  <1> SUFFICES ASSUME FreshForJobs
               PROVE  SweepSpec => [](NoOrphanJob /\ StatusExplained)
    OBVIOUS
  <1>0. Fresh
    BY DEF Fresh, FreshForJobs
  <1>1. Story /\ Placed => StatusExplained
    BY DEF Story, Told, Consistent, Placed, FailedOnce, StatusExplained
  <1>2. Cared => NoOrphanJob
    BY DEF Cared, Protected, NoOrphanJob
  <1> QED
    BY <1>0, <1>1, <1>2, StoryBeside, CareBeside, PlacesBeside, PTL

-----------------------------------------------------------------------------
(* The evidence of the life cycle, without faults of the controller and    *)
(* for names that are used once, but with sweeps that remove it and        *)
(* informers that are late with it.                                        *)

\* A pre-scan reports once: a container that has yet to report is the first, and
\* its job stays until the ScanInstance is decided, by the sweep or the janitor
\* that comes after its completion, or on its way out.
Shows(n) ==
    /\ Has(si[n], "PreScan", "Completed") \/ (at = "preScanCompleted" /\ cur = n) =>
          Known(si[n])
    /\ res[n]["preScan"].state \in Unreported => ~Known(si[n])
    /\ si[n].incarnation # 0 /\ res[n]["preScan"].state \in {"reported", "succeeded"} =>
          Known(si[n])
    /\ /\ si[n].incarnation # 0 /\ Known(si[n]) /\ si[n].status \notin Terminal
       /\ ~(at = "removeFinalizer" /\ cur = n)
       => res[n]["preScan"] # NoObject
    /\ res[n]["janitor"] # NoObject =>
          created[n] # 0 /\ (si[n].incarnation = 0 \/ si[n].status = "Completed")

Reports ==
    /\ \A n \in ScanInstances : Shows(n)
    /\ at \in {"completed", "completedLocked"} => si[cur].report

\* What happens to the objects of a name without the worker and the container.
Ages(n) ==
    /\ res'[n]["preScan"].state \in Unreported => res[n]["preScan"].state \in Unreported
    /\ res'[n]["preScan"].state \in {"reported", "succeeded"} =>
          res[n]["preScan"].state \in {"reported", "succeeded"}
    /\ res'[n]["preScan"] = NoObject =>
          \/ res[n]["preScan"] = NoObject \/ si[n].incarnation = 0
          \/ si[n].status \in Terminal
    /\ res'[n]["janitor"] # NoObject => res[n]["janitor"] # NoObject

LEMMA AgesReports ==
  ASSUME Reports, UNCHANGED <<si, created, at, cur>>, \A n \in ScanInstances : Ages(n)
  PROVE  Reports'
  <1>1. ASSUME NEW n \in ScanInstances
        PROVE  Shows(n)'
    BY DEF Reports, Shows, Ages
  <1> QED
    BY <1>1 DEF Reports

LEMMA WorkerGives ==
  ASSUME TypeOK, WorkerStep, at \notin Unprotected, NEW n \in ScanInstances,
         NEW k \in {"preScan", "janitor"}
  PROVE  \/ res'[n][k] = res[n][k]
         \/ /\ n = cur /\ res[n][k] = NoObject
            /\ k = "preScan" => at = "createPreScanJob" /\ res'[n][k].state = "new"
            /\ k = "janitor" => at = "janitor"
  <1>0. {"preScan", "scan", "janitor", "redis", "service", "configMap", "secret"}
           \subseteq Kinds
    BY DEF Kinds, Jobs
  <1>1. CASE \/ MarkQueued
             \/ ReadPreScanJob \/ MarkPreScanStarted \/ MarkPreScanInProgress
             \/ MarkPreScanRejected \/ MarkPreScanCompleted
             \/ MarkPreScanFailed \/ MarkPreScanRunning \/ MarkFailed
    BY <1>1 DEF MarkQueued, ReadPreScanJob,
       MarkPreScanStarted, MarkPreScanInProgress, MarkPreScanRejected,
       MarkPreScanCompleted, MarkPreScanFailed, MarkPreScanRunning, MarkFailed,
       AtVersion, Accepted, Refused, Move, PatchStatus, PatchCondition, server
  <1>2. CASE \/ ReconcileScanPhase \/ MarkNoVMs \/ MarkRedisGaveUp \/ MarkRedisStarted
             \/ RefetchRedisDeployment \/ RefetchRedisService
             \/ MarkRedisReady \/ MarkRedisFailed
    BY <1>2 DEF ReconcileScanPhase, MarkNoVMs, MarkRedisGaveUp, MarkRedisStarted,
       RefetchRedisDeployment, RefetchRedisService, MarkRedisReady, MarkRedisFailed,
       Accepted, Refused, Move, PatchStatus, PatchCondition, server
  <1>3. CASE \/ MarkScanRejected \/ MarkScanStarted \/ MarkScanRunning \/ MarkScanFailed
             \/ UpdateReport \/ MarkCompleted \/ MarkScanCompleted
    BY <1>3 DEF MarkScanRejected, MarkScanStarted, MarkScanRunning, MarkScanFailed,
       UpdateReport, MarkCompleted, MarkScanCompleted,
       AtVersion, Accepted, Refused, Move, PatchStatus, PatchCondition, server
  <1>4. CASE \/ CreateRedisDeployment \/ CreateRedisService
             \/ CreateScanConfigMap \/ CreateScanSecret \/ CreateScanJob
    <2>1. \/ res' = res
          \/ \E kind \in Kinds \ {"preScan", "janitor"} :
                \E state, accepted, exists, rejected :
                   Create(kind, state, accepted, exists, rejected)
      BY <1>0, <1>4 DEF CreateRedisDeployment, CreateRedisService, CreateScanConfigMap,
         CreateScanSecret, CreateScanJob, Move, server
    <2> QED
      BY <1>0, <2>1, CreateMakes
  <1>5. CASE CreateJanitorJob
    <2>1. /\ at = "janitor"
          /\ res' = res \/ Create("janitor", "new", "idle", "idle", "idle")
      BY <1>5 DEF CreateJanitorJob, At, Move, server
    <2> QED
      BY <1>0, <2>1, CreateMakes
  <1>6. CASE CreatePreScanJob
    <2>1. /\ at = "createPreScanJob"
          /\ Create("preScan", "new", "idle", "preScanRejected", "preScanRejected")
      BY <1>6 DEF CreatePreScanJob, At
    <2>2. res'[n][k] = res[n][k] \/ (n = cur /\ k = "preScan" /\ res[n][k] = NoObject)
      BY <1>0, <2>1, CreateMakes
    <2>3. res'[cur]["preScan"] = res[cur]["preScan"] \/ res'[cur]["preScan"].state = "new"
      BY <1>0, <2>1 DEF Create, Move, server, TypeOK
    <2> QED
      BY <2>1, <2>2, <2>3
  <1>7. CASE AddFinalizer \/ Cleanup \/ RemoveFinalizer
    BY <1>7 DEF AddFinalizer, Cleanup, RemoveFinalizer, At, Unprotected
  <1> QED
    BY <1>1, <1>2, <1>3, <1>4, <1>5, <1>6, <1>7 DEF WorkerStep

\* At the scan phase nothing else is done, and only a report leads to completion.
LEMMA CompletesReported ==
  ASSUME WorkerStep, at = "scanPhase", at' = "completed"
  PROVE  copy.report
  <1>1. ~ \/ AddFinalizer \/ Cleanup \/ RemoveFinalizer \/ MarkQueued
          \/ ReadPreScanJob \/ MarkPreScanStarted \/ MarkPreScanInProgress
          \/ CreatePreScanJob \/ MarkPreScanRejected \/ MarkPreScanCompleted
          \/ MarkPreScanFailed \/ MarkPreScanRunning \/ MarkFailed
          \/ MarkNoVMs \/ MarkRedisGaveUp \/ MarkRedisStarted
    BY DEF AddFinalizer, Cleanup, RemoveFinalizer, MarkQueued, At, ReadPreScanJob,
       MarkPreScanStarted, MarkPreScanInProgress, CreatePreScanJob,
       MarkPreScanRejected, MarkPreScanCompleted, MarkPreScanFailed,
       MarkPreScanRunning, MarkFailed, MarkNoVMs, MarkRedisGaveUp, MarkRedisStarted
  <1>2. ~ \/ CreateRedisDeployment \/ RefetchRedisDeployment
          \/ CreateRedisService \/ RefetchRedisService
          \/ MarkRedisReady \/ MarkRedisFailed
          \/ CreateScanConfigMap \/ CreateScanSecret \/ CreateScanJob
          \/ MarkScanRejected \/ MarkScanStarted \/ MarkScanRunning \/ MarkScanFailed
          \/ UpdateReport \/ MarkCompleted \/ MarkScanCompleted \/ CreateJanitorJob
    BY DEF At, CreateRedisDeployment, RefetchRedisDeployment,
       CreateRedisService, RefetchRedisService, MarkRedisReady, MarkRedisFailed,
       CreateScanConfigMap, CreateScanSecret, CreateScanJob, MarkScanRejected,
       MarkScanStarted, MarkScanRunning, MarkScanFailed, UpdateReport,
       MarkCompleted, MarkScanCompleted, CreateJanitorJob
  <1>3. ReconcileScanPhase
    BY <1>1, <1>2 DEF WorkerStep
  <1>4. /\ \A job : ScanJobRoute(copy, job) = "completed" => copy.report
        /\ BeforeScan(copy) # "completed"
    BY DEF ScanJobRoute, BeforeScan, RedisRoute
  <1> HIDE DEF ScanJobRoute, BeforeScan
  <1> QED
    BY <1>3, <1>4 DEF ReconcileScanPhase, Move, Goto

LEMMA FlowEnds ==
  ASSUME NEW from, NEW r \in Record, NEW job, NEW locations, NEW to, NEW s,
         Ways(from, r, job, locations, to, s), from \notin Unprotected
  PROVE  /\ to = "completed" => from = "scanPhase" /\ s = r
         /\ to = "completedLocked" => s.report
  <1> USE DEF Unprotected, RedisSteps, Claiming
  <1>1. CASE PreScanFlow(from, r, job, to, s)
    <2>1. Route(s) \notin {"completed", "completedLocked"}
      BY RouteAway DEF AtFinalizer, Route
    <2> QED
      BY <1>1, <2>1 DEF PreScanFlow
  <1>2. CASE ScanFlow(from, r, locations, to, s)
    BY <1>2, FieldsTrue DEF ScanFlow
  <1>3. CASE StatusFlow(from, r, to, s)
    BY <1>3 DEF StatusFlow
  <1> QED
    BY <1>1, <1>2, <1>3 DEF Ways

LEMMA WorkerReports ==
  ASSUME Story, Remembering, Reports, Seen, Fresh, at \notin Unprotected, WorkerStep
  PROVE  Reports'
  <1>0. /\ TypeOK /\ InHand /\ Told /\ cur \in ScanInstances /\ si[cur] \in Record
        /\ Due(at, si[cur]) /\ si[cur].incarnation # 0
        /\ copy.report = si[cur].report
    BY HandFacts DEF Story, Told, TypeOK
  <1>1. PICK to, s : Flow(to, s) /\ Went(to, s)
    BY <1>0, WorkerFlows DEF Flows
  <1>2. /\ cur' = cur /\ Kept(si[cur], s) /\ si'[cur] = s
        /\ \A n \in ScanInstances \ {cur} : si'[n] = si[n]
        /\ at' = IF to = "retry" THEN "idle" ELSE to
    BY <1>0, <1>1, FlowsKept DEF Went
  <1> DEFINE job == Cached("preScan")
  <1>3. Ways(at, si[cur], job, copy.locations, to, s)
    BY <1>1 DEF Flow, Ways
  <1>4. /\ Has(s, "PreScan", "Completed") =>
              Has(si[cur], "PreScan", "Completed") \/ at = "preScanCompleted"
        /\ to = "preScanCompleted" => at = "preScan" /\ job = "succeeded"
    BY <1>0, <1>3, FlowNews
  <1>5. created' = created
    BY WorkerLeaves
  <1>6. ASSUME NEW n \in ScanInstances
        PROVE  /\ si'[n].incarnation = si[n].incarnation
               /\ si'[n].locations = si[n].locations
               /\ si[n].status \in Terminal => si'[n].status = si[n].status
               /\ si'[n].status = "Completed" \/ si[n].status # "Completed"
    <2>1. si'[n].incarnation = si[n].incarnation /\ si'[n].locations = si[n].locations
      BY <1>2 DEF Kept
    <2>2. ~Forgets(n)
      BY <1>0, NothingForgotten DEF Next
    <2> QED
      BY <2>1, <2>2 DEF Forgets, Terminal
  <1>7. to = "preScanCompleted" => Known(si[cur])
    <2> SUFFICES ASSUME to = "preScanCompleted"
                 PROVE  Known(si[cur])
      OBVIOUS
    <2>1. resCache[cur]["preScan"].state = "succeeded"
      BY <1>4 DEF Cached
    <2> QED
      BY <1>0, <2>1 DEF Seen
  <1>8. at' \in {"completed", "completedLocked"} => s.report
    <2>1. CASE to = "completed"
      <3>1. at = "scanPhase" /\ s = si[cur] /\ at' = "completed"
        BY <1>0, <1>2, <1>3, <2>1, FlowEnds
      <3> QED
        BY <1>0, <3>1, CompletesReported
    <2>2. CASE to = "completedLocked"
      BY <1>0, <1>3, <2>2, FlowEnds
    <2> QED
      BY <1>2, <2>1, <2>2
  <1>9. /\ at = "createPreScanJob" => si[cur].status \notin Terminal
        /\ at = "janitor" => si[cur].status = "Completed"
        /\ created[cur] # 0
    <2>1. created[cur] \in Nat /\ si[cur].incarnation \in Nat
          /\ si[cur].incarnation <= created[cur]
      BY <1>0, ConstantsAssumption DEF TypeOK, Record, Remembering
    <2>2. created[cur] # 0
      BY <1>0, <2>1
    <2>3. at = "janitor" => si[cur].status = "Completed"
      BY <1>0 DEF Due, LastSteps
    <2>4. at = "createPreScanJob" => si[cur].status \in {"Queued", "InProgress"}
      BY <1>0 DEF Due, Unprotected, LastSteps
    <2> QED
      BY <2>2, <2>3, <2>4 DEF Terminal
  <1>10. at' # "removeFinalizer" /\ at # "removeFinalizer"
    <2>1. to \notin AtFinalizer
      BY <1>0, <1>1, FlowsKept
    <2> QED
      BY <1>2, <2>1 DEF Unprotected, AtFinalizer
  <1>11. ASSUME NEW n \in ScanInstances
         PROVE  Shows(n)'
    <2>1. Shows(n)
      BY DEF Reports
    <2>2. \/ res'[n]["preScan"] = res[n]["preScan"]
          \/ /\ n = cur /\ res[n]["preScan"] = NoObject
             /\ at = "createPreScanJob" /\ res'[n]["preScan"].state = "new"
      BY <1>0, WorkerGives
    <2>3. \/ res'[n]["janitor"] = res[n]["janitor"]
          \/ n = cur /\ at = "janitor"
      BY <1>0, WorkerGives
    <2>4. /\ si'[n].incarnation = si[n].incarnation
          /\ Known(si'[n]) <=> Known(si[n])
          /\ si[n].status \in Terminal => si'[n].status = si[n].status
          /\ si'[n].status = "Completed" \/ si[n].status # "Completed"
      BY <1>6 DEF Known
    <2>5. Has(si'[n], "PreScan", "Completed") \/ (at' = "preScanCompleted" /\ cur' = n)
             => Known(si'[n])
      <3>1. CASE n # cur
        BY <1>2, <2>1, <3>1 DEF Shows
      <3>2. CASE n = cur
        BY <1>2, <1>4, <1>7, <2>1, <2>4, <3>2 DEF Shows
      <3> QED
        BY <3>1, <3>2
    <2>6. res'[n]["preScan"].state \in Unreported => ~Known(si'[n])
      BY <1>0, <1>9, <1>10, <2>1, <2>2, <2>4 DEF Shows
    <2>7. si'[n].incarnation # 0 /\ res'[n]["preScan"].state \in {"reported", "succeeded"}
             => Known(si'[n])
      BY <2>1, <2>2, <2>4 DEF Shows
    <2>8. si'[n].incarnation # 0 /\ Known(si'[n]) /\ si'[n].status \notin Terminal
             => res'[n]["preScan"] # NoObject
      <3>1. NoObject.state = "absent"
        BY DEF NoObject
      <3> QED
        BY <1>10, <2>1, <2>2, <2>4, <3>1 DEF Shows
    <2>9. res'[n]["janitor"] # NoObject =>
             created'[n] # 0 /\ (si'[n].incarnation = 0 \/ si'[n].status = "Completed")
      BY <1>5, <1>9, <2>1, <2>3, <2>4 DEF Shows
    <2> QED
      BY <2>5, <2>6, <2>7, <2>8, <2>9 DEF Shows
  <1> QED
    BY <1>2, <1>8, <1>11 DEF Reports

LEMMA FinalizerReports ==
  ASSUME Story, Reports, Faultless, AddFinalizer \/ Cleanup \/ RemoveFinalizer
  PROVE  Reports'
  <1>0. /\ TypeOK /\ InHand /\ si \in [ScanInstances -> Record] /\ cur \in ScanInstances
        /\ si[cur] \in Record /\ "preScan" \in Kinds /\ "janitor" \in Kinds
        /\ NoObject.state = "absent" /\ Fresh /\ ~Fault
    BY DEF Story, TypeOK, NoObject, Kinds, Jobs, Faultless, Fault
  <1>1. created' = created
    BY WorkerLeaves DEF WorkerStep
  <1>2. CASE AddFinalizer
    <2>1. at = "addFinalizer" /\ cur' = cur /\ res' = res
      BY <1>0, <1>2, AddFinalizerWrites
    <2>2. CASE si' = si /\ at' = "idle"
      BY <1>1, <2>1, <2>2 DEF Reports, Shows
    <2>3. ASSUME NEW r, r = [si[cur] EXCEPT !.finalizer = TRUE],
                 si' = [si EXCEPT ![cur] = r], at' = AfterFinalizer(r)
          PROVE  Reports'
      <3>1. /\ r.status = si[cur].status /\ r.conditions = si[cur].conditions
            /\ r.incarnation = si[cur].incarnation /\ r.locations = si[cur].locations
        BY <1>0, <2>3 DEF Record
      <3>2. at' \in {"queued", "scanPhase", "idle", "preScan"}
        BY <2>3, RouteAway DEF AfterFinalizer
      <3>3. si'[cur] = r /\ \A n \in ScanInstances \ {cur} : si'[n] = si[n]
        BY <1>0, <2>3
      <3>4. ASSUME NEW n \in ScanInstances
            PROVE  Shows(n)'
        <4>1. Shows(n)
          BY DEF Reports
        <4> QED
          BY <1>1, <2>1, <3>1, <3>2, <3>3, <4>1 DEF Shows, Known, Has
      <3> QED
        BY <3>2, <3>4 DEF Reports
    <2> QED
      BY <1>0, <1>2, <2>2, <2>3, AddFinalizerWrites
  <1>3. CASE Cleanup
    <2>1. PICK last \in 0..Len(CleanupOrder) :
             /\ res' = Deleted(cur, {k \in {CleanupOrder[i] : i \in 1..last} :
                                        Cached(k) # "absent"})
             /\ last = Len(CleanupOrder) /\ Goto("removeFinalizer", copy)
      BY <1>0, <1>3 DEF Cleanup
    <2>2. /\ si' = si /\ cur' = cur /\ at' = "removeFinalizer" /\ at = "cleanup"
      BY <1>3, <2>1 DEF Cleanup, At, Goto
    <2>3. \A n \in ScanInstances :
             /\ n # cur => res'[n] = res[n]
             /\ res'[n]["preScan"] \in {res[n]["preScan"], NoObject}
             /\ res'[n]["janitor"] \in {res[n]["janitor"], NoObject}
      BY <1>0, <2>1 DEF Deleted, TypeOK
    <2>4. ASSUME NEW n \in ScanInstances
          PROVE  Shows(n)'
      <3>1. Shows(n)
        BY DEF Reports
      <3> QED
        BY <1>0, <1>1, <2>2, <2>3, <3>1 DEF Shows, Unreported
    <2> QED
      BY <2>2, <2>4 DEF Reports
  <1>4. CASE RemoveFinalizer
    <2>1. at = "removeFinalizer" /\ si[cur].deleting /\ si[cur].incarnation # 0
      BY <1>0, <1>4 DEF RemoveFinalizer, At, InHand
    <2>2. siCache = si
      BY <1>0, <1>4 DEF RemoveFinalizer, At, Fresh
    <2>3. Accepted(NoRecord, "idle")
      BY <1>0, <1>4, <2>1, <2>2 DEF RemoveFinalizer, AtVersion, Refused
    <2>4. /\ si' = [si EXCEPT ![cur] = NoRecord] /\ res' = res /\ at' = "idle"
          /\ cur' = cur
      BY <2>3 DEF Accepted, Goto
    <2>5. /\ NoRecord.incarnation = 0 /\ ~Known(NoRecord)
          /\ ~Has(NoRecord, "PreScan", "Completed")
      BY DEF NoRecord, Known, Has
    <2>6. ASSUME NEW n \in ScanInstances
          PROVE  Shows(n)'
      <3>1. Shows(n)
        BY DEF Reports
      <3>2. CASE n # cur
        BY <1>0, <1>1, <2>1, <2>4, <3>1, <3>2 DEF Shows
      <3>3. CASE n = cur
        BY <1>0, <1>1, <2>4, <2>5, <3>1, <3>3 DEF Shows, Unreported
      <3> QED
        BY <3>2, <3>3
    <2> QED
      BY <2>4, <2>6 DEF Reports
  <1> QED
    BY <1>2, <1>3, <1>4

LEMMA ManagerReports ==
  ASSUME Story, Reports, Faultless,
         \/ \E n \in ScanInstances : Start(n)
         \/ DeliverScanInstances \/ (\E i \in Informers : Deliver(i)) \/ Crash
  PROVE  Reports'
  <1>0. TypeOK /\ Fresh /\ ~Fault
    BY DEF Story, TypeOK, Faultless, Fault
  <1>1. CASE \E n \in ScanInstances : Start(n)
    <2>1. PICK n \in ScanInstances : Start(n)
      BY <1>1
    <2>2. /\ si' = si /\ res' = res /\ at' = FirstStep(si[n]) /\ at = "idle"
          /\ created' = created
      BY <1>0, <2>1, StartReads DEF Start, At, bounds
    <2>3. FirstStep(si[n]) \notin {"preScanCompleted", "removeFinalizer", "completed",
                                   "completedLocked"}
      BY RouteAway DEF FirstStep, AfterFinalizer
    <2>4. ASSUME NEW m \in ScanInstances
          PROVE  Shows(m)'
      <3>1. Shows(m)
        BY DEF Reports
      <3> QED
        BY <2>2, <2>3, <3>1 DEF Shows
    <2> QED
      BY <2>2, <2>3, <2>4 DEF Reports
  <1>2. CASE DeliverScanInstances \/ (\E i \in Informers : Deliver(i))
    <2>1. UNCHANGED <<si, res, at, cur, created>>
      BY <1>2 DEF DeliverScanInstances, Deliver, server, worker, bounds
    <2> QED
      BY <2>1, AgesReports DEF Ages
  <1>3. ~Crash
    BY <1>0 DEF Crash
  <1> QED
    BY <1>1, <1>2, <1>3

\* A ScanInstance without a finalizer is in nobody's hands, and a new one has no
\* pre-scan job.
LEMMA UserReports ==
  ASSUME Story, Seen, Remembering, Reports, Faultless, NEW m \in ScanInstances,
         UserCreate(m) \/ UserDelete(m)
  PROVE  Reports'
  <1>0. /\ TypeOK /\ InHand /\ si \in [ScanInstances -> Record] /\ si[m] \in Record
        /\ created \in [ScanInstances -> Nat] /\ MaxIncarnations = 1 /\ cur \in ScanInstances
        /\ NoObject.state = "absent"
    BY DEF Story, TypeOK, Faultless, NoObject
  <1>1. res' = res /\ at' = at /\ cur' = cur
    BY DEF UserCreate, UserDelete, Outside, worker
  <1>2. ASSUME NEW r, NEW i \in Nat, si' = [si EXCEPT ![m] = r],
               created' = [created EXCEPT ![m] = i],
               ~si[m].finalizer, ~Known(r), r.conditions = {},
               r.incarnation # 0 => res[m]["preScan"] = NoObject,
               res[m]["janitor"] # NoObject => i # 0 /\ r.incarnation = 0
        PROVE  Reports'
    <2>1. cur = m => at \in Unprotected
      BY <1>0, <1>2 DEF InHand
    <2>2. ~Has(r, "PreScan", "Completed")
      BY <1>2 DEF Has
    <2>3. ASSUME NEW n \in ScanInstances
          PROVE  Shows(n)'
      <3>1. Shows(n)
        BY DEF Reports
      <3>2. CASE n # m
        BY <1>0, <1>1, <1>2, <3>1, <3>2 DEF Shows
      <3>3. CASE n = m
        BY <1>0, <1>1, <1>2, <2>1, <2>2, <3>3 DEF Shows, Unreported, Unprotected
      <3> QED
        BY <3>2, <3>3
    <2>4. at \in {"completed", "completedLocked"} => si'[cur].report
      <3>1. at \in {"completed", "completedLocked"} => cur # m /\ si[cur].report
        BY <2>1 DEF Reports, Unprotected
      <3> QED
        BY <1>0, <1>2, <3>1
    <2> QED
      BY <1>1, <2>3, <2>4 DEF Reports
  <1>3. CASE UserCreate(m)
    <2> DEFINE i == created[m] + 1
               r == [NoRecord EXCEPT !.incarnation = i]
    <2>1. /\ si' = [si EXCEPT ![m] = r] /\ created' = [created EXCEPT ![m] = i]
          /\ si[m].incarnation = 0 /\ created[m] = 0 /\ i \in Nat
      BY <1>0, <1>3 DEF UserCreate
    <2>2. ~Known(r) /\ r.conditions = {}
      BY DEF NoRecord, Known
    <2>3. /\ ~si[m].finalizer /\ res[m]["janitor"] = NoObject
          /\ res[m]["preScan"] = NoObject
      BY <1>0, <2>1 DEF InHand, Reports, Shows, Seen
    <2> HIDE DEF r, i
    <2> QED
      BY <1>2, <2>1, <2>2, <2>3
  <1>4. CASE UserDelete(m) /\ ~si[m].finalizer
    <2>1. /\ si' = [si EXCEPT ![m] = NoRecord] /\ created' = [created EXCEPT ![m] = created[m]]
          /\ created[m] \in Nat
      BY <1>0, <1>4 DEF UserDelete
    <2>2. /\ ~Known(NoRecord) /\ NoRecord.conditions = {} /\ NoRecord.incarnation = 0
      BY DEF NoRecord, Known
    <2>3. res[m]["janitor"] # NoObject => created[m] # 0
      BY DEF Reports, Shows
    <2> QED
      BY <1>2, <1>4, <2>1, <2>2, <2>3
  <1>5. CASE UserDelete(m) /\ si[m].finalizer
    <2> DEFINE r == [si[m] EXCEPT !.deleting = TRUE]
    <2>1. si' = [si EXCEPT ![m] = r] /\ created' = created
      BY <1>5 DEF UserDelete
    <2>2. /\ r.status = si[m].status /\ r.conditions = si[m].conditions
          /\ r.incarnation = si[m].incarnation /\ r.locations = si[m].locations
          /\ r.report = si[m].report
      BY <1>0 DEF Record
    <2> HIDE DEF r
    <2>3. si'[m] = r /\ \A n \in ScanInstances \ {m} : si'[n] = si[n]
      BY <1>0, <2>1
    <2>4. ASSUME NEW n \in ScanInstances
          PROVE  Shows(n)'
      <3>1. Shows(n)
        BY DEF Reports
      <3> QED
        BY <1>1, <2>1, <2>2, <2>3, <3>1 DEF Shows, Known, Has
    <2>5. si'[cur].report = si[cur].report
      BY <1>0, <2>2, <2>3
    <2> QED
      BY <1>1, <2>4, <2>5 DEF Reports
  <1> QED
    BY <1>3, <1>4, <1>5

LEMMA ContainerReports ==
  ASSUME Story, Reports, NEW m \in ScanInstances, PreScanReports(m)
  PROVE  Reports'
  <1>0. /\ TypeOK /\ si \in [ScanInstances -> Record] /\ si[m] \in Record
        /\ res \in [ScanInstances -> [Kinds -> Object]] /\ cur \in ScanInstances
        /\ "preScan" \in Kinds /\ "janitor" \in Kinds /\ NoObject.state = "absent"
    BY DEF Story, TypeOK, Kinds, Jobs, NoObject
  <1>1. at' = at /\ cur' = cur /\ created' = created
    BY DEF PreScanReports, Outside, worker
  <1>2. ASSUME NEW state \in {"failed", "reported"},
               res' = [res EXCEPT ![m]["preScan"].state = state]
        PROVE  /\ res'[m]["preScan"].state = state
               /\ \A n \in ScanInstances : /\ res'[n]["janitor"] = res[n]["janitor"]
                                           /\ n # m => res'[n] = res[n]
    <2> DEFINE o == [res[m]["preScan"] EXCEPT !.state = state]
    <2>1. o.state = state
      BY <1>0 DEF Object
    <2>2. res' = [res EXCEPT ![m] = [res[m] EXCEPT !["preScan"] = o]]
      BY <1>2
    <2> HIDE DEF o
    <2> QED
      BY <1>0, <2>1, <2>2
  <1>3. CASE si[m].incarnation = 0
    <2>1. si' = si /\ res' = [res EXCEPT ![m]["preScan"].state = "failed"]
      BY <1>3 DEF PreScanReports
    <2>2. /\ res'[m]["preScan"].state = "failed"
          /\ \A n \in ScanInstances : /\ res'[n]["janitor"] = res[n]["janitor"]
                                      /\ n # m => res'[n] = res[n]
      BY <1>2, <2>1
    <2>3. \A n \in ScanInstances : Ages(n)
      BY <1>0, <2>2 DEF Ages, Unreported
    <2> QED
      BY <1>1, <2>1, <2>3, AgesReports
  <1>4. CASE si[m].incarnation # 0
    <2>1. PICK l \in {"none", "some"} : si' = [si EXCEPT ![m] = [si[m] EXCEPT !.locations = l]]
      BY <1>4 DEF PreScanReports
    <2>2. /\ res'[m]["preScan"].state = "reported"
          /\ \A n \in ScanInstances : /\ res'[n]["janitor"] = res[n]["janitor"]
                                      /\ n # m => res'[n] = res[n]
      BY <1>2, <1>4 DEF PreScanReports
    <2> DEFINE r == [si[m] EXCEPT !.locations = l]
    <2>3. /\ r.status = si[m].status /\ r.conditions = si[m].conditions
          /\ r.incarnation = si[m].incarnation /\ Known(r)
          /\ r.report = si[m].report
      BY <1>0 DEF Record, Known
    <2>4. si'[m] = r /\ \A n \in ScanInstances \ {m} : si'[n] = si[n]
      BY <1>0, <2>1
    <2> HIDE DEF r
    <2>5. ASSUME NEW n \in ScanInstances
          PROVE  Shows(n)'
      <3>1. Shows(n)
        BY DEF Reports
      <3>2. CASE n # m
        BY <1>1, <2>2, <2>4, <3>1, <3>2 DEF Shows
      <3>3. CASE n = m
        BY <1>0, <1>1, <2>2, <2>3, <2>4, <3>1, <3>3 DEF Shows, Unreported
      <3> QED
        BY <3>2, <3>3
    <2>6. si'[cur].report = si[cur].report
      BY <1>0, <2>3, <2>4
    <2> QED
      BY <1>1, <2>5, <2>6 DEF Reports
  <1> QED
    BY <1>3, <1>4

LEMMA BecomesAges ==
  ASSUME TypeOK, NEW m \in ScanInstances, NEW k \in Kinds, NEW from, NEW to,
         Becomes(m, k, from, to), "absent" \notin from, to # "absent", to # "reported",
         k = "preScan" /\ to = "succeeded" => from \subseteq {"reported"},
         k = "preScan" /\ to \in Unreported => from \subseteq Unreported,
         NEW n \in ScanInstances
  PROVE  Ages(n) /\ UNCHANGED <<si, created, at, cur>>
  <1>0. /\ res \in [ScanInstances -> [Kinds -> Object]] /\ NoObject.state = "absent"
        /\ "preScan" \in Kinds /\ "janitor" \in Kinds
    BY DEF TypeOK, NoObject, Kinds, Jobs
  <1> DEFINE o == [res[m][k] EXCEPT !.state = to]
  <1>1. o.state = to
    BY <1>0 DEF Object
  <1>2. /\ res' = [res EXCEPT ![m] = [res[m] EXCEPT ![k] = o]]
        /\ res[m][k].state \in from
    BY DEF Becomes
  <1> HIDE DEF o
  <1>3. /\ n # m => res'[n] = res[n]
        /\ \A j \in Kinds : res'[m][j] = IF j = k THEN o ELSE res[m][j]
    BY <1>0, <1>2
  <1>4. res[m][k] # NoObject
    BY <1>0, <1>2
  <1>5. Ages(n)
    <2>1. CASE n # m
      BY <1>3, <2>1 DEF Ages
    <2>2. CASE n = m /\ k = "preScan"
      BY <1>0, <1>1, <1>2, <1>3, <2>2 DEF Ages
    <2>3. CASE n = m /\ k # "preScan"
      BY <1>0, <1>1, <1>3, <1>4, <2>3 DEF Ages
    <2> QED
      BY <2>1, <2>2, <2>3
  <1> QED
    BY <1>5 DEF Becomes, Outside, worker

LEMMA ClusterReports ==
  ASSUME Story, Seen, Remembering, Reports, Faultless, NEW m \in ScanInstances, Cluster(m)
  PROVE  Reports'
  <1>0. /\ TypeOK /\ ~Fault /\ res \in [ScanInstances -> [Kinds -> Object]]
        /\ Kinds = {"preScan", "scan", "janitor", "redis", "service", "configMap", "secret"}
        /\ NoObject.state = "absent"
    BY DEF Story, TypeOK, Faultless, Fault, Kinds, Jobs, NoObject
  <1>1. CASE UserCreate(m) \/ UserDelete(m)
    BY <1>1, UserReports
  <1>2. CASE PreScanReports(m)
    BY <1>2, ContainerReports
  <1>3. ASSUME NEW k \in Jobs,
               \/ JobStarts(m, k) \/ JobBlocked(m, k) \/ JobUnblocked(m, k)
               \/ ImageMissing(m, k) \/ ImageFound(m, k) \/ JobFails(m, k)
        PROVE  Reports'
    <2>1. k \in Kinds
      BY <1>3 DEF Kinds
    <2>2. PICK from, to : /\ Becomes(m, k, from, to) /\ "absent" \notin from
                          /\ to \in Unreported \cup {"failed"}
                          /\ to \in Unreported => from \subseteq Unreported
      BY <1>3 DEF JobStarts, JobBlocked, JobUnblocked, ImageMissing, ImageFound, JobFails,
         Unreported
    <2>3. to \notin {"absent", "reported", "succeeded"}
      BY <2>2 DEF Unreported
    <2>4. \A n \in ScanInstances : Ages(n) /\ UNCHANGED <<si, created, at, cur>>
      BY <1>0, <2>1, <2>2, <2>3, BecomesAges
    <2> QED
      BY <2>4, AgesReports
  <1>4. CASE JobSucceeds(m)
    <2>1. PICK k \in {"preScan", "scan"}, from \in {{"reported"}, {"active"}} :
             /\ Becomes(m, k, from, "succeeded") /\ "absent" \notin from
             /\ k = "preScan" => from \subseteq {"reported"}
      BY <1>4 DEF JobSucceeds
    <2>2. \A n \in ScanInstances : Ages(n) /\ UNCHANGED <<si, created, at, cur>>
      BY <1>0, <2>1, BecomesAges DEF Unreported
    <2> QED
      BY <2>2, AgesReports
  <1>5. CASE RedisStarts(m)
    <2>1. Becomes(m, "redis", {"starting"}, "ready")
      BY <1>5 DEF RedisStarts
    <2>2. \A n \in ScanInstances : Ages(n) /\ UNCHANGED <<si, created, at, cur>>
      BY <1>0, <2>1, BecomesAges DEF Unreported
    <2> QED
      BY <2>2, AgesReports
  <1>6. CASE JanitorRuns(m)
    <2>1. res[m]["janitor"] # NoObject /\ UNCHANGED <<si, created, at, cur>>
      BY <1>0, <1>6 DEF JanitorRuns, worker
    <2>2. si[m].incarnation = 0 \/ si[m].status = "Completed"
      BY <2>1 DEF Reports, Shows
    <2>3. PICK kinds : JanitorDone(m, kinds)
      BY <1>6 DEF JanitorRuns
    <2> DEFINE left == [k \in Kinds |-> IF k \in kinds THEN NoObject ELSE res[m][k]]
    <2>4. res' = [[res EXCEPT ![m] = left] EXCEPT ![m]["janitor"].state = "succeeded"]
      BY <2>3 DEF JanitorDone, Deleted
    <2>5. left \in [Kinds -> Object] /\ left["preScan"] \in {NoObject, res[m]["preScan"]}
      BY <1>0, NoObjectType
    <2> HIDE DEF left
    <2>6. /\ \A n \in ScanInstances \ {m} : res'[n] = res[n]
          /\ res'[m]["preScan"] = left["preScan"]
      BY <1>0, <2>4, <2>5
    <2>7. \A n \in ScanInstances : Ages(n)
      BY <1>0, <2>1, <2>2, <2>5, <2>6 DEF Ages, Terminal, Unreported
    <2> QED
      BY <2>1, <2>7, AgesReports
  <1>7. CASE JanitorExpires(m) \/ \E k \in Kinds : GarbageCollect(m, k)
    <2>1. /\ UNCHANGED <<si, created, at, cur>>
          /\ \E k \in Kinds \ {"preScan"} : res' = [res EXCEPT ![m][k] = NoObject]
      BY <1>0, <1>7 DEF JanitorExpires, GarbageCollect, Outside, worker, Owned
    <2>2. PICK k \in Kinds \ {"preScan"} :
             res' = [res EXCEPT ![m] = [res[m] EXCEPT ![k] = NoObject]]
      BY <2>1
    <2>3. \A n \in ScanInstances : Ages(n)
      BY <1>0, <2>2 DEF Ages
    <2> QED
      BY <2>1, <2>3, AgesReports
  <1>8. ~RedisRestarts(m)
    BY <1>0 DEF RedisRestarts
  <1> QED
    BY <1>1, <1>2, <1>3, <1>4, <1>5, <1>6, <1>7, <1>8 DEF Cluster

LEMMA SweepReports ==
  ASSUME Story, Remembering, Reports, Faultless, Sweep \/ SweepKilled
  PROVE  Reports'
  <1>0. /\ TypeOK /\ NoObject.state = "absent" /\ "preScan" \in Kinds /\ "janitor" \in Kinds
        /\ MaxIncarnations = 1 /\ created \in [ScanInstances -> 0..1]
        /\ si \in [ScanInstances -> Record]
    BY DEF Story, TypeOK, NoObject, Kinds, Jobs, Faultless
  <1>1. Beside /\ TakesAway
    BY <1>0, SweepTakesAway
  <1>2. UNCHANGED <<si, created, at, cur>>
    BY <1>1 DEF Beside, worker, bounds
  <1>3. ASSUME NEW n \in ScanInstances
        PROVE  Ages(n)
    <2>1. /\ res'[n]["preScan"] \in {res[n]["preScan"], NoObject}
          /\ res'[n]["janitor"] \in {res[n]["janitor"], NoObject}
      BY <1>0, <1>1 DEF TakesAway
    <2>2. ASSUME res'[n]["preScan"] # res[n]["preScan"]
          PROVE  si[n].incarnation = 0 \/ si[n].status = "Failed"
      <3>1. SweepDeletes
        BY <2>2 DEF Sweep, SweepStarts, SweepTakes, SweepGoesOn, SweepKilled, vars
      <3>2. swept # None /\ swept[1] = n
        <4>1. res' # res /\ swept # None
          BY <2>2, <3>1 DEF SweepDeletes
        <4>2. res' = Deleted(swept[1], {SweepOrder[next]})
          BY <3>1, <4>1 DEF SweepDeletes
        <4>3. swept[1] # n => res'[n] = res[n]
          BY <1>0, <4>2 DEF Deleted, TypeOK
        <4> QED
          BY <2>2, <4>1, <4>3
      <3>3. Remembered(swept) /\ si[n].incarnation \in Nat /\ si[n].incarnation <= created[n]
        BY <1>0, <3>2 DEF Remembering, Record
      <3>4. swept[2] = 1
        BY <1>0, <3>2, <3>3 DEF Remembered
      <3>5. si[n].incarnation \in {0, 1}
        BY <1>0, <3>3
      <3> QED
        BY <3>2, <3>3, <3>4, <3>5 DEF Remembered
    <2> QED
      BY <1>0, <2>1, <2>2 DEF Ages, Terminal, Unreported
  <1> QED
    BY <1>2, <1>3, AgesReports

LEMMA ReportsInit ==
  ASSUME Init
  PROVE  Reports
  <1>1. /\ at = "idle" /\ \A n \in ScanInstances : si[n] = NoRecord
        /\ \A n \in ScanInstances, k \in Kinds : res[n][k] = NoObject
    BY DEF Init
  <1>2. /\ NoRecord.incarnation = 0 /\ ~Has(NoRecord, "PreScan", "Completed")
        /\ NoObject.state = "absent" /\ "preScan" \in Kinds /\ "janitor" \in Kinds
    BY DEF NoRecord, Has, NoObject, Kinds, Jobs
  <1> QED
    BY <1>1, <1>2 DEF Reports, Shows, Unreported

LEMMA ReportsStep ==
  ASSUME Story, Remembering, Seen, Reports, Faultless, [SweepNext]_allVars
  PROVE  Reports'
  <1>0. Fresh
    BY DEF Faultless
  <1>1. CASE UNCHANGED allVars
    <2>1. UNCHANGED <<si, created, at, cur, res>>
      BY <1>1 DEF allVars, vars
    <2> QED
      BY <2>1, AgesReports DEF Ages
  <1>2. CASE Next
    <2>1. CASE WorkerStep
      BY <1>0, <2>1, WorkerReports, AtTheFinalizer, FinalizerReports
    <2>2. CASE \/ \E n \in ScanInstances : Start(n)
               \/ DeliverScanInstances \/ (\E i \in Informers : Deliver(i)) \/ Crash
      BY <2>2, ManagerReports
    <2>3. CASE \E n \in ScanInstances : Cluster(n)
      BY <2>3, ClusterReports
    <2> QED
      BY <1>2, <2>1, <2>2, <2>3 DEF Next
  <1>3. CASE Sweep \/ SweepKilled
    BY <1>3, SweepReports
  <1> QED
    BY <1>1, <1>2, <1>3 DEF SweepNext

\* What the jobs tell is what an old cache may be believed.
LEMMA ReportsAnswered ==
  ASSUME Story, Reports
  PROVE  Answered
  <1>1. \A n \in ScanInstances :
           si[n].incarnation # 0 /\ res[n]["preScan"].state = "succeeded" => Known(si[n])
    BY DEF Reports, Shows
  <1>2. ASSUME at = "createPreScanJob", Known(si[cur])
        PROVE  res[cur]["preScan"] # NoObject
    <2>1. /\ cur \in ScanInstances /\ si[cur].incarnation # 0
          /\ si[cur].status \in {"Queued", "InProgress"}
      BY <1>2, HandFacts DEF Story, Told, TypeOK, Due, Unprotected, LastSteps
    <2> QED
      BY <1>2, <2>1 DEF Reports, Shows, Terminal
  <1> QED
    BY <1>1, <1>2 DEF Answered

LEMMA SeenBeside ==
  ASSUME Story, Seen, Reports, Faultless, [SweepNext]_allVars
  PROVE  Seen'
  <1>1. CASE UNCHANGED allVars
    BY <1>1 DEF allVars, vars, Seen
  <1>2. CASE Next
    BY <1>2, ReportsAnswered, SeenStep DEF Faultless
  <1>3. CASE Sweep \/ SweepKilled
    <2>1. Beside /\ TakesAway /\ "preScan" \in Kinds /\ NoObject.state = "absent"
      BY <1>3, SweepTakesAway DEF Story, Kinds, Jobs, NoObject
    <2> QED
      BY <2>1 DEF Beside, TakesAway, caches, bounds, Seen
  <1> QED
    BY <1>1, <1>2, <1>3 DEF SweepNext

LEMMA ReportsBeside == Faultless => (SweepSpec => [](Seen /\ Reports))
  <1> SUFFICES ASSUME Faultless
               PROVE  SweepSpec => [](Seen /\ Reports)
    OBVIOUS
  <1>0. Fresh
    BY DEF Faultless
  <1>1. SweepInit => Seen /\ Reports
    BY SeenInit, ReportsInit DEF SweepInit
  <1>2. Story /\ Remembering /\ Seen /\ Reports /\ [SweepNext]_allVars => Seen' /\ Reports'
    BY SeenBeside, ReportsStep
  <1> QED
    BY <1>0, <1>1, <1>2, StoryBeside, PTL DEF SweepSpec

LEMMA PathsBeside == Faultless => (SweepSpec => []Paths)
  <1> SUFFICES ASSUME Faultless
               PROVE  SweepSpec => []Paths
    OBVIOUS
  <1>0. Fresh
    BY DEF Faultless
  <1>1. SweepInit => Paths
    BY PathsInit DEF SweepInit
  <1>2. Story /\ Seen /\ Paths /\ [SweepNext]_allVars => Paths'
    <2> SUFFICES ASSUME Story, Seen, Paths, [SweepNext]_allVars
                 PROVE  Paths'
      OBVIOUS
    <2>1. CASE UNCHANGED allVars
      BY <2>1 DEF allVars, vars, Paths
    <2>2. CASE Next
      BY <2>2, PathsStep
    <2>3. CASE Sweep \/ SweepKilled
      <3>1. Beside /\ TakesAway /\ "preScan" \in Kinds
        BY <2>3, SweepTakesAway DEF Story, Kinds, Jobs
      <3> QED
        BY <3>1 DEF Beside, TakesAway, worker, caches, Paths
    <2> QED
      BY <2>1, <2>2, <2>3 DEF SweepNext
  <1> QED
    BY <1>0, <1>1, <1>2, StoryBeside, ReportsBeside, PTL DEF SweepSpec

LEMMA ReportsEvident ==
  ASSUME Story, Placed, Reports
  PROVE  Evident
  <1>0. si[cur] \in Record /\ cur \in ScanInstances /\ Due(at, si[cur])
    BY DEF Story, TypeOK, Told
  <1>1. at = "noVMs" => si[cur].locations = "none"
    <2>1. at = "noVMs" => Has(si[cur], "PreScan", "Completed")
      BY <1>0 DEF Due, Unprotected, PreScanSteps, FailedSteps
    <2>2. at = "noVMs" => Known(si[cur]) /\ si[cur].locations # "some"
      BY <1>0, <2>1 DEF Reports, Shows, Placed
    <2> QED
      BY <1>0, <2>2 DEF Known, Record
  <1>2. \A n \in ScanInstances : res[n]["preScan"].state = "active" => ~Known(si[n])
    BY DEF Reports, Shows, Unreported
  <1> QED
    BY <1>1, <1>2 DEF Evident, Reports, Known

\* With an informer of ScanInstances that is not behind, however far the others are,
\* without faults of the controller and for names that are used once, ScanInstances
\* go through the life cycle whatever sweeps remove beside it, however old their
\* lists are and whenever they are killed: what they take is never the evidence of a
\* transition still to come
\* (cmd/janitor/main.go:122-134, 263-415; scaninstance_validator.go:67-120).
THEOREM LifecycleBeside == Faultless => (SweepSpec => ImplementsLifecycle)
  <1> SUFFICES ASSUME Faultless
               PROVE  SweepSpec => ImplementsLifecycle
    OBVIOUS
  <1>0. Fresh
    BY DEF Faultless
  <1>1. SweepInit => Lifecycle!Init /\ Placed
    BY InitLife, PlacedInit DEF SweepInit
  <1>2. Story /\ Seen /\ Placed /\ [SweepNext]_allVars => Placed'
    BY <1>0, PlacedBeside
  <1>3. Story /\ Placed /\ Paths /\ Reports /\ [SweepNext]_allVars
           => [Lifecycle!Next]_([n \in ScanInstances |-> Life(si[n])])
    <2> SUFFICES ASSUME Story, Placed, Paths, Reports, [SweepNext]_allVars
                 PROVE  Lifecycle!Next \/ Shown' = Shown
      BY DEF Shown
    <2>1. CASE Next
      BY <1>0, <2>1, ReportsEvident, NextLife
    <2>2. CASE Sweep \/ SweepKilled
      BY <2>2, SweepTakesAway DEF Story, Beside, Shown
    <2>3. CASE UNCHANGED allVars
      BY <2>3 DEF allVars, vars, Shown
    <2> QED
      BY <2>1, <2>2, <2>3 DEF SweepNext
  <1> QED
    BY <1>0, <1>1, <1>2, <1>3, StoryBeside, PathsBeside, ReportsBeside, PTL
       DEF SweepSpec, ImplementsLifecycle, Lifecycle!Spec
=============================================================================
