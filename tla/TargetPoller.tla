----------------------------- MODULE TargetPoller -----------------------------
(***************************************************************************)
(* The target poller (datastore-attacher/targetPoller): a job that runs    *)
(* every few hours, reads which backups a storage target holds, deletes    *)
(* the ScanInstances of backups that are gone, and creates ScanInstances   *)
(* for new ones.  Its main thread fills two queues that two pools of       *)
(* worker threads empty; around it backups come, change and go, and the    *)
(* pre-scan container labels each ScanInstance with the backup it is for.  *)
(***************************************************************************)
EXTENDS Naturals, FiniteSets

CONSTANTS
    Backups,        \* backups that may appear on the target
    PlanOf,         \* the backup plan of each
    Enabled,        \* backups whose plan file says scanConfig.enabled
    ScanOld,        \* those whose plan file says scanOldBackups as well
    Names,          \* bound: names of ScanInstances that may exist at a time
    NumWorkers,     \* threads of each pool
    Surprises,      \* which of the following may happen:
                    \*   "overlap"  two backups of a plan run at once
                    \*   "touch"    a backup's metadata changes after its completion
                    \*   "unseen"   a file is passed over when the target is read (NFS)
                    \*   "retry"    a poll that failed is followed by another at once
    MaxFaults       \* bound: failed calls, failed reads and crashes

ASSUME ConstantsAssumption ==
    /\ DOMAIN PlanOf = Backups
    /\ ScanOld \subseteq Enabled
    /\ Enabled \subseteq Backups
    /\ NumWorkers \in Nat \ {0}
    /\ Surprises \subseteq {"overlap", "touch", "unseen", "retry"}
    /\ MaxFaults \in Nat

VARIABLES
    backup,         \* what became of each backup
    storage,        \* the backups on the target by age: <<b, c>> when b was
                    \* updated no earlier than c
    recent,         \* those updated in the last five minutes
    scans,          \* the ScanInstances of the target
    at,             \* next step of the main thread
    known,          \* storage_state: those of storage when it was read
    mapped,         \* backups with a ScanInstance, by scaninstance_map
    plans,          \* backup plans that discovery has yet to process
    cleanupQueue,   \* names of ScanInstances; the workers finish in any order
    cleaning,       \* names the cleanup workers hold
    creationQueue,  \* backups; the workers finish in any order
    creating,       \* backups the creation workers hold
    rested,         \* the next poll may begin
    faults          \* how many faults occurred

target == <<backup, storage, recent>>
local == <<known, mapped, plans>>
pools == <<cleanupQueue, cleaning, creationQueue, creating>>
vars == <<target, scans, at, local, pools, rested, faults>>

-----------------------------------------------------------------------------

In(order) == {b \in Backups : <<b, b>> \in order}

Within(set, order) == {pair \in order : pair[1] \in set /\ pair[2] \in set}

\* labels: whether the pre-scan container has set them, or failed.
Scan == [backup : Backups, labels : {"pending", "set", "never"},
         deleting : BOOLEAN]
CONSTANT NoScan
ASSUME NoScanAssumption == NoScan \notin Scan

TypeOK ==
    /\ backup \in [Backups -> {"none", "running", "available", "gone"}]
    /\ storage \subseteq Backups \X Backups
    /\ In(storage) = {b \in Backups : backup[b] \in {"running", "available"}}
    /\ recent \subseteq In(storage)
    /\ scans \in [Names -> Scan \cup {NoScan}]
    /\ at \in {"idle", "cleanup", "cleanupJoin", "discovery", "plans",
               "creationJoin", "shutdown"}
    /\ known \subseteq Backups \X Backups
    /\ mapped \subseteq Backups
    /\ plans \subseteq {PlanOf[b] : b \in Backups}
    /\ cleanupQueue \subseteq Names
    /\ cleaning \subseteq Names /\ Cardinality(cleaning) <= NumWorkers
    /\ creationQueue \subseteq Backups
    /\ creating \subseteq Backups /\ Cardinality(creating) <= NumWorkers
    /\ rested \in BOOLEAN
    /\ faults \in 0..MaxFaults

Init ==
    /\ backup = [b \in Backups |-> "none"]
    /\ storage = {}
    /\ recent = {}
    /\ scans = [n \in Names |-> NoScan]
    /\ at = "idle"
    /\ known = {} /\ mapped = {} /\ plans = {}
    /\ cleanupQueue = {} /\ cleaning = {}
    /\ creationQueue = {} /\ creating = {}
    /\ rested = TRUE
    /\ faults = 0

Fault == faults < MaxFaults /\ faults' = faults + 1

-----------------------------------------------------------------------------
(* The main thread. *)

\* The end of the process: its threads are daemons and its queues are gone.
Ends ==
    /\ at' = "idle"
    /\ known' = {} /\ mapped' = {} /\ plans' = {}
    /\ cleanupQueue' = {} /\ cleaning' = {}
    /\ creationQueue' = {} /\ creating' = {}
    /\ UNCHANGED <<target, scans>>

\* (Mutation: a plan is left out when one of its backups is.)
StorageStateByPlan ==
    Within({b \in In(storage) : \A c \in recent : PlanOf[c] # PlanOf[b]}, storage)

\* Backups updated in the last five minutes are left out: they may be running.
StorageState == Within(In(storage) \ recent, storage)

\* The result of reading the target.
ReadStorage ==
    \/ known' = StorageState /\ UNCHANGED faults
    \/ /\ "unseen" \in Surprises
       /\ Fault
       /\ \E b \in In(storage) : known' = Within(In(storage) \ {b}, StorageState)

Initialize ==
    /\ at = "idle"
    /\ rested
    /\ at' = "cleanup"
    /\ ReadStorage
    /\ UNCHANGED <<target, scans, mapped, plans, pools, rested>>

HasBackupplan(b) == \E c \in In(known) : PlanOf[c] = PlanOf[b]
HasBackup(b) == b \in In(known)

\* (Mutation: a backup is not looked up in its plan.)
StalePlan(b) == ~HasBackupplan(b)

Stale(b) == ~HasBackupplan(b) \/ ~HasBackup(b)

\* The selector finds what the pre-scan container labelled.
Listed == {n \in Names : scans[n] # NoScan /\ scans[n].labels = "set"}

\* (Mutation: discovery does not wait for the cleanup.)
PerformCleanupAndGoOn ==
    /\ at = "cleanup"
    /\ LET stale == {n \in Listed : Stale(scans[n].backup)}
       IN /\ mapped' = {scans[n].backup : n \in Listed \ stale}
          /\ cleanupQueue' = stale
          /\ at' = "discovery"
    /\ UNCHANGED <<target, scans, known, plans, cleaning, creationQueue, creating,
                   rested, faults>>

\* A list that fails is an empty list.
PerformCleanup ==
    /\ at = "cleanup"
    /\ \/ LET stale == {n \in Listed : Stale(scans[n].backup)}
          IN /\ mapped' = {scans[n].backup : n \in Listed \ stale}
             /\ cleanupQueue' = stale
             /\ at' = IF stale = {} THEN "discovery" ELSE "cleanupJoin"
             /\ UNCHANGED faults
       \/ /\ Fault
          /\ at' = "discovery"
          /\ UNCHANGED <<mapped, cleanupQueue>>
    /\ UNCHANGED <<target, scans, known, plans, cleaning, creationQueue, creating,
                   rested>>

CleanupComplete ==
    /\ at = "cleanupJoin"
    /\ cleanupQueue = {} /\ cleaning = {}
    /\ at' = "discovery"
    /\ UNCHANGED <<target, scans, local, pools, rested, faults>>

RefreshStorageState ==
    /\ at = "discovery"
    /\ at' = "plans"
    /\ ReadStorage
    /\ plans' = {PlanOf[b] : b \in In(known')}
    /\ UNCHANGED <<target, scans, mapped, pools, rested>>

HasScanInstance(b) == b \in mapped

\* The backups of a plan whose metadata says, now, that they are available; a
\* file that cannot be read says no.
Available(plan, unreadable) ==
    {b \in In(known) \ unreadable : PlanOf[b] = plan /\ backup[b] = "available"}

Latest(b) == \A c \in In(known) : PlanOf[c] = PlanOf[b] => <<b, c>> \in known

\* The backups that come, from the latest to the oldest, before the first that
\* has a ScanInstance or is not to be scanned.
Walk(list, enabled) ==
    {b \in list : \A c \in list :
        <<c, b>> \in known => ~HasScanInstance(c) /\ c \in enabled}

Unprocessed(list) == {b \in list : ~HasScanInstance(b)}

\* (Mutations: what has a ScanInstance is processed again; the walk ends at a
\* backup that is not available.)
BackupChainAgain(list, enabled) ==
    IF \E b \in Walk(list, enabled) : Latest(b) /\ b \in ScanOld
    THEN list
    ELSE Walk(list, enabled)

BackupChainToGap(list, enabled) ==
    IF \E b \in list : Latest(b) THEN Walk(list, enabled) ELSE {}

\* What is queued: the walk from the latest backup, or, if that one is to be
\* scanned and its plan says so, every unprocessed backup of the plan.
BackupChain(list, enabled) ==
    IF \E b \in Walk(list, enabled) : Latest(b) /\ b \in ScanOld
    THEN Unprocessed(list)
    ELSE Walk(list, enabled)

\* A backup whose metadata cannot be read is passed over; one whose plan file
\* cannot be read is not to be scanned.
ProcessBackupplan(plan) ==
    /\ at = "plans"
    /\ plan \in plans
    /\ plans' = plans \ {plan}
    /\ \E unreadable, planless \in {{}} \cup {{b} : b \in In(known)} :
          /\ creationQueue' = creationQueue \cup
                BackupChain(Available(plan, unreadable), Enabled \ planless)
          /\ \/ unreadable = {} /\ planless = {} /\ UNCHANGED faults
             \/ unreadable \cup planless # {} /\ Fault
    /\ UNCHANGED <<target, scans, at, known, mapped, cleanupQueue, cleaning,
                   creating, rested>>

\* Whether to wait is decided by the length of the queue, which does not count
\* what the workers hold.
DiscoveryQueued ==
    /\ at = "plans"
    /\ plans = {}
    /\ at' = IF creationQueue = {} THEN "shutdown" ELSE "creationJoin"
    /\ UNCHANGED <<target, scans, local, pools, rested, faults>>

CreationComplete ==
    /\ at = "creationJoin"
    /\ creationQueue = {} /\ creating = {}
    /\ at' = "shutdown"
    /\ UNCHANGED <<target, scans, local, pools, rested, faults>>

\* The workers get five seconds for the calls they are making.
Shutdown ==
    /\ at = "shutdown"
    /\ \/ creating = {} /\ UNCHANGED faults
       \/ creating # {} /\ Fault
    /\ rested' = FALSE
    /\ Ends

\* A read of the target that fails ends the process, and so does a crash; its
\* job may try again.
Fails ==
    /\ at # "idle"
    /\ Fault
    /\ rested' = ("retry" \in Surprises)
    /\ Ends

Main ==
    \/ Initialize \/ PerformCleanup \/ CleanupComplete
    \/ RefreshStorageState \/ \E plan \in plans : ProcessBackupplan(plan)
    \/ DiscoveryQueued \/ CreationComplete \/ Shutdown

-----------------------------------------------------------------------------
(* The worker threads. *)

TakeCleanup(n) ==
    /\ n \in cleanupQueue
    /\ Cardinality(cleaning) < NumWorkers
    /\ cleanupQueue' = cleanupQueue \ {n}
    /\ cleaning' = cleaning \cup {n}
    /\ UNCHANGED <<target, scans, at, local, creationQueue, creating, rested, faults>>

\* A deletion that fails is counted and left to the next poll.
ProcessCleanup(n) ==
    /\ n \in cleaning
    /\ cleaning' = cleaning \ {n}
    /\ \/ /\ scans' = IF scans[n] = NoScan THEN scans
                      ELSE [scans EXCEPT ![n].deleting = TRUE]
          /\ UNCHANGED faults
       \/ Fault /\ UNCHANGED scans
    /\ UNCHANGED <<target, at, local, cleanupQueue, creationQueue, creating, rested>>

TakeCreation(b) ==
    /\ b \in creationQueue
    /\ Cardinality(creating) < NumWorkers
    /\ creationQueue' = creationQueue \ {b}
    /\ creating' = creating \cup {b}
    /\ UNCHANGED <<target, scans, at, local, cleanupQueue, cleaning, rested, faults>>

\* The name is a fresh UUID; a creation that fails is counted and forgotten.
ProcessCreation(b) ==
    /\ b \in creating
    /\ creating' = creating \ {b}
    /\ \/ /\ \E n \in Names \ (cleanupQueue \cup cleaning) :
                /\ scans[n] = NoScan
                /\ scans' = [scans EXCEPT ![n] =
                      [backup |-> b, labels |-> "pending", deleting |-> FALSE]]
          /\ UNCHANGED faults
       \/ Fault /\ UNCHANGED scans
    /\ UNCHANGED <<target, at, local, cleanupQueue, cleaning, creationQueue, rested>>

Workers ==
    \/ \E n \in Names : TakeCleanup(n) \/ ProcessCleanup(n)
    \/ \E b \in Backups : TakeCreation(b) \/ ProcessCreation(b)

-----------------------------------------------------------------------------
(* The target, the pre-scan container and the ScanInstance controller. *)

Process == <<at, local, pools>>

Updated(b) ==
    /\ storage' = Within(In(storage) \ {b}, storage)
                     \cup {<<b, c>> : c \in In(storage) \cup {b}}
    /\ recent' = recent \cup {b}

BackupStarts(b) ==
    /\ backup[b] = "none"
    /\ \/ "overlap" \in Surprises
       \/ \A c \in Backups : PlanOf[c] = PlanOf[b] => backup[c] # "running"
    /\ backup' = [backup EXCEPT ![b] = "running"]
    /\ Updated(b)
    /\ UNCHANGED <<scans, Process, rested, faults>>

BackupCompletes(b) ==
    /\ backup[b] = "running"
    /\ backup' = [backup EXCEPT ![b] = "available"]
    /\ Updated(b)
    /\ UNCHANGED <<scans, Process, rested, faults>>

BackupTouched(b) ==
    /\ "touch" \in Surprises
    /\ backup[b] = "available"
    /\ Updated(b)
    /\ UNCHANGED <<backup, scans, Process, rested, faults>>

BackupRemoved(b) ==
    /\ b \in In(storage)
    /\ backup' = [backup EXCEPT ![b] = "gone"]
    /\ storage' = Within(In(storage) \ {b}, storage)
    /\ recent' = recent \ {b}
    /\ UNCHANGED <<scans, Process, rested, faults>>

\* Five minutes after the update of b: those updated before it are older.
BackupSettles(b) ==
    /\ b \in recent
    /\ \A c \in recent \ {b} : <<b, c>> \notin storage
    /\ recent' = recent \ {b}
    /\ UNCHANGED <<backup, storage, scans, Process, rested, faults>>

\* Between two polls all pre-scans end and five minutes pass.
Rest ==
    /\ at = "idle"
    /\ ~rested
    /\ \A n \in Names : scans[n] # NoScan => scans[n].labels # "pending"
    /\ rested' = TRUE
    /\ recent' = {}
    /\ UNCHANGED <<backup, storage, scans, Process, faults>>

PreScanLabels(n) ==
    /\ scans[n] # NoScan
    /\ scans[n].labels = "pending"
    /\ \/ /\ backup[scans[n].backup] # "gone"
          /\ scans' = [scans EXCEPT ![n].labels = "set"]
          /\ UNCHANGED faults
       \/ /\ scans' = [scans EXCEPT ![n].labels = "never"]
          /\ IF backup[scans[n].backup] = "gone" THEN UNCHANGED faults ELSE Fault
    /\ UNCHANGED <<target, Process, rested>>

ControllerRemoves(n) ==
    /\ scans[n] # NoScan
    /\ scans[n].deleting
    /\ scans' = [scans EXCEPT ![n] = NoScan]
    /\ UNCHANGED <<target, Process, rested, faults>>

Surroundings ==
    \/ \E b \in Backups :
          \/ BackupStarts(b) \/ BackupCompletes(b) \/ BackupTouched(b)
          \/ BackupRemoved(b) \/ BackupSettles(b)
    \/ Rest
    \/ \E n \in Names : PreScanLabels(n) \/ ControllerRemoves(n)

Next == Main \/ Fails \/ Workers \/ Surroundings

Spec == Init /\ [][Next]_vars

\* The CronJob starts polls, threads run, pre-scans end, and the controller
\* removes what is deleted; backups and faults are under no obligation.
Fairness ==
    /\ WF_vars(Main)
    /\ \A n \in Names : WF_vars(TakeCleanup(n)) /\ WF_vars(ProcessCleanup(n))
    /\ \A b \in Backups : WF_vars(TakeCreation(b)) /\ WF_vars(ProcessCreation(b))
    /\ WF_vars(Rest)
    /\ \A n \in Names : WF_vars(PreScanLabels(n)) /\ WF_vars(ControllerRemoves(n))

FairSpec == Spec /\ Fairness

=============================================================================
