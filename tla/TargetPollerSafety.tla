-------------------------- MODULE TargetPollerSafety --------------------------
(* Proofs about the target poller, for all values of its constants. *)
EXTENDS TargetPollerProperties, FiniteSetTheorems, TLAPS

\* What the workers hold can be counted.
FinitePools == IsFiniteSet(cleaning) /\ IsFiniteSet(creating)

TypeInv == TypeOK /\ FinitePools

\* A set grows or shrinks by one element.
LEMMA OneMore ==
    ASSUME NEW S, NEW x, NEW T, IsFiniteSet(S), S \subseteq T, x \in T,
           Cardinality(S) < NumWorkers
    PROVE  /\ S \cup {x} \subseteq T
           /\ IsFiniteSet(S \cup {x})
           /\ Cardinality(S \cup {x}) <= NumWorkers
<1>1. IsFiniteSet(S \cup {x})
    BY FS_AddElement
<1>2. Cardinality(S \cup {x}) = Cardinality(S) \/ Cardinality(S \cup {x}) = Cardinality(S) + 1
    BY FS_AddElement
<1>3. Cardinality(S) \in Nat
    BY FS_CardinalityType
<1> QED
    BY <1>1, <1>2, <1>3, ConstantsAssumption

LEMMA OneLess ==
    ASSUME NEW S, NEW x, NEW T, IsFiniteSet(S), S \subseteq T,
           Cardinality(S) <= NumWorkers
    PROVE  /\ S \ {x} \subseteq T
           /\ IsFiniteSet(S \ {x})
           /\ Cardinality(S \ {x}) <= NumWorkers
<1>1. IsFiniteSet(S \ {x})
    BY FS_RemoveElement
<1>2. Cardinality(S \ {x}) = Cardinality(S) \/ Cardinality(S \ {x}) = Cardinality(S) - 1
    BY FS_RemoveElement
<1>3. Cardinality(S) \in Nat
    BY FS_CardinalityType
<1> QED
    BY <1>1, <1>2, <1>3, ConstantsAssumption

LEMMA TypeInit == Init => TypeInv
<1> SUFFICES ASSUME Init PROVE TypeInv
    OBVIOUS
<1>1. IsFiniteSet({}) /\ Cardinality({}) = 0
    BY FS_EmptySet
<1>2. In(storage) = {}
    BY DEF Init, In
<1> QED
    BY <1>1, <1>2, ConstantsAssumption DEF Init, TypeInv, TypeOK, FinitePools

\* The types of what the process keeps for itself, and of what it leaves alone.
LEMMA TypeEnds ==
    ASSUME TypeInv, Ends, faults' \in 0..MaxFaults, rested' \in BOOLEAN
    PROVE  TypeInv'
<1>1. IsFiniteSet({}) /\ Cardinality({}) = 0
    BY FS_EmptySet
<1> QED
    BY <1>1, ConstantsAssumption
    DEF Ends, TypeInv, TypeOK, FinitePools, target, In, Scan

LEMMA TypeFault == TypeInv /\ Fault => faults' \in 0..MaxFaults
    BY ConstantsAssumption DEF TypeInv, TypeOK, Fault

LEMMA TypeMain == TypeInv /\ Main => TypeInv'
<1> SUFFICES ASSUME TypeInv, Main PROVE TypeInv'
    OBVIOUS
<1> USE DEF TypeInv, TypeOK, FinitePools
<1>1. CASE Initialize
    <2>1. known' \subseteq storage /\ faults' \in 0..MaxFaults
        BY <1>1, TypeFault DEF Initialize, ReadStorage, StorageState, Within
    <2> QED
        BY <1>1, <2>1 DEF Initialize, target, pools, In
<1>2. CASE PerformCleanup
    <2>1. faults' \in 0..MaxFaults
        BY <1>2, TypeFault DEF PerformCleanup
    <2>2. mapped' \subseteq Backups /\ cleanupQueue' \subseteq Names
        BY <1>2 DEF PerformCleanup, Listed, Scan
    <2> QED
        BY <1>2, <2>1, <2>2 DEF PerformCleanup, target, In
<1>3. CASE CleanupComplete
    BY <1>3 DEF CleanupComplete, target, local, pools, In
<1>4. CASE RefreshStorageState
    <2>1. known' \subseteq storage /\ faults' \in 0..MaxFaults
        BY <1>4, TypeFault DEF RefreshStorageState, ReadStorage, StorageState, Within
    <2> QED
        BY <1>4, <2>1 DEF RefreshStorageState, target, pools, In
<1>5. ASSUME NEW plan \in plans, ProcessBackupplan(plan) PROVE TypeInv'
    <2>1. faults' \in 0..MaxFaults
        BY <1>5, TypeFault DEF ProcessBackupplan
    <2>2. creationQueue' \subseteq Backups
        BY <1>5 DEF ProcessBackupplan, BackupChain, Unprocessed, Walk, Available, In
    <2> QED
        BY <1>5, <2>1, <2>2 DEF ProcessBackupplan, target, In
<1>6. CASE DiscoveryQueued
    BY <1>6 DEF DiscoveryQueued, target, local, pools, In
<1>7. CASE CreationComplete
    BY <1>7 DEF CreationComplete, target, local, pools, In
<1>8. CASE Shutdown
    BY <1>8, TypeEnds, TypeFault DEF Shutdown
<1> QED
    BY <1>1, <1>2, <1>3, <1>4, <1>5, <1>6, <1>7, <1>8 DEF Main

LEMMA TypeWorkers == TypeInv /\ (Fails \/ Workers) => TypeInv'
<1> SUFFICES ASSUME TypeInv, Fails \/ Workers PROVE TypeInv'
    OBVIOUS
<1>1. CASE Fails
    BY <1>1, TypeEnds, TypeFault DEF Fails
<1> USE DEF TypeInv, TypeOK, FinitePools
<1>2. ASSUME NEW n \in Names, TakeCleanup(n) PROVE TypeInv'
    <2>1. /\ cleaning' \subseteq Names
          /\ IsFiniteSet(cleaning')
          /\ Cardinality(cleaning') <= NumWorkers
        BY <1>2, OneMore DEF TakeCleanup
    <2> QED
        BY <1>2, <2>1 DEF TakeCleanup, target, local, In
<1>3. ASSUME NEW n \in Names, ProcessCleanup(n) PROVE TypeInv'
    <2>1. /\ cleaning' \subseteq Names
          /\ IsFiniteSet(cleaning')
          /\ Cardinality(cleaning') <= NumWorkers
        BY <1>3, OneLess DEF ProcessCleanup
    <2>2. faults' \in 0..MaxFaults
        BY <1>3, TypeFault DEF ProcessCleanup
    <2>3. scans' \in [Names -> Scan \cup {NoScan}]
        <3>1. scans[n] # NoScan => [scans[n] EXCEPT !.deleting = TRUE] \in Scan
            BY DEF Scan
        <3> QED
            BY <1>3, <3>1 DEF ProcessCleanup
    <2> QED
        BY <1>3, <2>1, <2>2, <2>3 DEF ProcessCleanup, target, local, In
<1>4. ASSUME NEW b \in Backups, TakeCreation(b) PROVE TypeInv'
    <2>1. /\ creating' \subseteq Backups
          /\ IsFiniteSet(creating')
          /\ Cardinality(creating') <= NumWorkers
        BY <1>4, OneMore DEF TakeCreation
    <2> QED
        BY <1>4, <2>1 DEF TakeCreation, target, local, In
<1>5. ASSUME NEW b \in Backups, ProcessCreation(b) PROVE TypeInv'
    <2>1. /\ creating' \subseteq Backups
          /\ IsFiniteSet(creating')
          /\ Cardinality(creating') <= NumWorkers
        BY <1>5, OneLess DEF ProcessCreation
    <2>2. faults' \in 0..MaxFaults
        BY <1>5, TypeFault DEF ProcessCreation
    <2>3. scans' \in [Names -> Scan \cup {NoScan}]
        <3>1. [backup |-> b, labels |-> "pending", deleting |-> FALSE] \in Scan
            BY DEF Scan
        <3> QED
            BY <1>5, <3>1 DEF ProcessCreation
    <2> QED
        BY <1>5, <2>1, <2>2, <2>3 DEF ProcessCreation, target, local, In
<1> QED
    BY <1>1, <1>2, <1>3, <1>4, <1>5 DEF Workers

LEMMA TypeSurroundings == TypeInv /\ Surroundings => TypeInv'
<1> SUFFICES ASSUME TypeInv, Surroundings PROVE TypeInv'
    OBVIOUS
<1> USE DEF TypeInv, TypeOK, FinitePools
<1>1. ASSUME NEW b \in Backups, Updated(b)
      PROVE  /\ storage' \subseteq Backups \X Backups
             /\ In(storage') = In(storage) \cup {b}
    <2>1. storage' = Within(In(storage) \ {b}, storage)
                     \cup {<<b, c>> : c \in In(storage) \cup {b}}
        BY <1>1 DEF Updated
    <2>2. storage' \subseteq Backups \X Backups
        <3>1. Within(In(storage) \ {b}, storage) \subseteq storage
            BY DEF Within
        <3>2. ASSUME NEW c \in In(storage) \cup {b}
              PROVE  <<b, c>> \in Backups \X Backups
            BY DEF In
        <3>3. storage \subseteq Backups \X Backups
            OBVIOUS
        <3> HIDE DEF TypeInv
        <3> QED
            BY <2>1, <3>1, <3>2, <3>3
    <2>3. ASSUME NEW c \in Backups
          PROVE  <<c, c>> \in storage' <=> c = b \/ <<c, c>> \in storage
        BY <2>1 DEF Within, In
    <2> QED
        BY <2>2, <2>3 DEF In
<1>2. ASSUME NEW b \in Backups, BackupStarts(b) PROVE TypeInv'
    BY <1>1, <1>2 DEF BackupStarts, Updated, Process, local, pools
<1>3. ASSUME NEW b \in Backups, BackupCompletes(b) PROVE TypeInv'
    BY <1>1, <1>3 DEF BackupCompletes, Updated, Process, local, pools
<1>4. ASSUME NEW b \in Backups, BackupTouched(b) PROVE TypeInv'
    BY <1>1, <1>4 DEF BackupTouched, Updated, Process, local, pools
<1>5. ASSUME NEW b \in Backups, BackupRemoved(b) PROVE TypeInv'
    <2>1. storage' \subseteq Backups \X Backups /\ In(storage') = In(storage) \ {b}
        BY <1>5 DEF BackupRemoved, Within, In
    <2> QED
        BY <1>5, <2>1 DEF BackupRemoved, Process, local, pools
<1>6. ASSUME NEW b \in Backups, BackupSettles(b) PROVE TypeInv'
    BY <1>6 DEF BackupSettles, Process, local, pools, In
<1>7. CASE Rest
    BY <1>7 DEF Rest, Process, local, pools, In
<1>8. ASSUME NEW n \in Names, PreScanLabels(n) PROVE TypeInv'
    <2>1. faults' \in 0..MaxFaults
        BY <1>8, TypeFault DEF PreScanLabels
    <2>2. scans' \in [Names -> Scan \cup {NoScan}]
        BY <1>8 DEF PreScanLabels, Scan
    <2> QED
        BY <1>8, <2>1, <2>2 DEF PreScanLabels, target, Process, local, pools, In
<1>9. ASSUME NEW n \in Names, ControllerRemoves(n) PROVE TypeInv'
    BY <1>9 DEF ControllerRemoves, target, Process, local, pools, In
<1> QED
    BY <1>2, <1>3, <1>4, <1>5, <1>6, <1>7, <1>8, <1>9 DEF Surroundings

LEMMA TypeStep == TypeInv /\ [Next]_vars => TypeInv'
<1> SUFFICES ASSUME TypeInv, [Next]_vars PROVE TypeInv'
    OBVIOUS
<1>1. CASE UNCHANGED vars
    BY <1>1 DEF vars, target, local, pools, TypeInv, TypeOK, FinitePools, In
<1> QED
    BY <1>1, TypeMain, TypeWorkers, TypeSurroundings DEF Next

LEMMA TypeAlways == Spec => []TypeInv
<1> QED
    BY TypeInit, TypeStep, PTL DEF Spec

\* Every variable keeps its type: no pool ever holds more than its workers.
THEOREM PollerTypes == Spec => []TypeOK
<1>1. TypeInv => TypeOK
    BY DEF TypeInv
<1> QED
    BY <1>1, TypeAlways, PTL

-----------------------------------------------------------------------------
(* The phases of a poll. *)

\* Outside its phase, a pool has nothing to do.
Phases ==
    /\ at # "cleanupJoin" => cleanupQueue = {} /\ cleaning = {}
    /\ at \notin {"plans", "creationJoin", "shutdown"} =>
          creationQueue = {} /\ creating = {}

LEMMA PhasesInit == Init => Phases
<1> QED
    BY DEF Init, Phases

LEMMA PhasesStep == Phases /\ [Next]_vars => Phases'
<1> SUFFICES ASSUME Phases, [Next]_vars PROVE Phases'
    OBVIOUS
<1> USE DEF Phases
<1>1. CASE Initialize
    BY <1>1 DEF Initialize, pools
<1>2. CASE PerformCleanup
    BY <1>2 DEF PerformCleanup
<1>3. CASE CleanupComplete
    BY <1>3 DEF CleanupComplete, pools
<1>4. CASE RefreshStorageState
    BY <1>4 DEF RefreshStorageState, pools
<1>5. ASSUME NEW plan \in plans, ProcessBackupplan(plan) PROVE Phases'
    BY <1>5 DEF ProcessBackupplan
<1>6. CASE DiscoveryQueued
    BY <1>6 DEF DiscoveryQueued, pools
<1>7. CASE CreationComplete
    BY <1>7 DEF CreationComplete, pools
<1>8. CASE Shutdown \/ Fails
    BY <1>8 DEF Shutdown, Fails, Ends
<1>9. CASE Workers
    BY <1>9 DEF Workers, TakeCleanup, ProcessCleanup, TakeCreation, ProcessCreation
<1>10. CASE Surroundings
    BY <1>10 DEF Surroundings, BackupStarts, BackupCompletes, BackupTouched,
       BackupRemoved, BackupSettles, Rest, PreScanLabels, ControllerRemoves,
       Process, pools
<1>11. CASE UNCHANGED vars
    BY <1>11 DEF vars, pools
<1> QED
    BY <1>1, <1>2, <1>3, <1>4, <1>5, <1>6, <1>7, <1>8, <1>9, <1>10, <1>11
    DEF Next, Main

LEMMA PhasesAlways == Spec => []Phases
<1> QED
    BY PhasesInit, PhasesStep, PTL DEF Spec

\* Nothing is created while something is to be deleted, whatever fails, however
\* many threads the pools have and whatever happens on the target.
THEOREM CleanupBeforeDiscovery == Spec => []CleanupFirst
<1>1. Phases => CleanupFirst
    BY DEF Phases, CleanupFirst
<1> QED
    BY <1>1, PhasesAlways, PTL

-----------------------------------------------------------------------------
(* What is deleted is stale. *)

Finished == {"available", "gone"}

\* Only backups that were available are queued, and have ScanInstances.
OnlyFinished ==
    /\ \A b \in creationQueue \cup creating : backup[b] \in Finished
    /\ \A n \in Names : scans[n] # NoScan => backup[scans[n].backup] \in Finished

QueuedGone ==
    \A n \in cleanupQueue \cup cleaning :
        scans[n] # NoScan => backup[scans[n].backup] = "gone"

\* When a poll begins, the backups with a ScanInstance are not recent ...
RestedSettled ==
    at = "idle" /\ rested =>
        \A n \in Names : scans[n] # NoScan => scans[n].backup \notin recent

\* ... and so they are all in the storage state, if they are on the target.
CleanupKnows ==
    at = "cleanup" =>
        \A n \in Names : scans[n] # NoScan =>
            backup[scans[n].backup] = "gone" \/ scans[n].backup \in In(known)

StaleInv == OnlyFinished /\ QueuedGone /\ RestedSettled /\ CleanupKnows

\* The target is read completely, backups do not change once they are available,
\* and polls do not follow one another at once.
NoSurprise == Surprises \subseteq {"overlap"}

LEMMA StaleInit == Init => StaleInv
<1> QED
    BY DEF Init, StaleInv, OnlyFinished, QueuedGone, RestedSettled, CleanupKnows

LEMMA StaleMain ==
    ASSUME NoSurprise, TypeOK, Phases, StaleInv, Main \/ Fails PROVE StaleInv'
<1> USE DEF StaleInv, OnlyFinished, QueuedGone, RestedSettled, CleanupKnows
<1>1. CASE Initialize
    <2>1. known' = StorageState
        BY <1>1 DEF Initialize, ReadStorage, NoSurprise
    <2>2. ASSUME NEW b \in Backups, backup[b] = "available", b \notin recent
          PROVE  b \in In(known')
        <3>1. <<b, b>> \in storage
            BY <2>2 DEF TypeOK, In
        <3> QED
            BY <2>1, <2>2, <3>1 DEF StorageState, Within, In
    <2>3. \A n \in Names : scans[n] # NoScan => scans[n].backup \in Backups
        BY DEF TypeOK, Scan
    <2> QED
        BY <1>1, <2>2, <2>3 DEF Initialize, target, pools, Finished, In
<1>2. CASE PerformCleanup
    <2>1. \A n \in Names : scans[n] # NoScan => scans[n].backup \in Backups
        BY DEF TypeOK, Scan
    <2>2. ASSUME NEW n \in cleanupQueue' \cup cleaning', scans[n] # NoScan
          PROVE  backup[scans[n].backup] = "gone"
        <3>1. cleanupQueue = {} /\ cleaning' = {}
            BY <1>2 DEF PerformCleanup, Phases
        <3>2. n \in Listed /\ Stale(scans[n].backup)
            BY <1>2, <2>2, <3>1 DEF PerformCleanup
        <3> QED
            BY <1>2, <2>1, <2>2, <3>2
            DEF PerformCleanup, Listed, Stale, HasBackupplan, HasBackup
    <2> QED
        BY <1>2, <2>2 DEF PerformCleanup, target
<1>3. CASE CleanupComplete \/ DiscoveryQueued \/ CreationComplete
    BY <1>3 DEF CleanupComplete, DiscoveryQueued, CreationComplete, target, local, pools
<1>4. CASE RefreshStorageState
    BY <1>4 DEF RefreshStorageState, target, pools
<1>5. ASSUME NEW plan \in plans, ProcessBackupplan(plan) PROVE StaleInv'
    <2>1. \A b \in creationQueue' : b \in creationQueue \/ backup[b] = "available"
        BY <1>5 DEF ProcessBackupplan, BackupChain, Unprocessed, Walk, Available
    <2> QED
        BY <1>5, <2>1 DEF ProcessBackupplan, target, Finished
<1>6. CASE Shutdown \/ Fails
    <2>1. "retry" \notin Surprises
        BY DEF NoSurprise
    <2>2. ~rested'
        BY <1>6, <2>1 DEF Shutdown, Fails
    <2> QED
        BY <1>6, <2>2 DEF Shutdown, Fails, Ends, target
<1> QED
    BY <1>1, <1>2, <1>3, <1>4, <1>5, <1>6 DEF Main

LEMMA StaleWorkers ==
    ASSUME TypeOK, Phases, StaleInv, Workers PROVE StaleInv'
<1> USE DEF StaleInv, OnlyFinished, QueuedGone, RestedSettled, CleanupKnows
<1>1. ASSUME NEW n \in Names, TakeCleanup(n) PROVE StaleInv'
    BY <1>1 DEF TakeCleanup, target, local
<1>2. ASSUME NEW n \in Names, ProcessCleanup(n) PROVE StaleInv'
    <2>1. ASSUME NEW m \in Names, scans'[m] # NoScan
          PROVE  scans[m] # NoScan /\ scans'[m].backup = scans[m].backup
        BY <1>2, <2>1 DEF ProcessCleanup, TypeOK, Scan
    <2> QED
        BY <1>2, <2>1 DEF ProcessCleanup, target, local, TypeOK
<1>3. ASSUME NEW b \in Backups, TakeCreation(b) PROVE StaleInv'
    BY <1>3 DEF TakeCreation, target, local
<1>4. ASSUME NEW b \in Backups, ProcessCreation(b) PROVE StaleInv'
    <2>1. at \in {"plans", "creationJoin", "shutdown"} /\ backup[b] \in Finished
        BY <1>4 DEF ProcessCreation, Phases
    <2>2. ASSUME NEW m \in Names, scans'[m] # NoScan
          PROVE  \/ scans'[m] = scans[m]
                 \/ /\ scans'[m].backup = b
                    /\ m \notin cleanupQueue \cup cleaning
        BY <1>4, <2>2 DEF ProcessCreation, TypeOK
    <2> QED
        BY <1>4, <2>1, <2>2 DEF ProcessCreation, target, local, TypeOK
<1> QED
    BY <1>1, <1>2, <1>3, <1>4 DEF Workers

LEMMA StaleSurroundings ==
    ASSUME NoSurprise, TypeOK, StaleInv, Surroundings PROVE StaleInv'
<1> USE DEF StaleInv, OnlyFinished, QueuedGone, RestedSettled, CleanupKnows, Finished
<1>1. \A n \in Names : scans[n] # NoScan => scans[n].backup \in Backups
    BY DEF TypeOK, Scan
<1>2. /\ creationQueue \subseteq Backups /\ creating \subseteq Backups
      /\ cleanupQueue \subseteq Names /\ cleaning \subseteq Names
      /\ backup \in [Backups -> {"none", "running", "available", "gone"}]
    BY DEF TypeOK
<1>3. ASSUME NEW b \in Backups, BackupStarts(b) \/ BackupCompletes(b) PROVE StaleInv'
    <2>1. /\ backup[b] \notin Finished
          /\ \A c \in Backups : backup[c] \in Finished => backup'[c] = backup[c]
          /\ recent' = recent \cup {b}
          /\ UNCHANGED <<scans, Process, rested>>
        BY <1>2, <1>3 DEF BackupStarts, BackupCompletes, Updated
    <2> QED
        BY <1>1, <1>2, <2>1 DEF Process, local, pools, In
<1>4. ASSUME NEW b \in Backups, BackupTouched(b) PROVE StaleInv'
    BY <1>4 DEF BackupTouched, NoSurprise
<1>5. ASSUME NEW b \in Backups, BackupRemoved(b) PROVE StaleInv'
    <2>1. /\ \A c \in Backups : backup'[c] = IF c = b THEN "gone" ELSE backup[c]
          /\ recent' \subseteq recent
          /\ UNCHANGED <<scans, Process, rested>>
        BY <1>2, <1>5 DEF BackupRemoved
    <2> QED
        BY <1>1, <1>2, <2>1 DEF Process, local, pools, In
<1>6. ASSUME NEW b \in Backups, BackupSettles(b) PROVE StaleInv'
    BY <1>6 DEF BackupSettles, Process, local, pools, In
<1>7. CASE Rest
    BY <1>7 DEF Rest, Process, local, pools, In
<1>8. ASSUME NEW n \in Names, PreScanLabels(n) \/ ControllerRemoves(n) PROVE StaleInv'
    <2>1. ASSUME NEW m \in Names, scans'[m] # NoScan
          PROVE  scans[m] # NoScan /\ scans'[m].backup = scans[m].backup
        BY <1>8, <2>1 DEF PreScanLabels, ControllerRemoves, TypeOK, Scan
    <2>2. UNCHANGED <<target, Process, rested>>
        BY <1>8 DEF PreScanLabels, ControllerRemoves
    <2> QED
        BY <1>2, <2>1, <2>2 DEF target, Process, local, pools, In
<1> QED
    BY <1>3, <1>4, <1>5, <1>6, <1>7, <1>8 DEF Surroundings

LEMMA StaleStep ==
    ASSUME NoSurprise, TypeOK, Phases, StaleInv, [Next]_vars PROVE StaleInv'
<1>1. CASE UNCHANGED vars
    BY <1>1 DEF vars, target, local, pools, StaleInv, OnlyFinished, QueuedGone,
       RestedSettled, CleanupKnows, In
<1> QED
    BY <1>1, StaleMain, StaleWorkers, StaleSurroundings DEF Next

\* Only the worker that holds a name marks its ScanInstance as deleted.
Deletes(n) ==
    /\ scans[n] # NoScan /\ ~scans[n].deleting
    /\ scans'[n] # NoScan /\ scans'[n].deleting

LEMMA OnlyWorkersDelete ==
    ASSUME TypeOK, [Next]_vars, NEW n \in Names, Deletes(n)
    PROVE  n \in cleaning
<1> USE DEF Deletes
<1>1. CASE UNCHANGED scans
    BY <1>1
<1>2. ASSUME NEW m \in Names, ProcessCleanup(m) PROVE n \in cleaning
    BY <1>2 DEF ProcessCleanup, TypeOK
<1>3. ASSUME NEW b \in Backups, ProcessCreation(b) PROVE n \in cleaning
    BY <1>3 DEF ProcessCreation, TypeOK
<1>4. ASSUME NEW m \in Names, PreScanLabels(m) PROVE n \in cleaning
    BY <1>4 DEF PreScanLabels, TypeOK, Scan
<1>5. ASSUME NEW m \in Names, ControllerRemoves(m) PROVE n \in cleaning
    BY <1>5 DEF ControllerRemoves, TypeOK
<1>6. CASE Main \/ Fails
    BY <1>1, <1>6 DEF Main, Initialize, PerformCleanup, CleanupComplete,
       RefreshStorageState, ProcessBackupplan, DiscoveryQueued, CreationComplete,
       Shutdown, Fails, Ends
<1>7. CASE Workers
    BY <1>1, <1>2, <1>3, <1>7 DEF Workers, TakeCleanup, TakeCreation
<1>8. CASE Surroundings
    BY <1>1, <1>4, <1>5, <1>8 DEF Surroundings, BackupStarts, BackupCompletes,
       BackupTouched, BackupRemoved, BackupSettles, Rest
<1> QED
    BY <1>1, <1>6, <1>7, <1>8 DEF Next, vars

\* If the target is read completely, backups do not change once available, and a
\* failed poll is not followed by another at once, then, however many threads
\* work and whatever calls fail, a ScanInstance is deleted only after its backup.
THEOREM DeletesOnlyStale ==
    ASSUME NoSurprise PROVE Spec => RemovesOnlyStale
<1>1. TypeInv => TypeOK
    BY DEF TypeInv
<1>2. TypeOK /\ Phases /\ StaleInv /\ [Next]_vars => StaleInv'
    BY StaleStep
<1>3. Spec => []StaleInv
    BY <1>1, <1>2, TypeAlways, PhasesAlways, StaleInit, PTL DEF Spec
<1> DEFINE Step ==
        \A n \in Names :
          scans[n] # NoScan /\ ~scans[n].deleting
          /\ scans'[n] # NoScan /\ scans'[n].deleting
          => backup[scans[n].backup] = "gone"
<1>4. ASSUME TypeOK, StaleInv, [Next]_vars PROVE [Step]_vars
    <2>1. ASSUME NEW n \in Names, Deletes(n) PROVE backup[scans[n].backup] = "gone"
        BY <1>4, <2>1, OnlyWorkersDelete DEF StaleInv, QueuedGone, Deletes
    <2> QED
        BY <2>1 DEF Deletes
<1> QED
    BY <1>1, <1>3, <1>4, TypeAlways, PTL DEF Spec, RemovesOnlyStale

-----------------------------------------------------------------------------
(* A backup has one ScanInstance. *)

\* What is to be created is to be created once, and is not there.
Claims ==
    /\ creationQueue \cap creating = {}
    /\ \A b \in creationQueue \cup creating :
          /\ PlanOf[b] \notin plans
          /\ \A n \in Names : scans[n] # NoScan => scans[n].backup # b

\* When a poll begins, every ScanInstance is labelled or its backup is gone.
Labelled ==
    \A n \in Names : scans[n] # NoScan =>
        /\ scans[n].labels = "never" => backup[scans[n].backup] = "gone"
        /\ at = "cleanup" \/ (at = "idle" /\ rested) => scans[n].labels # "pending"

\* The map that a poll makes of the ScanInstances stays enough for the plans
\* that are still to be processed.
MapServes ==
    at \in {"cleanupJoin", "discovery", "plans"} =>
        \A n \in Names : scans[n] # NoScan =>
            \/ backup[scans[n].backup] = "gone"
            \/ scans[n].backup \in mapped
            \/ at = "plans" /\ PlanOf[scans[n].backup] \notin plans

OneInv == OneScanPerBackup /\ Claims /\ Labelled /\ MapServes

NoFault == MaxFaults = 0

LEMMA NeverFaults == NoFault /\ TypeOK => ~Fault
<1> QED
    BY DEF NoFault, TypeOK, Fault

LEMMA OneInit == Init => OneInv
<1> QED
    BY DEF Init, OneInv, OneScanPerBackup, Claims, Labelled, MapServes

\* The backups queued for a plan are available and without a ScanInstance.
LEMMA ChainUnmapped ==
    ASSUME NEW list, list \subseteq In(known), NEW enabled,
           NEW b \in BackupChain(list, enabled)
    PROVE  b \in list /\ b \notin mapped
<1> QED
    BY DEF BackupChain, Unprocessed, Walk, HasScanInstance, In

LEMMA OneMain ==
    ASSUME NoFault, TypeOK, Phases, StaleInv, OneInv, Main \/ Fails PROVE OneInv'
<1> USE DEF OneInv, OneScanPerBackup, Claims, Labelled, MapServes
<1>0. ~Fault
    BY NeverFaults
<1>1. CASE Initialize
    BY <1>1 DEF Initialize, target, pools, Phases
<1>2. CASE PerformCleanup
    <2>1. ASSUME NEW n \in Names, scans[n] # NoScan
          PROVE  backup[scans[n].backup] = "gone" \/ scans[n].backup \in mapped'
        <3>1. scans[n].labels \in {"pending", "set", "never"}
            BY <2>1 DEF TypeOK, Scan
        <3>2. CASE n \notin Listed
            BY <1>2, <2>1, <3>1, <3>2 DEF PerformCleanup, Listed
        <3>3. CASE n \in Listed /\ Stale(scans[n].backup)
            BY <1>2, <2>1, <3>3
            DEF PerformCleanup, StaleInv, CleanupKnows, Stale, HasBackupplan,
                HasBackup
        <3>4. CASE n \in Listed /\ ~Stale(scans[n].backup)
            BY <1>0, <1>2, <3>4 DEF PerformCleanup
        <3> QED
            BY <3>2, <3>3, <3>4
    <2>2. creationQueue' = {} /\ creating' = {}
        BY <1>2 DEF PerformCleanup, Phases
    <2>3. /\ UNCHANGED <<target, scans>>
          /\ at' \in {"discovery", "cleanupJoin"}
        BY <1>2 DEF PerformCleanup
    <2> QED
        BY <2>1, <2>2, <2>3 DEF target
<1>3. CASE CleanupComplete \/ DiscoveryQueued \/ CreationComplete
    BY <1>3 DEF CleanupComplete, DiscoveryQueued, CreationComplete, target, local,
       pools
<1>4. CASE RefreshStorageState
    BY <1>4 DEF RefreshStorageState, target, pools, Phases
<1>5. ASSUME NEW plan \in plans, ProcessBackupplan(plan) PROVE OneInv'
    <2>1. ASSUME NEW b \in creationQueue', b \notin creationQueue
          PROVE  /\ b \in Backups /\ backup[b] = "available"
                 /\ PlanOf[b] = plan /\ b \notin mapped
        <3>1. PICK unreadable, enabled :
                 b \in BackupChain(Available(plan, unreadable), enabled)
            BY <1>5, <2>1 DEF ProcessBackupplan
        <3>2. Available(plan, unreadable) \subseteq In(known)
            BY DEF Available
        <3>3. b \in Available(plan, unreadable) /\ b \notin mapped
            BY <3>1, <3>2, ChainUnmapped
        <3> QED
            BY <3>3 DEF Available, In
    <2>2. /\ UNCHANGED <<target, scans, at, mapped, creating, rested>>
          /\ plans' = plans \ {plan} /\ at = "plans"
        BY <1>5 DEF ProcessBackupplan
    <2>3. ASSUME NEW b \in creationQueue', NEW n \in Names, scans[n] # NoScan
          PROVE  scans[n].backup # b
        BY <2>1, <2>2, <2>3
    <2>4. \A b \in creationQueue' \cup creating : PlanOf[b] \notin plans'
        BY <2>1, <2>2
    <2>5. creationQueue' \cap creating = {}
        BY <2>1
    <2> QED
        BY <2>2, <2>3, <2>4, <2>5 DEF target
<1>6. CASE Shutdown \/ Fails
    BY <1>0, <1>6 DEF Shutdown, Fails, Ends, target
<1> QED
    BY <1>1, <1>2, <1>3, <1>4, <1>5, <1>6 DEF Main

\* A step after which there are no other ScanInstances, and no more to create.
NothingNew ==
    /\ \A n \in Names : scans'[n] # NoScan =>
          /\ scans[n] # NoScan /\ scans'[n].backup = scans[n].backup
          /\ \/ scans'[n].labels = scans[n].labels
             \/ scans'[n].labels = "set"
             \/ scans'[n].labels = "never" /\ backup[scans[n].backup] = "gone"
          /\ backup[scans[n].backup] = "gone" => backup'[scans[n].backup] = "gone"
          /\ rested' = rested \/ scans'[n].labels # "pending"
    /\ creationQueue' \cup creating' \subseteq creationQueue \cup creating
    /\ creationQueue' \cap creating' = {}
    /\ at' = at /\ mapped' = mapped /\ plans' = plans

LEMMA OneKept == OneInv /\ NothingNew => OneInv'
<1> QED
    BY DEF OneInv, OneScanPerBackup, Claims, Labelled, MapServes, NothingNew

LEMMA OneWorkers ==
    ASSUME NoFault, TypeOK, Phases, OneInv, Workers PROVE OneInv'
<1>0. ~Fault
    BY NeverFaults
<1>1. ASSUME NEW n \in Names, TakeCleanup(n) \/ ProcessCleanup(n) PROVE OneInv'
    <2>1. UNCHANGED <<target, at, local, creationQueue, creating, rested>>
        BY <1>1 DEF TakeCleanup, ProcessCleanup
    <2>2. ASSUME NEW m \in Names, scans'[m] # NoScan
          PROVE  /\ scans[m] # NoScan /\ scans'[m].backup = scans[m].backup
                 /\ scans'[m].labels = scans[m].labels
        <3>1. scans'[m] = scans[m] \/ scans'[m] = [scans[m] EXCEPT !.deleting = TRUE]
            BY <1>1 DEF TakeCleanup, ProcessCleanup, TypeOK
        <3>2. scans[m] # NoScan
            BY <1>1, <2>2 DEF TakeCleanup, ProcessCleanup, TypeOK
        <3>3. scans[m] \in Scan
            BY <3>2 DEF TypeOK
        <3> QED
            BY <3>1, <3>2, <3>3 DEF Scan
    <2>3. creationQueue \cap creating = {}
        BY DEF OneInv, Claims
    <2> QED
        BY <2>1, <2>2, <2>3, OneKept DEF target, local, NothingNew
<1>2. ASSUME NEW b \in Backups, TakeCreation(b) PROVE OneInv'
    <2>1. creationQueue' \cap creating' = {}
        BY <1>2 DEF TakeCreation, OneInv, Claims
    <2> QED
        BY <1>2, <2>1, OneKept DEF TakeCreation, target, local, NothingNew
<1>3. ASSUME NEW b \in Backups, ProcessCreation(b) PROVE OneInv'
    <2>1. PICK n \in Names :
             /\ scans[n] = NoScan
             /\ scans' = [scans EXCEPT ![n] =
                   [backup |-> b, labels |-> "pending", deleting |-> FALSE]]
        BY <1>0, <1>3 DEF ProcessCreation
    <2>2. /\ b \in creating /\ creating' = creating \ {b}
          /\ UNCHANGED <<target, at, local, creationQueue, rested>>
        BY <1>3 DEF ProcessCreation
    <2>3. at \in {"plans", "creationJoin", "shutdown"}
        BY <2>2 DEF Phases
    <2>4. /\ scans'[n].backup = b /\ scans'[n].labels = "pending"
          /\ \A m \in Names : m # n => scans'[m] = scans[m]
        BY <2>1 DEF TypeOK
    <2>5. OneScanPerBackup' /\ Claims'
        BY <2>2, <2>4 DEF OneInv, OneScanPerBackup, Claims, local
    <2>6. Labelled'
        BY <2>2, <2>3, <2>4 DEF OneInv, Labelled, target
    <2>7. MapServes'
        BY <2>2, <2>3, <2>4 DEF OneInv, Claims, MapServes, target, local
    <2> QED
        BY <2>5, <2>6, <2>7 DEF OneInv
<1> QED
    BY <1>1, <1>2, <1>3 DEF Workers

LEMMA OneSurroundings ==
    ASSUME NoFault, TypeOK, OneInv, Surroundings PROVE OneInv'
<1>0. ~Fault
    BY NeverFaults
<1>1. creationQueue \cap creating = {}
    BY DEF OneInv, Claims
<1>2. \A n \in Names : scans[n] # NoScan => scans[n].backup \in Backups
    BY DEF TypeOK, Scan
<1>3. ASSUME NEW b \in Backups,
             \/ BackupStarts(b) \/ BackupCompletes(b) \/ BackupTouched(b)
             \/ BackupRemoved(b) \/ BackupSettles(b)
      PROVE  OneInv'
    <2>1. UNCHANGED <<scans, Process, rested>>
        BY <1>3 DEF BackupStarts, BackupCompletes, BackupTouched, BackupRemoved,
           BackupSettles
    <2>2. \A c \in Backups : backup[c] = "gone" => backup'[c] = "gone"
        <3>1. backup \in [Backups -> {"none", "running", "available", "gone"}]
            BY DEF TypeOK
        <3>2. \/ backup' = backup \/ backup' = [backup EXCEPT ![b] = "gone"]
              \/ backup[b] # "gone" /\ \E s : backup' = [backup EXCEPT ![b] = s]
            BY <1>3 DEF BackupStarts, BackupCompletes, BackupTouched, BackupRemoved,
               BackupSettles
        <3> QED
            BY <3>1, <3>2
    <2> QED
        BY <1>1, <1>2, <2>1, <2>2, OneKept DEF Process, local, pools, NothingNew
<1>4. CASE Rest
    BY <1>1, <1>4, OneKept DEF Rest, Process, local, pools, NothingNew
<1>5. ASSUME NEW n \in Names, PreScanLabels(n) \/ ControllerRemoves(n) PROVE OneInv'
    <2>1. ASSUME NEW m \in Names, scans'[m] # NoScan
          PROVE  /\ scans[m] # NoScan /\ scans'[m].backup = scans[m].backup
                 /\ \/ scans'[m].labels = scans[m].labels
                    \/ scans'[m].labels = "set"
                    \/ /\ scans'[m].labels = "never"
                       /\ backup[scans[m].backup] = "gone"
        <3>1. \/ scans' = [scans EXCEPT ![n] = NoScan]
              \/ /\ scans[n] # NoScan
                 /\ scans' = [scans EXCEPT ![n] = [scans[n] EXCEPT !.labels = "set"]]
              \/ /\ scans[n] # NoScan
                 /\ scans' = [scans EXCEPT ![n] = [scans[n] EXCEPT !.labels = "never"]]
                 /\ backup[scans[n].backup] = "gone"
            BY <1>0, <1>5 DEF PreScanLabels, ControllerRemoves
        <3>2. scans \in [Names -> Scan \cup {NoScan}]
            BY DEF TypeOK
        <3>3. \/ scans'[m] = scans[m]
              \/ /\ scans[m] # NoScan
                 /\ \/ scans'[m] = [scans[m] EXCEPT !.labels = "set"]
                    \/ /\ scans'[m] = [scans[m] EXCEPT !.labels = "never"]
                       /\ backup[scans[m].backup] = "gone"
            BY <2>1, <3>1, <3>2
        <3>4. scans[m] \in Scan
            BY <2>1, <3>2, <3>3
        <3> QED
            BY <2>1, <3>3, <3>4 DEF Scan
    <2>2. UNCHANGED <<target, Process, rested>>
        BY <1>5 DEF PreScanLabels, ControllerRemoves
    <2> QED
        BY <1>1, <2>1, <2>2, OneKept
        DEF target, Process, local, pools, NothingNew
<1> QED
    BY <1>3, <1>4, <1>5 DEF Surroundings

\* If no call fails and backups do not change once they are available, then,
\* however many threads work, whatever backups run at once and whenever they are
\* removed, no backup has two ScanInstances.
THEOREM ScannedOnlyOnce ==
    ASSUME NoSurprise, NoFault PROVE Spec => []OneScanPerBackup
<1>1. TypeInv => TypeOK
    BY DEF TypeInv
<1>2. TypeOK /\ Phases /\ StaleInv /\ [Next]_vars => StaleInv'
    BY StaleStep
<1>3. TypeOK /\ Phases /\ StaleInv /\ OneInv /\ [Next]_vars => OneInv'
    <2>1. OneInv /\ UNCHANGED vars => OneInv'
        BY DEF vars, target, local, pools, OneInv, OneScanPerBackup, Claims,
           Labelled, MapServes
    <2> QED
        BY <2>1, OneMain, OneWorkers, OneSurroundings DEF Next
<1>4. OneInv => OneScanPerBackup
    BY DEF OneInv
<1> QED
    BY <1>1, <1>2, <1>3, <1>4, TypeAlways, PhasesAlways, StaleInit, OneInit, PTL
    DEF Spec

===============================================================================
