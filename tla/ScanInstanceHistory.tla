-------------------------- MODULE ScanInstanceHistory --------------------------
(***************************************************************************)
(* The ScanInstance controller with a memory of what its stale reads cost. *)
(*                                                                         *)
(* Every read of the controller is served by an informer that may lag, and *)
(* a decision taken on an old copy can undo what is already written.  Two  *)
(* history variables, which no step depends on, record what a read did not *)
(* show at the moment it was made.  The properties then say, whatever lags,*)
(* that this and nothing else can be lost.                                 *)
(***************************************************************************)
EXTENDS ScanInstanceProperties

VARIABLES
    unread,     \* facts of cur the reconciliation began without having read
    overlooked  \* names whose unfinished scan job a count of slots did not see

memory == <<unread, overlooked>>

\* What a ScanInstance tells: its conditions, and its status.
Facts(record) == record.conditions \cup {<<"Status", record.status>>}

\* What the read a reconciliation begins with does not show
\* (Get, controller.go:53).
Unseen(n) == Facts(si[n]) \ Facts(siCache[n])

\* The worker has listed the scan jobs and found a slot free.
Counted ==
    MaxConcurrentScans # 0 /\ at = "scanPhase" /\ at' = "configMap"

\* The names of which that list shows an unfinished scan job
\* (List, controller_helper.go:824).
Listed ==
    {n \in ScanInstances :
        resCache[n]["scan"].state \notin {"absent", "succeeded", "failed"}}

Remember ==
    /\ unread' = CASE at' = "idle" -> {}
                   [] at = "idle" /\ at' # "idle" -> Unseen(cur')
                   [] OTHER -> unread
    /\ overlooked' =
          (IF Counted THEN overlooked \cup (ScanningJobs \ Listed) ELSE overlooked)
              \cap ScanningJobs'

HistoryInit == Init /\ unread = {} /\ overlooked = {}

HistoryNext == Next /\ Remember

HistorySpec == HistoryInit /\ [][HistoryNext]_<<vars, memory>>

FairHistorySpec == HistorySpec /\ Fairness

-----------------------------------------------------------------------------
(* Whatever the caches lag behind, through faults and new incarnations. *)

\* The patch of the list of conditions carries the whole list of a cached copy
\* and takes no lock (updateScanInstanceCondition, controller_helper.go:251-275).
\* It may lose a condition, but none that was read: each one lost is a condition
\* of the ScanInstance in hand that this reconciliation began without.
ForgetsOnlyUnread ==
    [][\A n \in ScanInstances :
          si'[n].incarnation = si[n].incarnation =>
              si[n].conditions \ si'[n].conditions
                  \subseteq IF n = cur THEN unread ELSE {}]_vars

\* Completed and Failed are final (scaninstance_validator.go:85-92) for whoever
\* has read them: only a reconciliation that began on a copy without the status
\* can write over it.
ReopensOnlyUnread ==
    [][\A n \in ScanInstances :
          /\ si'[n].incarnation = si[n].incarnation
          /\ si[n].status \in Terminal
          /\ si'[n].status # si[n].status
          => n = cur /\ <<"Status", si[n].status>> \in unread]_vars

\* The limit of concurrent scans (canStartNewScan, controller_helper.go:849-868)
\* is exceeded only by jobs that were unfinished when slots were counted and
\* that the cached list did not show: all others keep it.
SlotsOverlooked ==
    MaxConcurrentScans # 0 =>
        Cardinality(ScanningJobs \ overlooked) <= MaxConcurrentScans

=============================================================================
