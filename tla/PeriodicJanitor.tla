--------------------------- MODULE PeriodicJanitor ---------------------------
(***************************************************************************)
(* The periodic run of the janitor (cmd/janitor with --status=Failed),     *)
(* beside the ScanInstance controller and all that is around it.  A sweep  *)
(* lists the failed ScanInstances once and then goes from one to the next, *)
(* removing by name what they have left, with calls to the API server that *)
(* no cache serves and nobody waits for.                                   *)
(***************************************************************************)
EXTENDS ScanInstanceProperties

CONSTANT
    MaxSweepFaults      \* bound: deletions of a sweep that fail, and sweeps that are killed

ASSUME SweepAssumption == MaxSweepFaults \in Nat

VARIABLES
    listed,    \* ScanInstances of its list that a sweep has yet to come to
    swept,     \* the one it is at, none between two sweeps
    next,      \* which of its resources is next
    mishaps    \* how many of MaxSweepFaults there were

sweepVars == <<listed, swept, next, mishaps>>
allVars == <<vars, sweepVars>>

\* (Mutation: the ConfigMap is forgotten.)
SweepOrderShort == <<"redis", "service", "preScan", "scan">>

SweepOrder == <<"redis", "service", "preScan", "scan", "configMap">>

\* Before the third, the age of the ScanInstance is looked at.
Threshold == 3

\* A ScanInstance as an item of the list, which stays what it was when it was read.
Items == ScanInstances \X (1..MaxIncarnations)
None == <<>>

SweepInit ==
    /\ Init
    /\ listed = {}
    /\ swept = None
    /\ next = 0
    /\ mishaps = 0

Mishap ==
    /\ mishaps < MaxSweepFaults
    /\ mishaps' = mishaps + 1

\* (Mutation: only those that are completed are spared.)
UndoneScanInstances ==
    {<<n, si[n].incarnation>> : n \in {m \in ScanInstances :
        si[m] # NoRecord /\ si[m].status # "Completed"}}

FailedScanInstances ==
    {<<n, si[n].incarnation>> : n \in {m \in ScanInstances : si[m].status = "Failed"}}

\* The CronJob forbids a second sweep beside the first.
SweepStarts ==
    /\ swept = None /\ listed = {}
    /\ FailedScanInstances # {}
    /\ listed' = FailedScanInstances
    /\ UNCHANGED <<vars, swept, next, mishaps>>

SweepTakes ==
    /\ swept = None
    /\ \E item \in listed :
          /\ swept' = item
          /\ listed' = listed \ {item}
    /\ next' = 1
    /\ UNCHANGED <<vars, mishaps>>

\* Deletes by name what is there, also for a ScanInstance that is gone; what
\* cannot be read or deleted is passed over.
SweepDeletes ==
    /\ swept # None /\ next <= Len(SweepOrder)
    /\ LET n == swept[1]
           kind == SweepOrder[next]
       IN \/ res' = Deleted(n, {kind}) /\ UNCHANGED mishaps
          \/ res[n][kind] # NoObject /\ Mishap /\ UNCHANGED res
    /\ next' = next + 1
    /\ UNCHANGED <<si, caches, queue, worker, created, faults, listed, swept>>

\* A ScanInstance younger than the threshold keeps its jobs and its ConfigMap.
SweepGoesOn ==
    /\ swept # None /\ next \in {Threshold, Len(SweepOrder) + 1}
    /\ swept' = None
    /\ next' = 0
    /\ UNCHANGED <<vars, listed, mishaps>>

SweepKilled ==
    /\ swept # None
    /\ Mishap
    /\ listed' = {}
    /\ swept' = None
    /\ next' = 0
    /\ UNCHANGED vars

Sweep == SweepStarts \/ SweepTakes \/ SweepDeletes \/ SweepGoesOn

SweepNext ==
    \/ Next /\ UNCHANGED sweepVars
    \/ Sweep
    \/ SweepKilled

SweepSpec == SweepInit /\ [][SweepNext]_allVars

\* The CronJob starts sweeps again and again; what they come to again and again is
\* older than the threshold in the end.
SweepFairness ==
    /\ WF_allVars(Sweep)
    /\ \A n \in ScanInstances :
          SF_allVars(SweepDeletes /\ next = Threshold /\ swept[1] = n)

FairSweepSpec == SweepSpec /\ Fairness /\ SweepFairness

-----------------------------------------------------------------------------

\* A sweep, though it works from a list that may be old by then, takes nothing from
\* a ScanInstance that is not failed, as long as its name was not used again since
\* (cmd/janitor/main.go:122-134, 263-415).
SweepSpares ==
    [][\A k \in JanitorDeletes :
          /\ swept # None /\ swept' = swept /\ next' = next + 1
          /\ res[swept[1]][k] # NoObject /\ res'[swept[1]][k] = NoObject
          /\ si[swept[1]].incarnation = swept[2]
          => si[swept[1]].status = "Failed"]_allVars

\* What a failed ScanInstance has left is removed in the end, although a sweep passes
\* over what it cannot delete, and the controller does not make it again
\* (cmd/janitor/main.go:263-415, controller.go:74-79).
StaysSwept ==
    \A n \in ScanInstances :
        <>[](si[n].status = "Failed") => <>[](\A k \in JanitorDeletes : res[n][k] = NoObject)

=============================================================================
