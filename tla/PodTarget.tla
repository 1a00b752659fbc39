------------------------------ MODULE PodTarget ------------------------------
(***************************************************************************)
(* The containers of the jobs that work on a storage target: the           *)
(* validation of a backup target or of a reporting target, the pre-scan,   *)
(* and the upload of reports.  This module has what they share: the target *)
(* and the bucket behind it, and how a script reads the Target resource    *)
(* with its certificate and its credentials.                               *)
(***************************************************************************)
EXTENDS Naturals, FiniteSets, Sequences

CONSTANTS
    Pods,           \* the containers
    Setups,         \* what they run and the target they find, see SetupsAssumption
    Files,          \* files a scan may report
    Children,       \* namespaces of a cluster backup
    VMs,            \* virtual machines
    Claims,         \* locations of volume claims
    NoPod,          \* nobody
    MaxFaults       \* bound: calls that fail, crashes of a pod or of its mount;
                    \* they meet one of the containers only

Kinds == {"validateBackup", "validateReporting", "upload", "preScan", "none"}

Permissions == {"list", "get", "put", "delete", "getVersion", "deleteVersion",
                "listVersions", "getLock"}

\* An entry of dataSnapshots in backup.json.
DataSnapshots ==
    [location : Claims, owner : {"none", "VirtualMachine", "StatefulSet"}, name : VMs]

\* backup.json: does it say hasKubevirtResources, and its dataSnapshots.
BackupFiles == [kubevirt : BOOLEAN, snapshots : Seq(DataSnapshots)]

Setup ==
    [kind : [Pods -> Kinds],
     type : {"NFS", "ObjectStore"},
     certificate : BOOLEAN,     \* sslCertConfig is set
     secret : BOOLEAN,          \* credentialSecret is set
     reporting : BOOLEAN,       \* trilio.io/reporting-target is "true"
     lock : BOOLEAN,            \* objectLockingEnabled
     versioned : BOOLEAN,       \* the bucket keeps versions
     rootFile : BOOLEAN,        \* there is a regular file in its root
     grants : SUBSET Permissions,
     reports : SUBSET Files,    \* what the upload finds in its directory
     targetType : {"TVK", "TVO"},
     cluster : BOOLEAN,         \* the backup is a cluster backup
     backup : BackupFiles,      \* its backup.json, when it is not
     children : [Children -> BackupFiles],
     placed : SUBSET Children,  \* those with a location and a uid
     broken : SUBSET (Children \union {"meta", "cluster", "backup"})]
                                \* files that are not valid JSON

ASSUME SetupsAssumption ==
    /\ Setups \subseteq Setup
    /\ MaxFaults \in Nat
    /\ NoPod \notin Pods \union {"marker"}
    /\ "marker" \notin Pods
    /\ Children \intersect {"dir", "meta", "cluster", "backup"} = {}

VARIABLES
    setup,          \* chosen at the beginning
    at,             \* next step of each container
    credentials,    \* what the script of the container read last
    faults          \* faults each container has met

Ended == {"succeeded", "failed", "killed", "absent"}

Goto(p, step) == at' = [at EXCEPT ![p] = step]

\* Pods of a target that is mounted by a command of theirs; NFS volumes are
\* mounted by the node, and the others call the object store.
MountsFirst(p) ==
    /\ setup.type = "ObjectStore"
    /\ setup.kind[p] \in {"validateBackup", "preScan"}

FirstStep(p) ==
    IF setup.kind[p] = "none" THEN "absent"
    ELSE IF MountsFirst(p) THEN "readForMount" ELSE "main"

TargetInit ==
    /\ setup \in Setups
    /\ at = [p \in Pods |-> FirstStep(p)]
    /\ credentials = [p \in Pods |-> "none"]
    /\ faults = [p \in Pods |-> 0]

-----------------------------------------------------------------------------

Faulty(p) == faults[p] < MaxFaults /\ \A q \in Pods \ {p} : faults[q] = 0

OneMoreFault(p) == faults' = [faults EXCEPT ![p] = @ + 1]

Calls == {"target", "certificate", "secret"}

\* A call that is retried: what the last attempt returns or raises.
Retry(p) == IF Faulty(p) THEN {"ok", "ApiException", "Exception"} ELSE {"ok"}

\* A Secret that cannot be read is logged, and leaves empty credentials.
SecretCredentials(result) == IF result = "ok" THEN "good" ELSE "empty"

\* A certificate that cannot be read is raised.
CertificateRaised(result) == setup.certificate /\ result # "ok"

ParseResponse(calls) ==
    IF setup.type = "ObjectStore" /\ CertificateRaised(calls["certificate"])
    THEN calls["certificate"]
    ELSE IF setup.type = "ObjectStore" /\ setup.secret
    THEN SecretCredentials(calls["secret"])
    ELSE "good"

\* Of the errors of the API server only an ApiException is raised again; after
\* any other there is no target.
TargetResource(result) == IF result = "Exception" THEN "nothing" ELSE result

ReadTarget(calls) ==
    IF TargetResource(calls["target"]) = "ok"
    THEN ParseResponse(calls)
    ELSE TargetResource(calls["target"])

\* A script reads the Target: the calls it makes, and the faults they meet.
Reads(p, calls) ==
    /\ calls \in [Calls -> Retry(p)]
    /\ IF \A c \in Calls : calls[c] = "ok" THEN UNCHANGED faults ELSE OneMoreFault(p)

Found == {"good", "empty"}

=============================================================================
