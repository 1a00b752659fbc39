------------------------------ MODULE MCJobPods ------------------------------
(* Instances of the containers for TLC. *)
EXTENDS JobPodsProperties, TLC

CONSTANTS p1, p2

All == Permissions

Snapshot(owner, name, location) == [location |-> location, owner |-> owner, name |-> name]

OfVM == [kubevirt |-> TRUE, snapshots |-> <<Snapshot("StatefulSet", "vm1", "vol1"),
                                            Snapshot("VirtualMachine", "vm1", "vol2")>>]
NoVM == [kubevirt |-> TRUE, snapshots |-> <<Snapshot("StatefulSet", "vm1", "vol1")>>]
Silent == [kubevirt |-> FALSE, snapshots |-> <<Snapshot("VirtualMachine", "vm1", "vol2")>>]

Plain ==
    [kind |-> (p1 :> "none" @@ p2 :> "none"), type |-> "ObjectStore",
     certificate |-> FALSE, secret |-> TRUE, reporting |-> FALSE, lock |-> FALSE,
     versioned |-> TRUE, rootFile |-> FALSE, grants |-> All, reports |-> {},
     targetType |-> "TVK", cluster |-> FALSE, backup |-> OfVM,
     children |-> [c \in Children |-> OfVM], placed |-> Children, broken |-> {}]

Runs(kind1, kind2) == (p1 :> kind1 @@ p2 :> kind2)

BackupSetups ==
    {[Plain EXCEPT !.kind = Runs("validateBackup", "none"), !.type = t,
                   !.certificate = c, !.rootFile = f, !.grants = All \ g] :
        t \in {"NFS", "ObjectStore"}, c \in BOOLEAN, f \in BOOLEAN,
        g \in {{}, {"list"}, {"get"}}}

\* A bucket without versions, one with versions, and one with object lock; with
\* versions some permission may be missing.
Bucket(versioned, lock, grants) ==
    [Plain EXCEPT !.kind = Runs("validateReporting", "validateReporting"),
                  !.reporting = TRUE, !.lock = lock, !.versioned = versioned,
                  !.grants = grants]

ReportingSetups ==
    {Bucket(FALSE, FALSE, All), Bucket(TRUE, TRUE, All), Bucket(TRUE, TRUE, All \ {"getLock"})}
    \union {Bucket(TRUE, FALSE, All \ g) : g \in {{}, {"put"}, {"delete"}, {"deleteVersion"}}}

UploadSetups ==
    {[Plain EXCEPT !.kind = Runs("upload", "none"), !.reporting = r,
                   !.reports = files, !.grants = All \ g] :
        r \in BOOLEAN, files \in SUBSET Files, g \in {{}, {"list"}, {"put"}}}

PreScanSetups ==
    {[Plain EXCEPT !.kind = Runs("preScan", "none"), !.type = t, !.cluster = TRUE,
                   !.children = ("ns1" :> first @@ "ns2" :> OfVM),
                   !.placed = Children \ out, !.broken = bad] :
        t \in {"NFS", "ObjectStore"}, first \in {NoVM, Silent},
        out \in {{}, {"ns2"}}, bad \in {{}, {"ns2"}, {"cluster"}}}
    \union
    {[Plain EXCEPT !.kind = Runs("preScan", "none"), !.type = "NFS",
                   !.targetType = t, !.backup = b, !.broken = bad] :
        t \in {"TVK", "TVO"}, b \in {OfVM, NoVM}, bad \in {{}, {"meta"}, {"backup"}}}

AllSetups == BackupSetups \union ReportingSetups \union UploadSetups \union PreScanSetups

=============================================================================
