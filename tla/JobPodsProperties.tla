-------------------------- MODULE JobPodsProperties --------------------------
(* What the containers must, and what they claim to, guarantee. *)
EXTENDS JobPods

Steps == Ended \union
    {"readForMount", "writeConf", "fillConf", "startFuse", "awaitMount",
     "removeConf", "main", "validate", "checkMount", "listRoot", "readFile",
     "checkNFS", "checkBucket", "verifyAccess", "upload", "probe",
     "readCluster", "readMeta", "readBackup", "readChildren", "patch"}

FuseStates == {"none", "started", "configured", "mounted", "crashed", "dead"}

TypeOK ==
    /\ setup \in Setups
    /\ at \in [Pods -> Steps]
    /\ credentials \in [Pods -> {"none", "good", "empty"}]
    /\ faults \in [Pods -> 0 .. MaxFaults]
    /\ conf \in [Pods -> {"absent", "section", "none", "good", "empty"}]
    /\ fuse \in [Pods -> [Attempts -> FuseStates]]
    /\ attempt \in [Pods -> Attempts]
    /\ bucket \in [Keys -> Seq(Pods \union {"marker"})]
    /\ op \in [Pods -> Nat]
    /\ headed \in [Pods -> Pods \union {NoPod}]
    /\ errors \in [Pods -> BOOLEAN]
    /\ crossed \in [Pods -> BOOLEAN]
    /\ todo \in [Pods -> SUBSET Files]
    /\ sent \in [Pods -> SUBSET Files]
    /\ failed \in [Pods -> SUBSET Files]
    /\ tree \subseteq Tree
    /\ mode \in [Pods -> {"cluster", "namespace"}]
    /\ left \in [Pods -> SUBSET Children]
    /\ locations \in [Pods -> SUBSET (Children \union {"backup"})]

-----------------------------------------------------------------------------

\* A backup target is found valid, and a backup is pre-scanned, only through a
\* mount that s3fuse made, although mount_datastores may exit with 0 without one
\* (target_validations.py:76-86, validator.py:20).
OnlyThroughMount ==
    \A p \in Pods :
        at[p] = "succeeded" /\ MountsFirst(p) =>
            /\ \E i \in Attempts : fuse[p][i] \in {"mounted", "crashed"}
            /\ "list" \in setup.grants

\* A reporting target is found valid only if the store grants everything that
\* is tried out on it, whatever the calls of another validator did to the test
\* objects (utilities.py:804-823).
VerdictSound ==
    \A p \in Pods :
        at[p] = "succeeded" /\ setup.kind[p] = "validateReporting" =>
            \A i \in DOMAIN Operations : Needs(Operations[i]) \subseteq setup.grants

\* A validator that met no fault and ran beside no other finds fault with a
\* target only if there is one, whatever earlier or killed validators have left
\* in the bucket (utilities.py:745-802).
FailureExplained ==
    \A p \in Pods :
        /\ at[p] = "failed"
        /\ setup.kind[p] = "validateReporting"
        /\ setup.type = "ObjectStore"
        /\ faults[p] = 0
        /\ ~crossed[p]
        => \E i \in DOMAIN Operations : ~(Needs(Operations[i]) \subseteq setup.grants)

\* What a successful validator has put in a bucket with versions is not to be
\* seen in it afterwards, unless it ran beside another (utilities.py:758-763).
NothingLeft ==
    \A p \in Pods :
        /\ at[p] = "succeeded"
        /\ setup.kind[p] = "validateReporting"
        /\ setup.versioned
        /\ ~setup.lock
        /\ ~crossed[p]
        => \A k \in Keys : Current(k) # p

\* An upload succeeds only if all the files of the directory are in the bucket,
\* and sends none to a target that is not for reports (cli.py:156-204).
UploadComplete ==
    \A p \in Pods :
        /\ at[p] = "succeeded" /\ setup.kind[p] = "upload" => sent[p] = setup.reports
        /\ sent[p] # {} => setup.reporting /\ "put" \in setup.grants

\* A pre-scan of a cluster backup lists the children that have virtual machines,
\* and of those it leaves out only some that cannot be found or read; so it says
\* that there is nothing to scan only of a backup of which that is true, or whose
\* files, or whose mount, have gone (tvk_detector.py:343-429).
LocationsExact ==
    \A p \in Pods :
        at[p] = "succeeded" /\ setup.kind[p] = "preScan" /\ setup.cluster =>
            /\ \A c \in locations[p] : c \in Children /\ HasVMs(setup.children[c])
            /\ \A c \in Children \ locations[p] :
                  HasVMs(setup.children[c]) =>
                      \/ c \notin tree
                      \/ c \in setup.broken
                      \/ c \notin setup.placed
                      \/ Crashed(p)

\* Every container comes to an end, with no more than two attempts at a mount
\* (utilities.py:376-397, 517-524).
EveryPodEnds == \A p \in Pods : <>(at[p] \in Ended)

\* "Dict with metadata and scan_locations for all children with VMs"
\* (tvk_detector.py:284): of the children whose files are there and can be parsed,
\* none with virtual machines is left out.
AllChildrenListed ==
    \A p \in Pods :
        at[p] = "succeeded" /\ setup.kind[p] = "preScan" /\ setup.cluster =>
            \A c \in Children :
                /\ HasVMs(setup.children[c])
                /\ c \in tree /\ c \in setup.placed /\ c \notin setup.broken
                => c \in locations[p]

=============================================================================
