--------------------------- MODULE PreScanDetector ---------------------------
(***************************************************************************)
(* The pre-scan script, prescan.cli with TVKBackupDetector: it reads the   *)
(* files of one backup, one after another, to learn which virtual machines *)
(* there are to scan, while retention may be deleting that backup.         *)
(***************************************************************************)
EXTENDS PodMount

VARIABLES
    tree,           \* what is left of the backup on the target
    mode,           \* how each detector treats it: "cluster" or "namespace"
    left,           \* child backups it has yet to look at
    locations       \* scan_locations, by child ("backup" for a namespace backup)

detectVars == <<mode, left, locations>>

\* The files of a backup, and its directory.
Tree ==
    {"dir", "meta"}
    \union (IF setup.cluster THEN {"cluster"} \union Children ELSE {"backup"})

DetectorInit ==
    /\ tree = Tree
    /\ mode = [p \in Pods |-> "namespace"]
    /\ left = [p \in Pods |-> {}]
    /\ locations = [p \in Pods |-> {}]

-----------------------------------------------------------------------------

\* _extract_vm_pvc_locations: the entries that a VirtualMachine owns.
VMSnapshots(file) ==
    SelectSeq(file.snapshots, LAMBDA d : d.owner = "VirtualMachine")

VMsOf(file) == {VMSnapshots(file)[i].name : i \in DOMAIN VMSnapshots(file)}

\* A backup is worth a scan location when it says that it has kubevirt
\* resources and some virtual machine owns a volume.
HasVMs(file) == file.kubevirt /\ VMsOf(file) # {}

CanRead(p, file) == Mounted(p) /\ file \in tree /\ file \notin setup.broken

\* validate_backup_path, get_target, and the choice of the detector; there is
\* none for TVO yet.
StartPreScan(p) ==
    /\ at[p] = "main"
    /\ setup.kind[p] = "preScan"
    /\ \/ /\ Goto(p, IF /\ Mounted(p)
                        /\ "dir" \in tree
                        /\ setup.targetType = "TVK"
                     THEN "probe" ELSE "failed")
          /\ UNCHANGED faults
       \/ /\ Faulty(p)
          /\ OneMoreFault(p)
          /\ Goto(p, "failed")
    /\ UNCHANGED <<setup, credentials, mountVars, tree, detectVars>>

\* extract_metadata
ProbeCluster(p) ==
    /\ at[p] = "probe"
    /\ LET cluster == Mounted(p) /\ "cluster" \in tree IN
       /\ mode' = [mode EXCEPT ![p] = IF cluster THEN "cluster" ELSE "namespace"]
       /\ Goto(p, IF cluster THEN "readCluster" ELSE "readMeta")
    /\ UNCHANGED <<setup, credentials, faults, mountVars, tree, left, locations>>

ReadCluster(p) ==
    /\ at[p] = "readCluster"
    /\ left' = [left EXCEPT ![p] = Children]
    /\ Goto(p, IF CanRead(p, "cluster") THEN "readMeta" ELSE "failed")
    /\ UNCHANGED <<setup, credentials, faults, mountVars, tree, mode, locations>>

ReadMeta(p) ==
    /\ at[p] = "readMeta"
    /\ Goto(p, IF ~CanRead(p, "meta") THEN "failed"
               ELSE IF mode[p] = "cluster" THEN "readChildren" ELSE "readBackup")
    /\ UNCHANGED <<setup, credentials, faults, mountVars, tree, detectVars>>

ReadBackup(p) ==
    /\ at[p] = "readBackup"
    /\ IF CanRead(p, "backup")
       THEN /\ locations' = [locations EXCEPT
                  ![p] = IF HasVMs(setup.backup) THEN {"backup"} ELSE {}]
            /\ Goto(p, "patch")
       ELSE Goto(p, "failed") /\ UNCHANGED locations
    /\ UNCHANGED <<setup, credentials, faults, mountVars, tree, mode, left>>

\* (Mutation: the first child without virtual machines ends the loop.)
ReadChildAndStop(p) ==
    /\ at[p] = "readChildren"
    /\ \E c \in left[p] :
          IF c \in setup.placed /\ CanRead(p, c) /\ HasVMs(setup.children[c])
          THEN /\ left' = [left EXCEPT ![p] = @ \ {c}]
               /\ locations' = [locations EXCEPT ![p] = @ \union {c}]
          ELSE left' = [left EXCEPT ![p] = {}] /\ UNCHANGED locations
    /\ UNCHANGED <<setup, at, credentials, faults, mountVars, tree, mode>>

\* A child whose backup.json cannot be found or read is passed over.
ReadChild(p) ==
    /\ at[p] = "readChildren"
    /\ \E c \in left[p] :
          /\ left' = [left EXCEPT ![p] = @ \ {c}]
          /\ locations' = [locations EXCEPT
                ![p] = IF /\ c \in setup.placed
                          /\ CanRead(p, c)
                          /\ HasVMs(setup.children[c])
                       THEN @ \union {c} ELSE @]
    /\ UNCHANGED <<setup, at, credentials, faults, mountVars, tree, mode>>

ChildrenRead(p) ==
    /\ at[p] = "readChildren"
    /\ left[p] = {}
    /\ Goto(p, "patch")
    /\ UNCHANGED <<setup, credentials, faults, mountVars, tree, detectVars>>

\* patch_scan_instance
PatchResult(p) ==
    /\ at[p] = "patch"
    /\ \/ Goto(p, "succeeded") /\ UNCHANGED faults
       \/ Faulty(p) /\ OneMoreFault(p) /\ Goto(p, "failed")
    /\ UNCHANGED <<setup, credentials, mountVars, tree, detectVars>>

DetectorStep(p) ==
    \/ StartPreScan(p) \/ ProbeCluster(p) \/ ReadCluster(p) \/ ReadMeta(p)
    \/ ReadBackup(p) \/ ReadChild(p) \/ ChildrenRead(p) \/ PatchResult(p)

-----------------------------------------------------------------------------

\* Retention deletes the files of a backup in any order, its directory last.
RetentionDeletes ==
    /\ \E p \in Pods : setup.kind[p] = "preScan"
    /\ \E file \in tree :
          /\ file = "dir" => tree = {"dir"}
          /\ tree' = tree \ {file}

=============================================================================
