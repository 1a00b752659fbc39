------------------------------- MODULE PodMount -------------------------------
(***************************************************************************)
(* The first command of a container of an object store, mount_datastores:  *)
(* it writes the configuration of s3fuse, starts s3fuse in the background  *)
(* and waits two minutes for the mount.  When that fails it starts over,   *)
(* once, beside whatever is left of the first s3fuse.  "&&" starts the     *)
(* second command when this one exits with 0.                              *)
(***************************************************************************)
EXTENDS PodTarget

VARIABLES
    conf,           \* the configuration file: what a reader finds in it
    fuse,           \* the s3fuse of each of the two attempts
    attempt         \* which attempt of mount_object_datastore runs

mountVars == <<conf, fuse, attempt>>

Attempts == {1, 2}

\* A mount whose process has crashed can neither be listed nor be read.
Crashed(p) == \E i \in Attempts : fuse[p][i] = "crashed"

\* os.path.ismount
Mounted(p) ==
    \/ setup.type = "NFS"
    \/ (\E i \in Attempts : fuse[p][i] = "mounted") /\ ~Crashed(p)

MountInit ==
    /\ conf = [p \in Pods |-> "absent"]
    /\ fuse = [p \in Pods |-> [i \in Attempts |-> "none"]]
    /\ attempt = [p \in Pods |-> 1]

-----------------------------------------------------------------------------

\* main: an ApiException is only logged, and the command exits with 0.
ReadForMount(p) ==
    /\ at[p] = "readForMount"
    /\ \E calls \in [Calls -> Retry(p)] :
          /\ Reads(p, calls)
          /\ LET result == ReadTarget(calls) IN
             /\ credentials' = [credentials EXCEPT
                    ![p] = IF result \in Found THEN result ELSE "none"]
             /\ Goto(p, CASE result \in Found -> "writeConf"
                          [] result = "ApiException" -> "main"
                          [] OTHER -> "failed")
    /\ UNCHANGED <<setup, mountVars>>

\* The file is truncated to its section line.
WriteConf(p) ==
    /\ at[p] = "writeConf"
    /\ conf' = [conf EXCEPT ![p] = "section"]
    /\ Goto(p, "fillConf")
    /\ UNCHANGED <<setup, credentials, faults, fuse, attempt>>

FillConf(p) ==
    /\ at[p] = "fillConf"
    /\ conf' = [conf EXCEPT ![p] = credentials[p]]
    /\ Goto(p, "startFuse")
    /\ UNCHANGED <<setup, credentials, faults, fuse, attempt>>

\* run_cmd logs what goes wrong with a command, and returns.
StartFuse(p) ==
    /\ at[p] = "startFuse"
    /\ \/ /\ fuse' = [fuse EXCEPT ![p] = [@ EXCEPT ![attempt[p]] = "started"]]
          /\ UNCHANGED faults
       \/ /\ Faulty(p)
          /\ OneMoreFault(p)
          /\ UNCHANGED fuse
    /\ Goto(p, "awaitMount")
    /\ UNCHANGED <<setup, credentials, conf, attempt>>

MountSeen(p) ==
    /\ at[p] = "awaitMount"
    /\ Mounted(p)
    /\ Goto(p, "removeConf")
    /\ UNCHANGED <<setup, credentials, faults, mountVars>>

\* (Mutations: a third attempt; attempts without end.)
MountTimeoutThrice(p) ==
    /\ at[p] = "awaitMount"
    /\ ~Mounted(p)
    /\ IF attempt[p] < 3
       THEN attempt' = [attempt EXCEPT ![p] = @ + 1] /\ Goto(p, "writeConf")
       ELSE Goto(p, "failed") /\ UNCHANGED attempt
    /\ UNCHANGED <<setup, credentials, faults, conf, fuse>>

MountTimeoutForever(p) ==
    /\ at[p] = "awaitMount"
    /\ ~Mounted(p)
    /\ Goto(p, "writeConf")
    /\ UNCHANGED <<setup, credentials, faults, mountVars>>

\* mount_datastore catches what the first attempt raises and tries once more.
MountTimeout(p) ==
    /\ at[p] = "awaitMount"
    /\ ~Mounted(p)
    /\ IF attempt[p] = 1
       THEN attempt' = [attempt EXCEPT ![p] = 2] /\ Goto(p, "writeConf")
       ELSE Goto(p, "failed") /\ UNCHANGED attempt
    /\ UNCHANGED <<setup, credentials, faults, conf, fuse>>

RemoveConf(p) ==
    /\ at[p] = "removeConf"
    /\ conf' = [conf EXCEPT ![p] = "absent"]
    /\ Goto(p, "main")
    /\ UNCHANGED <<setup, credentials, faults, fuse, attempt>>

MountStep(p) ==
    \/ ReadForMount(p) \/ WriteConf(p) \/ FillConf(p) \/ StartFuse(p)
    \/ MountSeen(p) \/ MountTimeout(p) \/ RemoveConf(p)

-----------------------------------------------------------------------------
(* s3fuse, in the background, for as long as the container runs *)

FuseBecomes(p, i, state) == fuse' = [fuse EXCEPT ![p] = [@ EXCEPT ![i] = state]]

\* It reads the file whenever it comes to it, and dies of one that is not
\* there or not complete.
FuseReads(p, i) ==
    /\ fuse[p][i] = "started"
    /\ FuseBecomes(p, i, IF conf[p] = "good" THEN "configured" ELSE "dead")
    /\ UNCHANGED <<setup, at, credentials, faults, conf, attempt>>

\* It needs to list the bucket.  It may find the mount point taken.
FuseMounts(p, i) ==
    /\ fuse[p][i] = "configured"
    /\ \/ "list" \in setup.grants /\ FuseBecomes(p, i, "mounted")
       \/ ("list" \notin setup.grants \/ Mounted(p)) /\ FuseBecomes(p, i, "dead")
    /\ UNCHANGED <<setup, at, credentials, faults, conf, attempt>>

FuseCrashes(p, i) ==
    /\ fuse[p][i] = "mounted"
    /\ Faulty(p)
    /\ OneMoreFault(p)
    /\ FuseBecomes(p, i, "crashed")
    /\ UNCHANGED <<setup, at, credentials, conf, attempt>>

FuseStep(p) ==
    /\ at[p] \notin Ended
    /\ \E i \in Attempts : FuseReads(p, i) \/ FuseMounts(p, i) \/ FuseCrashes(p, i)

=============================================================================
