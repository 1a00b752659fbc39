----------------------------- MODULE FileRecovery -----------------------------
(***************************************************************************)
(* The file recovery script, vm_qcow2_mount, in the virtual machine where  *)
(* backed up disks are looked at.  A run with "mount" puts an overlay on   *)
(* each disk of one recovery, connects the overlays to NBD devices and     *)
(* mounts what it finds on them; in the end it writes which device each    *)
(* disk has into a record.  A run with "unmount" takes everything down     *)
(* again, after the records of all recoveries.  Nothing keeps two runs     *)
(* from being made at a time.                                              *)
(***************************************************************************)
EXTENDS Naturals, FiniteSets

CONSTANTS
    Scripts,        \* bound: runs at a time, one after another in each place
    Recoveries,     \* FileRecovery resources, each with its record
    Disks,          \* names of volumes; an overlay is known by that name
    Devices,        \* NBD devices of the machine
    Backup,         \* the backup of each recovery, see BackupsAssumption
    Lvm,            \* disks that hold logical volumes
    NoDevice, Nobody,
    MaxRuns,        \* bound: runs in one behavior
    MaxFaults       \* bound: kinds of faults in one behavior

Snapshots == [disk : Disks, owner : STRING]

\* The snapshot of a backup holds objects of three kinds, at most one that is custom;
\* of each there is, its dataSnapshots.
Objects == SUBSET Snapshots

ASSUME BackupsAssumption ==
    /\ Backup \in [Recoveries ->
          [vm : STRING, available : BOOLEAN, keyed : BOOLEAN,
           custom : SUBSET Objects, helm : SUBSET Objects,
           operators : SUBSET Objects]]
    /\ {"free", "stuck"} \intersect Disks = {}
    /\ NoDevice \notin Devices
    /\ Nobody \notin Recoveries
    /\ MaxRuns \in Nat
    /\ MaxFaults \in Nat

VARIABLES
    device,         \* what each device is connected to: the overlay of a disk,
                    \* "free", or "stuck" when the lock file of qemu-nbd is left
    mnt,            \* mounts, as <<disk, device>>: under /mnt/disk, from device
    dirs,           \* the directories in /mnt, named for disks
    files,          \* recoveries that have a record
    record,         \* the nbds of each record
    torn,           \* records that have been opened for writing, not yet written
    at,             \* next step of each run
    of,             \* the recovery it works on
    todo,           \* disks left in the loop it is in
    picked,         \* the device _find_unused gave it
    nbds,           \* disks['vms']['nbds'] of a run that mounts
    listed,         \* recoveries whose record a run that unmounts has yet to read
    held,           \* what it has read of the records
    queue,          \* recoveries whose record it has yet to go through
    overlaps,       \* which runs were made at the same time, ever
    runs,           \* how many runs there were
    faults          \* the kinds of faults there were, ever

machine == <<device, mnt, dirs>>
records == <<files, record, torn>>
locals == <<of, todo, picked, nbds, listed, held, queue>>
made == <<overlaps, runs>>
vars == <<machine, records, at, locals, made, faults>>

NoDevices == [k \in Disks |-> NoDevice]

Mounting ==
    {"overlays", "allocate", "connect", "mount", "volumes", "openRecord",
     "writeRecord"}
Unmounting == {"umount", "readRecords", "nextRecord", "release", "openAgain", "writeBack"}

Init ==
    /\ device = [d \in Devices |-> "free"]
    /\ mnt = {}
    /\ dirs = {}
    /\ files = {}
    /\ torn = {}
    /\ record = [r \in Recoveries |-> NoDevices]
    /\ at = [s \in Scripts |-> "idle"]
    /\ of = [s \in Scripts |-> Nobody]
    /\ todo = [s \in Scripts |-> {}]
    /\ picked = [s \in Scripts |-> NoDevice]
    /\ nbds = [s \in Scripts |-> NoDevices]
    /\ listed = [s \in Scripts |-> {}]
    /\ held = [s \in Scripts |-> [r \in Recoveries |-> NoDevices]]
    /\ queue = [s \in Scripts |-> {}]
    /\ overlaps = {}
    /\ runs = 0
    /\ faults = {}

Goto(s, step) == at' = [at EXCEPT ![s] = step]

\* A run ends, well or not, and leaves its place to another.
Ends(s) ==
    /\ Goto(s, "idle")
    /\ of' = [of EXCEPT ![s] = Nobody]
    /\ todo' = [todo EXCEPT ![s] = {}]
    /\ picked' = [picked EXCEPT ![s] = NoDevice]
    /\ nbds' = [nbds EXCEPT ![s] = NoDevices]
    /\ listed' = [listed EXCEPT ![s] = {}]
    /\ held' = [held EXCEPT ![s] = [r \in Recoveries |-> NoDevices]]
    /\ queue' = [queue EXCEPT ![s] = {}]

FaultKinds == {"command", "killMount", "killUnmount", "reboot"}

Fault(kind) ==
    /\ faults' = faults \union {kind}
    /\ Cardinality(faults') <= MaxFaults

\* A run of a kind is made, and finds others under way.
Starts(s, kind) ==
    /\ at[s] = "idle"
    /\ runs < MaxRuns
    /\ runs' = runs + 1
    /\ overlaps' = overlaps
          \union {IF kind = other THEN kind ELSE "both" :
                    other \in {IF at[t] \in Mounting THEN "mount" ELSE "unmount" :
                                 t \in {t \in Scripts \ {s} : at[t] # "idle"}}}

-----------------------------------------------------------------------------

\* parse_vm_images: the first kind of which there is an object, though it has no
\* dataSnapshots, and in it all that the machine owns by name.
ImagesOf(r) ==
    LET b == Backup[r]
        objects == IF b.custom # {} THEN b.custom
                   ELSE IF b.helm # {} THEN b.helm ELSE b.operators
    IN IF b.available THEN {ds.disk : ds \in {x \in UNION objects : x.owner = b.vm}} ELSE {}

\* check_for_encryption: no key when one is needed.
KeyMissing(r) == ~Backup[r].keyed

\* A run with "mount"; without images, or without the key, it ends at once.
StartMount(s) ==
    /\ Starts(s, "mount")
    /\ \E r \in Recoveries :
          /\ ImagesOf(r) # {} /\ ~KeyMissing(r)
          /\ of' = [of EXCEPT ![s] = r]
          /\ todo' = [todo EXCEPT ![s] = ImagesOf(r)]
    /\ Goto(s, "overlays")
    /\ UNCHANGED <<machine, records, picked, nbds, listed, held, queue, faults>>

InUse(k) == \E d \in Devices : device[d] = k

\* (Mutation: an overlay is put over one that is in use.)
CreateOverlayAnew(s) ==
    /\ at[s] = "overlays"
    /\ \E k \in todo[s] : todo' = [todo EXCEPT ![s] = @ \ {k}]
    /\ UNCHANGED <<machine, records, at, of, picked, nbds, listed, held, queue, made, faults>>

\* qemu-img does not create an overlay that is in use.
CreateOverlay(s) ==
    /\ at[s] = "overlays"
    /\ \E k \in todo[s] :
          \/ /\ ~InUse(k)
             /\ todo' = [todo EXCEPT ![s] = @ \ {k}]
             /\ UNCHANGED <<at, of, picked, nbds, listed, held, queue, faults>>
          \/ InUse(k) /\ Ends(s) /\ UNCHANGED faults
          \/ Fault("command") /\ Ends(s)
    /\ UNCHANGED <<machine, records, made>>

OverlaysCreated(s) ==
    /\ at[s] = "overlays"
    /\ todo[s] = {}
    /\ todo' = [todo EXCEPT ![s] = ImagesOf(of[s])]
    /\ Goto(s, "allocate")
    /\ UNCHANGED <<machine, records, of, picked, nbds, listed, held, queue, made, faults>>

\* (Mutation: only the lock file is looked for.)
Unlocked == {d \in Devices : device[d] # "stuck"}

\* _find_unused: a device without a process and without a lock file.
Unused == {d \in Devices : device[d] = "free"}

\* _allocate_nbd; without a device the command cannot be put together.
AllocateNbd(s) ==
    /\ at[s] = "allocate"
    /\ todo[s] # {}
    /\ \/ /\ \E d \in Unused : picked' = [picked EXCEPT ![s] = d]
          /\ Goto(s, "connect")
          /\ UNCHANGED <<of, todo, nbds, listed, held, queue>>
       \/ Unused = {} /\ Ends(s)
    /\ UNCHANGED <<machine, records, made, faults>>

\* qemu-nbd -c, whose exit code nobody looks at.
ConnectOverlay(s) ==
    /\ at[s] = "connect"
    /\ \E k \in todo[s] :
          /\ IF device[picked[s]] = "free" /\ ~InUse(k)
             THEN \/ device' = [device EXCEPT ![picked[s]] = k] /\ UNCHANGED faults
                  \/ Fault("command") /\ UNCHANGED device
             ELSE UNCHANGED <<device, faults>>
          /\ nbds' = [nbds EXCEPT ![s] = [@ EXCEPT ![k] = picked[s]]]
          /\ todo' = [todo EXCEPT ![s] = @ \ {k}]
    /\ picked' = [picked EXCEPT ![s] = NoDevice]
    /\ Goto(s, "allocate")
    /\ UNCHANGED <<mnt, dirs, records, of, listed, held, queue, made>>

\* scan_overlay_files and create_mntdirs, which make a directory for each disk,
\* whatever the device is connected to.
OverlaysConnected(s) ==
    /\ at[s] = "allocate"
    /\ todo[s] = {}
    /\ todo' = [todo EXCEPT ![s] = ImagesOf(of[s])]
    /\ dirs' = dirs \union ImagesOf(of[s])
    /\ Goto(s, "mount")
    /\ UNCHANGED <<device, mnt, records, of, picked, nbds, listed, held, queue, made, faults>>

-----------------------------------------------------------------------------

\* mountdevice tries four times, and returns when none of them succeeds.
MountDevice(k, d) ==
    \/ device[d] \in Disks /\ mnt' = mnt \union {<<k, d>>} /\ UNCHANGED faults
    \/ device[d] \notin Disks /\ UNCHANGED <<mnt, faults>>
    \/ Fault("command") /\ UNCHANGED mnt

MountFilesystem(s) ==
    /\ at[s] = "mount"
    /\ \E k \in todo[s] :
          /\ MountDevice(k, nbds[s][k])
          /\ todo' = [todo EXCEPT ![s] = @ \ {k}]
    /\ UNCHANGED <<device, dirs, records, at, of, picked, nbds, listed, held, queue, made>>

FilesystemsMounted(s) ==
    /\ at[s] = "mount"
    /\ todo[s] = {}
    /\ Goto(s, "volumes")
    /\ UNCHANGED <<machine, records, locals, made, faults>>

\* Logical volumes that the kernel finds on connected disks, sooner or later.
VolumesPresent == \E d \in Devices : device[d] \in Lvm

\* mountvolumes: a volume that lvs did not list yet, but lvdisplay does, is a
\* KeyError.  Of the others none is mounted: the names of the disks are compared
\* with the names of devices.
MountVolumes(s) ==
    /\ at[s] = "volumes"
    /\ \/ Goto(s, "openRecord") /\ UNCHANGED locals
       \/ VolumesPresent /\ Ends(s)
    /\ UNCHANGED <<machine, records, made, faults>>

\* write_to_disk, the last thing a run does: the file is opened, which empties it,
OpenRecord(s) ==
    /\ \/ at[s] = "openRecord" /\ Goto(s, "writeRecord")
       \/ at[s] = "openAgain" /\ Goto(s, "writeBack")
    /\ files' = files \union {of[s]}
    /\ torn' = torn \union {of[s]}
    /\ UNCHANGED <<machine, record, locals, made, faults>>

\* and then written.
WriteRecord(s) ==
    /\ at[s] = "writeRecord"
    /\ record' = [record EXCEPT ![of[s]] = nbds[s]]
    /\ torn' = torn \ {of[s]}
    /\ Ends(s)
    /\ UNCHANGED <<machine, files, made, faults>>

MountAction(s) ==
    \/ StartMount(s) \/ CreateOverlay(s) \/ OverlaysCreated(s) \/ AllocateNbd(s)
    \/ ConnectOverlay(s) \/ OverlaysConnected(s) \/ MountFilesystem(s)
    \/ FilesystemsMounted(s) \/ MountVolumes(s) \/ WriteRecord(s)

-----------------------------------------------------------------------------

\* (Mutation: the mounts are below the directories of /mnt, which are not entered.)
StartUnmountAbove(s) ==
    /\ Starts(s, "unmount")
    /\ todo' = [todo EXCEPT ![s] = {}]
    /\ Goto(s, "umount")
    /\ UNCHANGED <<machine, records, of, picked, nbds, listed, held, queue, faults>>

\* A new run with "unmount"; it lists /mnt.
StartUnmount(s) ==
    /\ Starts(s, "unmount")
    /\ todo' = [todo EXCEPT ![s] = dirs]
    /\ Goto(s, "umount")
    /\ UNCHANGED <<machine, records, of, picked, nbds, listed, held, queue, faults>>

\* umount_filesystems; a file system that is busy stays.
UmountFilesystems(s) ==
    /\ at[s] = "umount"
    /\ \E k \in todo[s] :
          /\ \/ mnt' = {m \in mnt : m[1] # k} /\ UNCHANGED faults
             \/ Fault("command") /\ UNCHANGED mnt
          /\ todo' = [todo EXCEPT ![s] = @ \ {k}]
    /\ UNCHANGED <<device, dirs, records, at, of, picked, nbds, listed, held, queue, made>>

\* read_from_disk: the records are listed,
FilesystemsUmounted(s) ==
    /\ at[s] = "umount"
    /\ todo[s] = {}
    /\ listed' = [listed EXCEPT ![s] = files]
    /\ Goto(s, "readRecords")
    /\ UNCHANGED <<machine, records, of, todo, picked, nbds, held, queue, made, faults>>

\* and read one by one; one that is not whole ends the run.
ReadRecord(s) ==
    /\ at[s] = "readRecords"
    /\ \E r \in listed[s] :
          \/ /\ r \notin torn
             /\ held' = [held EXCEPT ![s] = [@ EXCEPT ![r] = record[r]]]
             /\ queue' = [queue EXCEPT ![s] = @ \union {r}]
             /\ listed' = [listed EXCEPT ![s] = @ \ {r}]
             /\ UNCHANGED <<at, of, todo, picked, nbds>>
          \/ r \in torn /\ Ends(s)
    /\ UNCHANGED <<machine, records, made, faults>>

RecordsRead(s) ==
    /\ at[s] = "readRecords"
    /\ listed[s] = {}
    /\ Goto(s, "nextRecord")
    /\ UNCHANGED <<machine, records, locals, made, faults>>

\* (Mutation: one record is gone through.)
OneRecord(s) ==
    /\ at[s] = "nextRecord"
    /\ \/ \E r \in queue[s] :
             /\ of' = [of EXCEPT ![s] = r]
             /\ queue' = [queue EXCEPT ![s] = {}]
             /\ todo' = [todo EXCEPT ![s] = {k \in Disks : held[s][r][k] # NoDevice}]
             /\ Goto(s, "release")
             /\ UNCHANGED <<picked, nbds, listed, held>>
       \/ queue[s] = {} /\ Ends(s)
    /\ UNCHANGED <<machine, records, made, faults>>

NextRecord(s) ==
    /\ at[s] = "nextRecord"
    /\ \/ \E r \in queue[s] :
             /\ of' = [of EXCEPT ![s] = r]
             /\ queue' = [queue EXCEPT ![s] = @ \ {r}]
             /\ todo' = [todo EXCEPT ![s] = {k \in Disks : held[s][r][k] # NoDevice}]
             /\ Goto(s, "release")
             /\ UNCHANGED <<picked, nbds, listed, held>>
       \/ queue[s] = {} /\ Ends(s)
    /\ UNCHANGED <<machine, records, made, faults>>

\* umount_overlays: the device is disconnected from whatever it is connected to;
\* the exit codes are not looked at.
ReleaseDevice(s) ==
    /\ at[s] = "release"
    /\ \E k \in todo[s] :
          LET d == held[s][of[s]][k] IN
          /\ \/ /\ device' = [device EXCEPT ![d] = IF @ = "stuck" THEN @ ELSE "free"]
                /\ UNCHANGED faults
             \/ device[d] \in Disks /\ Fault("command")
                /\ device' \in {device, [device EXCEPT ![d] = "stuck"]}
          /\ todo' = [todo EXCEPT ![s] = @ \ {k}]
    /\ UNCHANGED <<mnt, dirs, records, at, of, picked, nbds, listed, held, queue, made>>

DevicesReleased(s) ==
    /\ at[s] = "release"
    /\ todo[s] = {}
    /\ Goto(s, "openAgain")
    /\ UNCHANGED <<machine, records, locals, made, faults>>

\* (Mutation: the record is written back as it was read.)
WriteBackUnchanged(s) ==
    /\ at[s] = "writeBack"
    /\ record' = [record EXCEPT ![of[s]] = held[s][of[s]]]
    /\ torn' = torn \ {of[s]}
    /\ Goto(s, "nextRecord")
    /\ UNCHANGED <<machine, files, locals, made, faults>>

\* The record is written back without devices, whatever it has become since.
WriteBack(s) ==
    /\ at[s] = "writeBack"
    /\ record' = [record EXCEPT ![of[s]] = NoDevices]
    /\ torn' = torn \ {of[s]}
    /\ held' = [held EXCEPT ![s] = [@ EXCEPT ![of[s]] = NoDevices]]
    /\ of' = [of EXCEPT ![s] = Nobody]
    /\ Goto(s, "nextRecord")
    /\ UNCHANGED <<machine, files, todo, picked, nbds, listed, queue, made, faults>>

UnmountAction(s) ==
    \/ StartUnmount(s) \/ UmountFilesystems(s) \/ FilesystemsUmounted(s)
    \/ ReadRecord(s) \/ RecordsRead(s) \/ NextRecord(s) \/ ReleaseDevice(s)
    \/ DevicesReleased(s) \/ WriteBack(s)

-----------------------------------------------------------------------------

Killed(s) ==
    /\ at[s] # "idle"
    /\ Fault(IF at[s] \in Mounting THEN "killMount" ELSE "killUnmount")
    /\ Ends(s)
    /\ UNCHANGED <<machine, records, made>>

\* Devices and mounts are gone, and so are the runs; the records stay.
Reboot ==
    /\ Fault("reboot")
    /\ device' = [d \in Devices |-> "free"]
    /\ mnt' = {}
    /\ at' = [s \in Scripts |-> "idle"]
    /\ of' = [s \in Scripts |-> Nobody]
    /\ todo' = [s \in Scripts |-> {}]
    /\ picked' = [s \in Scripts |-> NoDevice]
    /\ nbds' = [s \in Scripts |-> NoDevices]
    /\ listed' = [s \in Scripts |-> {}]
    /\ held' = [s \in Scripts |-> [r \in Recoveries |-> NoDevices]]
    /\ queue' = [s \in Scripts |-> {}]
    /\ UNCHANGED <<dirs, records, made>>

Next ==
    \/ \E s \in Scripts : MountAction(s) \/ UnmountAction(s) \/ OpenRecord(s) \/ Killed(s)
    \/ Reboot

Spec == Init /\ [][Next]_vars

=============================================================================
