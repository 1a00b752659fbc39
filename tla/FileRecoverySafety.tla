-------------------------- MODULE FileRecoverySafety --------------------------
(***************************************************************************)
(* For any number of runs, recoveries, disks and devices: every variable   *)
(* keeps its type; as long as no two runs of a kind were made at the same  *)
(* time, the records that stand are true, and no run releases a device     *)
(* that is not its own; and as long as one run is made after another, a    *)
(* mount is of its own disk, "unmount" leaves nothing, and devices are     *)
(* forgotten only where a run with "mount" raises.                         *)
(***************************************************************************)
EXTENDS FileRecoveryProperties, TLAPS

\* What a step relies on to keep the types: the recovery in hand, the device that
\* was picked, a device for each disk once the loop over them is past it, and no
\* record in hand before the first is read.
Typed(s) ==
    /\ at[s] \in Mounting \union {"release", "openAgain", "writeBack"} =>
          of[s] \in Recoveries
    /\ at[s] = "connect" => picked[s] \in Devices
    /\ at[s] \in {"allocate", "connect"} =>
          \A k \in ImagesOf(of[s]) \ todo[s] : nbds[s][k] \in Devices
    /\ at[s] = "mount" => \A k \in todo[s] : nbds[s][k] \in Devices
    /\ at[s] \in {"idle", "umount"} => queue[s] = {}

TInv == TypeOK /\ \A s \in Scripts : Typed(s)

-----------------------------------------------------------------------------

\* Runs that mount, and runs that unmount, were made one after another, and at
\* worst those that mount were killed.
Calm == overlaps \subseteq {"both"} /\ faults \subseteq {"killMount"}

Alone ==
    \A s, t \in Scripts :
        s # t => /\ at[s] \in Mounting => at[t] \notin Mounting
                 /\ at[s] \in Unmounting => at[t] \notin Unmounting

AtRecord == {"release", "openAgain", "writeBack"}

\* A run that unmounts will write back this record.
Pending(s, r) ==
    \/ at[s] \in AtRecord \union {"nextRecord"} /\ r \in queue[s]
    \/ at[s] \in AtRecord /\ r = of[s]

\* It will release this device for that disk of the record.
Doomed(s, r, k, d) ==
    /\ d # NoDevice
    /\ held[s][r][k] = d
    /\ \/ at[s] \in AtRecord \union {"nextRecord"} /\ r \in queue[s]
       \/ at[s] = "release" /\ r = of[s] /\ k \in todo[s]

\* A run that is still reading has read this device for that disk of the record.
Noted(s, r, k, d) ==
    /\ d # NoDevice
    /\ held[s][r][k] = d
    /\ at[s] = "readRecords" /\ r \in queue[s]

\* No run is about to write back this record.
Standing(r) == \A s \in Scripts : ~Pending(s, r)

\* A record that stands is true, and shares no device with another that does.
Standings ==
    \A r \in Recoveries, k \in Disks :
        record[r][k] # NoDevice =>
            /\ r \in files
            /\ Standing(r) =>
                  /\ Connected(k, record[r][k])
                  /\ \A q \in Recoveries \ {r} :
                        Standing(q) => record[q][k] # record[r][k]

\* A run that mounts has devices that are its own: of no record that stands.
Owned(s) ==
    /\ at[s] \notin Mounting => nbds[s] = NoDevices
    /\ \A k \in Disks :
          nbds[s][k] # NoDevice =>
              /\ Connected(k, nbds[s][k])
              /\ \A r \in Recoveries, l \in Disks :
                    record[r][l] = nbds[s][k] => ~Standing(r)

\* What it found unused is unused still.
Free(s) ==
    /\ at[s] = "overlays" => \A k \in ImagesOf(of[s]) \ todo[s] : ~InUse(k)
    /\ at[s] \in {"allocate", "connect"} => \A k \in todo[s] : ~InUse(k)
    /\ at[s] = "connect" => device[picked[s]] = "free"
    /\ at[s] = "writeRecord" => of[s] \in files

\* What will be released is connected to the disk it is released for, nobody
\* else's, and released once.
Dooms(s) ==
    /\ at[s] \in AtRecord => of[s] \notin queue[s]
    /\ at[s] = "release" => \A k \in todo[s] : held[s][of[s]][k] \in Devices
    /\ \A r \in Recoveries, k \in Disks, d \in Devices :
          Doomed(s, r, k, d) =>
              /\ Connected(k, d)
              /\ \A t \in Scripts, l \in Disks : nbds[t][l] # d
              /\ \A q \in Recoveries, l \in Disks : record[q][l] = d => ~Standing(q)
              /\ \A q \in Recoveries : Doomed(s, q, k, d) => q = r

\* What has been read stays true while the rest is read, and no other record comes
\* to name the device.
Notes(s) ==
    \A r \in Recoveries, k \in Disks, d \in Devices :
        Noted(s, r, k, d) =>
            /\ Connected(k, d)
            /\ \A t \in Scripts, l \in Disks : nbds[t][l] # d
            /\ \A q \in Recoveries, l \in Disks : record[q][l] = d => q = r
            /\ \A q \in Recoveries : Noted(s, q, k, d) => q = r

Inv ==
    Calm => /\ Alone
            /\ Standings
            /\ \A s \in Scripts : Owned(s) /\ Free(s) /\ Dooms(s) /\ Notes(s)

-----------------------------------------------------------------------------
(* Types. *)

LEMMA ImagesAreDisks ==
    ASSUME NEW r \in Recoveries
    PROVE  ImagesOf(r) \subseteq Disks
BY BackupsAssumption DEF ImagesOf, Objects, Snapshots

LEMMA TInvInit == Init => TInv
BY BackupsAssumption
   DEF Init, TInv, TypeOK, Typed, Steps, Mounting, NbdMaps, NoDevices

\* TypeOK has the state of the machine, with its records, and that of the runs.
MachineOK ==
    /\ device \in [Devices -> Disks \union {"free", "stuck"}]
    /\ mnt \subseteq Disks \X Devices
    /\ dirs \subseteq Disks
    /\ files \subseteq Recoveries
    /\ record \in [Recoveries -> NbdMaps]
    /\ torn \subseteq Recoveries
    /\ overlaps \subseteq {"mount", "unmount", "both"}
    /\ runs \in 0 .. MaxRuns
    /\ faults \subseteq FaultKinds

LocalsOK ==
    /\ at \in [Scripts -> Steps]
    /\ of \in [Scripts -> Recoveries \union {Nobody}]
    /\ todo \in [Scripts -> SUBSET Disks]
    /\ picked \in [Scripts -> Devices \union {NoDevice}]
    /\ nbds \in [Scripts -> NbdMaps]
    /\ listed \in [Scripts -> SUBSET Recoveries]
    /\ held \in [Scripts -> [Recoveries -> NbdMaps]]
    /\ queue \in [Scripts -> SUBSET Recoveries]

LEMMA TwoTypes == TypeOK <=> MachineOK /\ LocalsOK
BY DEF TypeOK, MachineOK, LocalsOK

LEMMA NoDevicesTyped == NoDevices \in NbdMaps
BY DEF NoDevices, NbdMaps

LEMMA EndsTyped ==
    ASSUME LocalsOK, NEW s \in Scripts, Ends(s)
    PROVE  LocalsOK' /\ Typed(s)'
<1>1. [r \in Recoveries |-> NoDevices] \in [Recoveries -> NbdMaps]
    BY NoDevicesTyped
<1>2. LocalsOK'
    BY <1>1, NoDevicesTyped DEF LocalsOK, Ends, Goto, Steps
<1>3. Typed(s)'
    BY DEF LocalsOK, Ends, Goto, Typed, Mounting
<1> QED BY <1>2, <1>3

LEMMA StartsTyped ==
    ASSUME MachineOK, NEW s \in Scripts, NEW kind \in {"mount", "unmount"}, Starts(s, kind)
    PROVE  /\ overlaps' \subseteq {"mount", "unmount", "both"}
           /\ runs' \in 0 .. MaxRuns
<1>1. runs' \in 0 .. MaxRuns
    BY BackupsAssumption DEF MachineOK, Starts
<1>2. ASSUME NEW other \in {"mount", "unmount"}
      PROVE  (IF kind = other THEN kind ELSE "both") \in {"mount", "unmount", "both"}
    OBVIOUS
<1>3. overlaps' \subseteq {"mount", "unmount", "both"}
    BY <1>2 DEF MachineOK, Starts
<1> QED BY <1>1, <1>3

LEMMA FaultTyped ==
    ASSUME MachineOK, NEW kind \in FaultKinds, Fault(kind)
    PROVE  faults' \subseteq FaultKinds
BY DEF MachineOK, Fault

-----------------------------------------------------------------------------
(* A run leaves the locals of the others alone. *)

Locals(t) == <<at[t], of[t], todo[t], picked[t], nbds[t], listed[t], held[t],
               queue[t]>>

ActionOf(s) == MountAction(s) \/ UnmountAction(s) \/ OpenRecord(s) \/ Killed(s)

LEMMA EndsAlone ==
    ASSUME TypeOK, NEW s \in Scripts, NEW t \in Scripts, t # s, Ends(s)
    PROVE  UNCHANGED Locals(t)
BY DEF TypeOK, Ends, Goto, Locals

LEMMA OthersKept ==
    ASSUME TypeOK, NEW s \in Scripts, NEW t \in Scripts, t # s, ActionOf(s)
    PROVE  UNCHANGED Locals(t)
<1> USE EndsAlone DEF TypeOK, Goto, Locals, locals
<1>1. CASE StartMount(s) \/ CreateOverlay(s) \/ OverlaysCreated(s)
    BY <1>1 DEF StartMount, CreateOverlay, OverlaysCreated
<1>2. CASE AllocateNbd(s) \/ ConnectOverlay(s) \/ OverlaysConnected(s)
    BY <1>2 DEF AllocateNbd, ConnectOverlay, OverlaysConnected
<1>3. CASE MountFilesystem(s) \/ FilesystemsMounted(s) \/ MountVolumes(s) \/ WriteRecord(s)
    BY <1>3 DEF MountFilesystem, FilesystemsMounted, MountVolumes, WriteRecord
<1>4. CASE \/ StartUnmount(s) \/ UmountFilesystems(s) \/ FilesystemsUmounted(s)
           \/ ReadRecord(s) \/ RecordsRead(s)
    BY <1>4 DEF StartUnmount, UmountFilesystems, FilesystemsUmounted, ReadRecord, RecordsRead
<1>5. CASE NextRecord(s) \/ ReleaseDevice(s) \/ DevicesReleased(s) \/ WriteBack(s)
    BY <1>5 DEF NextRecord, ReleaseDevice, DevicesReleased, WriteBack
<1>6. CASE OpenRecord(s) \/ Killed(s)
    BY <1>6 DEF OpenRecord, Killed
<1> QED
    BY <1>1, <1>2, <1>3, <1>4, <1>5, <1>6 DEF ActionOf, MountAction, UnmountAction

-----------------------------------------------------------------------------

LEMMA ActionTyped ==
    ASSUME TInv, NEW s \in Scripts, ActionOf(s)
    PROVE  TypeOK' /\ Typed(s)'
<1> SUFFICES MachineOK' /\ LocalsOK' /\ Typed(s)'
    BY TwoTypes DEF TypeOK, MachineOK, LocalsOK
<1>0. MachineOK /\ LocalsOK /\ Typed(s)
    BY TwoTypes DEF TInv
<1> USE DEF Goto, machine, records, locals, made
<1>1. CASE StartMount(s)
    <2>1. MachineOK'
        BY <1>0, <1>1, StartsTyped DEF MachineOK, StartMount
    <2>2. LocalsOK'
        BY <1>0, <1>1, ImagesAreDisks DEF LocalsOK, StartMount, Steps, Mounting, Unmounting
    <2>3. Typed(s)'
        BY <1>0, <1>1 DEF LocalsOK, Typed, Mounting, StartMount
    <2> QED BY <2>1, <2>2, <2>3
<1>2. CASE CreateOverlay(s)
    <2>1. MachineOK'
        BY <1>0, <1>2, FaultTyped DEF MachineOK, CreateOverlay, FaultKinds
    <2>2. LocalsOK'
        BY <1>0, <1>2, EndsTyped DEF LocalsOK, CreateOverlay, Steps, Mounting, Unmounting
    <2>3. Typed(s)'
        BY <1>0, <1>2, EndsTyped DEF LocalsOK, Typed, Mounting, CreateOverlay
    <2> QED BY <2>1, <2>2, <2>3
<1>3. CASE OverlaysCreated(s)
    <2>1. MachineOK'
        BY <1>0, <1>3 DEF MachineOK, OverlaysCreated
    <2>2. LocalsOK'
        BY <1>0, <1>3, ImagesAreDisks
           DEF LocalsOK, OverlaysCreated, Steps, Mounting, Unmounting, Typed
    <2>3. Typed(s)'
        BY <1>0, <1>3 DEF LocalsOK, Typed, Mounting, OverlaysCreated
    <2> QED BY <2>1, <2>2, <2>3
<1>4. CASE AllocateNbd(s)
    <2>1. MachineOK'
        BY <1>0, <1>4 DEF MachineOK, AllocateNbd
    <2>2. LocalsOK'
        BY <1>0, <1>4, EndsTyped DEF LocalsOK, AllocateNbd, Steps, Mounting, Unmounting, Unused
    <2>3. Typed(s)'
        BY <1>0, <1>4, EndsTyped DEF LocalsOK, Typed, Mounting, AllocateNbd, Unused
    <2> QED BY <2>1, <2>2, <2>3
<1>5. CASE ConnectOverlay(s)
    <2>0. PICK k \in Disks :
              \/ device' = [device EXCEPT ![picked[s]] = k] /\ UNCHANGED faults
              \/ Fault("command") /\ UNCHANGED device
              \/ UNCHANGED <<device, faults>>
        BY <1>0, <1>5 DEF ConnectOverlay, LocalsOK
    <2>1. MachineOK'
        <3>1. faults' \subseteq FaultKinds
            BY <1>0, <2>0, FaultTyped DEF MachineOK, FaultKinds
        <3>2. device' \in [Devices -> Disks \union {"free", "stuck"}]
            BY <1>0, <2>0 DEF MachineOK
        <3> QED BY <1>0, <1>5, <3>1, <3>2 DEF MachineOK, ConnectOverlay
    <2>2. LocalsOK'
        BY <1>0, <1>5 DEF LocalsOK, ConnectOverlay, Steps, Mounting, Unmounting, NbdMaps
    <2>3. Typed(s)'
        BY <1>0, <1>5 DEF LocalsOK, Typed, Mounting, ConnectOverlay, NbdMaps
    <2> QED BY <2>1, <2>2, <2>3
<1>6. CASE OverlaysConnected(s)
    <2>1. MachineOK'
        BY <1>0, <1>6, ImagesAreDisks DEF MachineOK, OverlaysConnected, Typed, Mounting
    <2>2. LocalsOK'
        BY <1>0, <1>6, ImagesAreDisks
           DEF LocalsOK, OverlaysConnected, Steps, Mounting, Unmounting, Typed
    <2>3. Typed(s)'
        BY <1>0, <1>6 DEF LocalsOK, Typed, Mounting, OverlaysConnected
    <2> QED BY <2>1, <2>2, <2>3
<1>7. CASE MountFilesystem(s)
    <2>0. PICK k \in Disks :
              /\ nbds[s][k] \in Devices
              /\ MountDevice(k, nbds[s][k])
        BY <1>0, <1>7 DEF MountFilesystem, LocalsOK, Typed
    <2>1. MachineOK'
        <3>1. faults' \subseteq FaultKinds
            BY <1>0, <2>0, FaultTyped DEF MachineOK, MountDevice, FaultKinds
        <3>2. mnt' \subseteq Disks \X Devices
            BY <1>0, <2>0 DEF MachineOK, MountDevice
        <3> QED BY <1>0, <1>7, <3>1, <3>2 DEF MachineOK, MountFilesystem
    <2>2. LocalsOK'
        BY <1>0, <1>7 DEF LocalsOK, MountFilesystem, Steps, Mounting, Unmounting
    <2>3. Typed(s)'
        BY <1>0, <1>7 DEF LocalsOK, Typed, Mounting, MountFilesystem
    <2> QED BY <2>1, <2>2, <2>3
<1>8. CASE FilesystemsMounted(s)
    <2>1. MachineOK'
        BY <1>0, <1>8 DEF MachineOK, FilesystemsMounted
    <2>2. LocalsOK'
        BY <1>0, <1>8 DEF LocalsOK, FilesystemsMounted, Steps, Mounting, Unmounting
    <2>3. Typed(s)'
        BY <1>0, <1>8 DEF LocalsOK, Typed, Mounting, FilesystemsMounted
    <2> QED BY <2>1, <2>2, <2>3
<1>9. CASE MountVolumes(s)
    <2>1. MachineOK'
        BY <1>0, <1>9 DEF MachineOK, MountVolumes
    <2>2. LocalsOK'
        BY <1>0, <1>9, EndsTyped DEF LocalsOK, MountVolumes, Steps, Mounting, Unmounting
    <2>3. Typed(s)'
        BY <1>0, <1>9, EndsTyped DEF LocalsOK, Typed, Mounting, MountVolumes
    <2> QED BY <2>1, <2>2, <2>3
<1>10. CASE OpenRecord(s)
    <2>1. MachineOK'
        BY <1>0, <1>10 DEF MachineOK, OpenRecord, Typed, Mounting
    <2>2. LocalsOK'
        BY <1>0, <1>10 DEF LocalsOK, OpenRecord, Steps, Mounting, Unmounting
    <2>3. Typed(s)'
        BY <1>0, <1>10 DEF LocalsOK, Typed, Mounting, OpenRecord
    <2> QED BY <2>1, <2>2, <2>3
<1>11. CASE WriteRecord(s)
    <2>1. MachineOK'
        BY <1>0, <1>11 DEF MachineOK, WriteRecord, LocalsOK
    <2>2. LocalsOK'
        BY <1>0, <1>11, EndsTyped DEF LocalsOK, WriteRecord
    <2>3. Typed(s)'
        BY <1>0, <1>11, EndsTyped DEF LocalsOK, Typed, Mounting, WriteRecord
    <2> QED BY <2>1, <2>2, <2>3
<1>12. CASE StartUnmount(s)
    <2>1. MachineOK'
        BY <1>0, <1>12, StartsTyped DEF MachineOK, StartUnmount
    <2>2. LocalsOK'
        BY <1>0, <1>12 DEF LocalsOK, MachineOK, StartUnmount, Steps, Mounting, Unmounting
    <2>3. Typed(s)'
        BY <1>0, <1>12 DEF LocalsOK, Typed, Mounting, StartUnmount, Starts
    <2> QED BY <2>1, <2>2, <2>3
<1>13. CASE UmountFilesystems(s)
    <2>1. MachineOK'
        BY <1>0, <1>13, FaultTyped DEF MachineOK, UmountFilesystems, FaultKinds
    <2>2. LocalsOK'
        BY <1>0, <1>13 DEF LocalsOK, UmountFilesystems, Steps, Mounting, Unmounting
    <2>3. Typed(s)'
        BY <1>0, <1>13 DEF LocalsOK, Typed, Mounting, UmountFilesystems
    <2> QED BY <2>1, <2>2, <2>3
<1>14. CASE FilesystemsUmounted(s)
    <2>1. MachineOK'
        BY <1>0, <1>14 DEF MachineOK, FilesystemsUmounted
    <2>2. LocalsOK'
        BY <1>0, <1>14
           DEF LocalsOK, MachineOK, FilesystemsUmounted, Steps, Mounting, Unmounting
    <2>3. Typed(s)'
        BY <1>0, <1>14 DEF LocalsOK, Typed, Mounting, FilesystemsUmounted
    <2> QED BY <2>1, <2>2, <2>3
<1>15. CASE ReadRecord(s)
    <2>1. MachineOK'
        BY <1>0, <1>15 DEF MachineOK, ReadRecord
    <2>2. CASE Ends(s)
        BY <2>1, <1>0, <2>2, EndsTyped
    <2>3. CASE ~Ends(s)
        <3>1. PICK r \in listed[s] :
                  /\ held' = [held EXCEPT ![s] = [@ EXCEPT ![r] = record[r]]]
                  /\ queue' = [queue EXCEPT ![s] = @ \union {r}]
                  /\ listed' = [listed EXCEPT ![s] = @ \ {r}]
                  /\ UNCHANGED <<at, of, todo, picked, nbds>>
            BY <1>15, <2>3 DEF ReadRecord
        <3>2. r \in Recoveries /\ record[r] \in NbdMaps
            BY <1>0, <3>1 DEF LocalsOK, MachineOK
        <3>3. held' \in [Scripts -> [Recoveries -> NbdMaps]]
            BY <1>0, <3>1, <3>2 DEF LocalsOK
        <3>4. /\ queue' \in [Scripts -> SUBSET Recoveries]
              /\ listed' \in [Scripts -> SUBSET Recoveries]
            BY <1>0, <3>1, <3>2 DEF LocalsOK
        <3>5. LocalsOK'
            BY <1>0, <3>1, <3>3, <3>4 DEF LocalsOK
        <3>6. Typed(s)'
            BY <1>15, <3>1 DEF Typed, Mounting, ReadRecord
        <3> QED BY <2>1, <3>5, <3>6
    <2> QED BY <2>2, <2>3
<1>21. CASE RecordsRead(s)
    <2>1. MachineOK'
        BY <1>0, <1>21 DEF MachineOK, RecordsRead
    <2>2. LocalsOK'
        BY <1>0, <1>21 DEF LocalsOK, RecordsRead, Steps, Mounting, Unmounting
    <2>3. Typed(s)'
        BY <1>0, <1>21 DEF LocalsOK, Typed, Mounting, RecordsRead
    <2> QED BY <2>1, <2>2, <2>3
<1>16. CASE NextRecord(s)
    <2>1. MachineOK'
        BY <1>0, <1>16 DEF MachineOK, NextRecord
    <2>2. LocalsOK'
        <3>1. CASE queue[s] # {}
            <4>1. PICK r \in Recoveries :
                      /\ of' = [of EXCEPT ![s] = r]
                      /\ queue' = [queue EXCEPT ![s] = @ \ {r}]
                      /\ todo' = [todo EXCEPT ![s] = {k \in Disks : held[s][r][k] # NoDevice}]
                BY <1>0, <1>16, <3>1 DEF LocalsOK, NextRecord
            <4> QED BY <1>0, <1>16, <3>1, <4>1 DEF LocalsOK, NextRecord, Steps, Unmounting
        <3>2. CASE queue[s] = {}
            BY <1>0, <1>16, <3>2, EndsTyped DEF NextRecord
        <3> QED BY <3>1, <3>2
    <2>3. Typed(s)'
        BY <1>0, <1>16, EndsTyped DEF LocalsOK, Typed, Mounting, NextRecord
    <2> QED BY <2>1, <2>2, <2>3
<1>17. CASE ReleaseDevice(s)
    <2>1. MachineOK'
        BY <1>0, <1>17, FaultTyped DEF MachineOK, ReleaseDevice, FaultKinds
    <2>2. LocalsOK'
        BY <1>0, <1>17 DEF LocalsOK, ReleaseDevice, Steps, Mounting, Unmounting
    <2>3. Typed(s)'
        BY <1>0, <1>17 DEF LocalsOK, Typed, Mounting, ReleaseDevice
    <2> QED BY <2>1, <2>2, <2>3
<1>18. CASE DevicesReleased(s)
    <2>1. MachineOK'
        BY <1>0, <1>18 DEF MachineOK, DevicesReleased
    <2>2. LocalsOK'
        BY <1>0, <1>18 DEF LocalsOK, DevicesReleased, Steps, Mounting, Unmounting
    <2>3. Typed(s)'
        BY <1>0, <1>18 DEF LocalsOK, Typed, Mounting, DevicesReleased
    <2> QED BY <2>1, <2>2, <2>3
<1>19. CASE WriteBack(s)
    <2>1. MachineOK'
        BY <1>0, <1>19, NoDevicesTyped DEF MachineOK, WriteBack
    <2>2. LocalsOK'
        BY <1>0, <1>19, NoDevicesTyped DEF LocalsOK, WriteBack, Steps, Mounting, Unmounting
    <2>3. Typed(s)'
        BY <1>0, <1>19 DEF LocalsOK, Typed, Mounting, WriteBack
    <2> QED BY <2>1, <2>2, <2>3
<1>20. CASE Killed(s)
    <2>1. MachineOK'
        BY <1>0, <1>20, FaultTyped DEF MachineOK, Killed, FaultKinds
    <2>2. LocalsOK'
        BY <1>0, <1>20, EndsTyped DEF LocalsOK, Killed
    <2>3. Typed(s)'
        BY <1>0, <1>20, EndsTyped DEF LocalsOK, Typed, Mounting, Killed
    <2> QED BY <2>1, <2>2, <2>3
<1> QED
    BY <1>1, <1>2, <1>3, <1>4, <1>5, <1>6, <1>7, <1>8, <1>9, <1>10, <1>11, <1>12,
       <1>13, <1>14, <1>15, <1>16, <1>17, <1>18, <1>19, <1>20, <1>21
       DEF ActionOf, MountAction, UnmountAction

LEMMA RebootTyped == TInv /\ Reboot => TInv'
<1> SUFFICES ASSUME TInv, Reboot PROVE TInv'
    OBVIOUS
<1>0. MachineOK /\ LocalsOK
    BY TwoTypes DEF TInv
<1>1. [r \in Recoveries |-> NoDevices] \in [Recoveries -> NbdMaps]
    BY NoDevicesTyped
<1>2. MachineOK'
    BY <1>0, FaultTyped DEF MachineOK, Reboot, records, made, FaultKinds
<1>3. LocalsOK'
    BY <1>1, NoDevicesTyped DEF LocalsOK, Reboot, Steps
<1>4. \A s \in Scripts : Typed(s)'
    BY DEF Reboot, Typed, Mounting
<1>5. TypeOK'
    BY <1>2, <1>3 DEF TypeOK, MachineOK, LocalsOK
<1> QED BY <1>4, <1>5 DEF TInv

LEMMA TInvNext == TInv /\ [Next]_vars => TInv'
<1> SUFFICES ASSUME TInv, [Next]_vars PROVE TInv'
    OBVIOUS
<1>1. ASSUME NEW s \in Scripts, ActionOf(s) PROVE TInv'
    <2>1. TypeOK' /\ Typed(s)'
        BY <1>1, ActionTyped
    <2>2. ASSUME NEW t \in Scripts, t # s PROVE Typed(t)'
        <3>1. UNCHANGED Locals(t)
            BY <1>1, <2>2, OthersKept DEF TInv
        <3> QED BY <3>1 DEF TInv, Typed, Locals
    <2> QED BY <2>1, <2>2 DEF TInv
<1>2. CASE Reboot
    BY <1>2, RebootTyped
<1>3. CASE UNCHANGED vars
    BY <1>3 DEF vars, machine, records, locals, made, TInv, TypeOK, Typed
<1> QED BY <1>1, <1>2, <1>3 DEF Next, ActionOf

\* Every variable keeps its type: a run never goes on without the recovery or the
\* device it works on (perform_action, vm_qcow2_mount.py:653-683).
THEOREM TypeCorrect == Spec => []TypeOK
<1>1. TInv => TypeOK
    BY DEF TInv
<1> QED BY TInvInit, TInvNext, <1>1, PTL DEF Spec

-----------------------------------------------------------------------------
(* The invariant holds at first, and what was not calm stays so. *)

LEMMA InvInit == Init => Inv
BY BackupsAssumption
   DEF Init, Inv, Alone, Standings, Owned, Free, Dooms, Doomed, Notes, Noted, Mounting,
       Unmounting, AtRecord, NoDevices

LEMMA HistoryGrows ==
    ASSUME NEW s \in Scripts, ActionOf(s)
    PROVE  overlaps \subseteq overlaps' /\ faults \subseteq faults'
<1> USE DEF made, Fault
<1>1. CASE StartMount(s) \/ StartUnmount(s)
    BY <1>1 DEF StartMount, StartUnmount, Starts
<1>2. CASE CreateOverlay(s) \/ OverlaysCreated(s) \/ AllocateNbd(s) \/ OverlaysConnected(s)
    BY <1>2 DEF CreateOverlay, OverlaysCreated, AllocateNbd, OverlaysConnected
<1>3. CASE ConnectOverlay(s)
    BY <1>3 DEF ConnectOverlay
<1>4. CASE MountFilesystem(s) \/ FilesystemsMounted(s) \/ MountVolumes(s) \/ WriteRecord(s)
    BY <1>4 DEF MountFilesystem, MountDevice, FilesystemsMounted, MountVolumes, WriteRecord
<1>5. CASE \/ UmountFilesystems(s) \/ FilesystemsUmounted(s) \/ ReadRecord(s)
           \/ RecordsRead(s) \/ NextRecord(s)
    BY <1>5 DEF UmountFilesystems, FilesystemsUmounted, ReadRecord, RecordsRead, NextRecord
<1>6. CASE ReleaseDevice(s) \/ DevicesReleased(s) \/ WriteBack(s)
    BY <1>6 DEF ReleaseDevice, DevicesReleased, WriteBack
<1>7. CASE OpenRecord(s) \/ Killed(s)
    BY <1>7 DEF OpenRecord, Killed
<1> QED
    BY <1>1, <1>2, <1>3, <1>4, <1>5, <1>6, <1>7 DEF ActionOf, MountAction, UnmountAction

LEMMA NoCommandFails == Calm' => ~Fault("command") /\ ~Fault("killUnmount") /\ ~Fault("reboot")
BY DEF Calm, Fault

\* A run that goes on, or ends, remains alone; one that starts was alone.
LEMMA GoesOnAlone ==
    ASSUME NEW s \in Scripts, Alone,
           \A t \in Scripts \ {s} : UNCHANGED Locals(t),
           at'[s] \in Mounting => at[s] \in Mounting,
           at'[s] \in Unmounting => at[s] \in Unmounting
    PROVE  Alone'
BY DEF Alone, Locals

LEMMA StartsAlone ==
    ASSUME NEW s \in Scripts, Alone, Calm', NEW kind \in {"mount", "unmount"},
           Starts(s, kind),
           \A t \in Scripts \ {s} : UNCHANGED Locals(t),
           at'[s] \in Mounting => kind = "mount",
           at'[s] \in Unmounting => kind = "unmount"
    PROVE  Alone'
<1>1. ASSUME NEW t \in Scripts \ {s}, at[t] # "idle",
             kind = IF at[t] \in Mounting THEN "mount" ELSE "unmount"
      PROVE  FALSE
    <2>1. kind \in overlaps'
        BY <1>1 DEF Starts
    <2> QED BY <2>1 DEF Calm
<1>2. Mounting \intersect Unmounting = {} /\ "idle" \notin Mounting \union Unmounting
    BY DEF Mounting, Unmounting
<1>3. ASSUME NEW t \in Scripts \ {s}
      PROVE  /\ at'[s] \in Mounting => at'[t] \notin Mounting
             /\ at'[s] \in Unmounting => at'[t] \notin Unmounting
    BY <1>1, <1>2 DEF Locals
<1> QED BY <1>3 DEF Alone, Locals

-----------------------------------------------------------------------------
(* Steps that leave devices and records as they are. *)

LEMMA Frame ==
    ASSUME TInv, Inv, Calm, NEW s \in Scripts,
           \A t \in Scripts \ {s} : UNCHANGED Locals(t),
           UNCHANGED <<device, record>>, files \subseteq files',
           nbds'[s] = nbds[s] \/ nbds'[s] = NoDevices,
           at'[s] \notin Mounting => nbds'[s] = NoDevices,
           \A r \in Recoveries : Pending(s, r)' <=> Pending(s, r),
           \A r \in Recoveries, k \in Disks, d \in Devices :
               /\ Doomed(s, r, k, d)' => Doomed(s, r, k, d)
               /\ Noted(s, r, k, d)' => Noted(s, r, k, d),
           at'[s] \in AtRecord => of'[s] \notin queue'[s],
           at'[s] = "release" => \A k \in todo'[s] : held'[s][of'[s]][k] \in Devices,
           Alone', Free(s)'
    PROVE  Inv'
<1>1. \A t \in Scripts \ {s} : \A r \in Recoveries : Pending(t, r)' <=> Pending(t, r)
    BY DEF Pending, Locals
<1>2. \A r \in Recoveries : Standing(r)' <=> Standing(r)
    BY <1>1 DEF Standing
<1>3. \A t \in Scripts, r \in Recoveries, k \in Disks, d \in Devices :
          /\ Doomed(t, r, k, d)' => Doomed(t, r, k, d)
          /\ Noted(t, r, k, d)' => Noted(t, r, k, d)
    BY DEF Doomed, Noted, Locals
<1>4. Standings'
    BY <1>2 DEF Inv, Standings, Connected
<1>5. ASSUME NEW t \in Scripts PROVE Owned(t)'
    <2>1. CASE t = s
        BY <1>2, <2>1 DEF Inv, Owned, Connected, NoDevices
    <2>2. CASE t # s
        BY <1>2, <2>2 DEF Inv, Owned, Connected, Locals
    <2> QED BY <2>1, <2>2
<1>6. ASSUME NEW t \in Scripts PROVE Free(t)'
    BY <1>6 DEF Inv, Free, InUse, Locals
<1>7. ASSUME NEW t \in Scripts PROVE Dooms(t)' /\ Notes(t)'
    <2>1. \A d \in Devices : \A u \in Scripts, l \in Disks : nbds[u][l] # d => nbds'[u][l] # d
        BY BackupsAssumption DEF Locals, NoDevices
    <2>2. /\ at'[t] \in AtRecord => of'[t] \notin queue'[t]
          /\ at'[t] = "release" => \A k \in todo'[t] : held'[t][of'[t]][k] \in Devices
        BY DEF Inv, Dooms, Locals
    <2>3. Dooms(t)'
        BY <1>2, <1>3, <2>1, <2>2 DEF Inv, Dooms, Connected
    <2>4. Notes(t)'
        BY <1>3, <2>1 DEF Inv, Notes, Connected
    <2> QED BY <2>3, <2>4
<1> QED BY <1>4, <1>5, <1>6, <1>7 DEF Inv

\* A run that mounts, or is to mount.
LEMMA MountFrame ==
    ASSUME TInv, Inv, Calm, NEW s \in Scripts, ActionOf(s),
           at[s] \notin Unmounting, at'[s] \notin Unmounting,
           UNCHANGED <<device, record>>, files \subseteq files',
           nbds'[s] = nbds[s] \/ nbds'[s] = NoDevices,
           at'[s] \notin Mounting => nbds'[s] = NoDevices,
           Alone', Free(s)'
    PROVE  Inv'
<1>1. \A t \in Scripts \ {s} : UNCHANGED Locals(t)
    BY OthersKept DEF TInv
<1>2. \A r \in Recoveries : ~Pending(s, r) /\ ~Pending(s, r)'
    BY DEF Pending, AtRecord, Unmounting
<1>3. \A r \in Recoveries, k \in Disks, d \in Devices :
          ~Doomed(s, r, k, d)' /\ ~Noted(s, r, k, d)'
    BY DEF Doomed, Noted, AtRecord, Unmounting
<1>4. at'[s] \notin AtRecord /\ at'[s] # "release"
    BY DEF AtRecord, Unmounting
<1> QED BY <1>1, <1>2, <1>3, <1>4, Frame

LEMMA EndsSafe ==
    ASSUME TInv, Inv, Calm, NEW s \in Scripts, ActionOf(s), Ends(s), at[s] # "idle",
           \A r \in Recoveries : ~Pending(s, r),
           UNCHANGED <<device, record, files>>
    PROVE  Inv'
<1>1. \A t \in Scripts \ {s} : UNCHANGED Locals(t)
    BY OthersKept DEF TInv
<1>2. at'[s] = "idle" /\ nbds'[s] = NoDevices
    BY DEF TInv, TypeOK, Ends, Goto
<1>3. at'[s] \notin Mounting \union Unmounting /\ at'[s] \notin AtRecord
    BY <1>2 DEF Mounting, Unmounting, AtRecord
<1>4. Alone'
    BY <1>1, <1>3, GoesOnAlone DEF Inv
<1>5. Free(s)'
    BY <1>2 DEF Free
<1>6. /\ \A r \in Recoveries : ~Pending(s, r)'
      /\ \A r \in Recoveries, k \in Disks, d \in Devices :
             ~Doomed(s, r, k, d)' /\ ~Noted(s, r, k, d)'
    BY <1>2 DEF Pending, Doomed, Noted, AtRecord
<1> QED BY <1>1, <1>2, <1>3, <1>4, <1>5, <1>6, Frame

LEMMA NoneWhenMounting ==
    ASSUME NEW s \in Scripts, at[s] \in Mounting
    PROVE  /\ at[s] # "idle" /\ at[s] \notin Unmounting
           /\ \A r \in Recoveries : ~Pending(s, r)
BY DEF Mounting, Unmounting, Pending, AtRecord

LEMMA MountStepSafe ==
    ASSUME TInv, Inv, Calm, Calm', NEW s \in Scripts, ActionOf(s),
           \/ StartMount(s) \/ CreateOverlay(s) \/ OverlaysCreated(s) \/ AllocateNbd(s)
           \/ OverlaysConnected(s) \/ MountFilesystem(s) \/ FilesystemsMounted(s)
           \/ MountVolumes(s)
           \/ OpenRecord(s) /\ at[s] = "openRecord"
           \/ Killed(s)
    PROVE  Inv'
<1>0. /\ \A t \in Scripts \ {s} : UNCHANGED Locals(t)
      /\ TypeOK /\ Alone /\ Owned(s) /\ Free(s)
    BY OthersKept DEF TInv, Inv
<1> USE DEF TypeOK, Goto, machine, records, locals
<1>1. ASSUME at[s] \in Mounting, at'[s] \in Mounting, UNCHANGED <<device, record, nbds>>,
             files \subseteq files', Free(s)'
      PROVE  Inv'
    <2>1. at[s] \notin Unmounting /\ at'[s] \notin Unmounting
        BY <1>1 DEF Mounting, Unmounting
    <2>2. Alone'
        BY <1>0, <1>1, <2>1, GoesOnAlone
    <2> QED BY <1>1, <2>1, <2>2, MountFrame
<1>2. CASE StartMount(s)
    <2>1. at[s] = "idle" /\ at'[s] = "overlays" /\ nbds' = nbds /\ files' = files
        BY <1>0, <1>2 DEF StartMount, Starts
    <2>2. at[s] \notin Unmounting /\ at'[s] \in Mounting /\ at'[s] \notin Unmounting
        BY <2>1 DEF Mounting, Unmounting
    <2>3. Alone'
        BY <1>0, <1>2, <2>2, StartsAlone DEF StartMount
    <2>4. Free(s)'
        BY <1>0, <1>2, <2>1 DEF StartMount, Free
    <2> QED BY <1>2, <2>1, <2>2, <2>3, <2>4, MountFrame DEF StartMount
<1>3. CASE CreateOverlay(s)
    <2>1. at[s] \in Mounting
        BY <1>3 DEF CreateOverlay, Mounting
    <2>2. CASE Ends(s)
        BY <1>3, <2>1, <2>2, EndsSafe, NoneWhenMounting DEF CreateOverlay
    <2>3. CASE ~Ends(s)
        <3>1. PICK k \in todo[s] : /\ ~InUse(k)
                                   /\ todo' = [todo EXCEPT ![s] = @ \ {k}]
                                   /\ UNCHANGED <<at, of, picked, nbds, listed, held, queue>>
            BY <1>3, <2>3 DEF CreateOverlay
        <3>2. Free(s)'
            BY <1>0, <1>3, <3>1 DEF CreateOverlay, Free, InUse
        <3> QED BY <1>1, <1>3, <2>1, <3>1, <3>2 DEF CreateOverlay
    <2> QED BY <2>2, <2>3
<1>4. CASE OverlaysCreated(s)
    <2>1. at[s] \in Mounting /\ at'[s] \in Mounting
        BY <1>4 DEF OverlaysCreated, Mounting
    <2>2. Free(s)'
        BY <1>0, <1>4 DEF OverlaysCreated, Free, InUse
    <2> QED BY <1>1, <1>4, <2>1, <2>2 DEF OverlaysCreated
<1>5. CASE AllocateNbd(s)
    <2>1. at[s] \in Mounting
        BY <1>5 DEF AllocateNbd, Mounting
    <2>2. CASE Ends(s)
        BY <1>5, <2>1, <2>2, EndsSafe, NoneWhenMounting DEF AllocateNbd
    <2>3. CASE ~Ends(s)
        <3>1. Free(s)' /\ at'[s] = "connect"
            BY <1>0, <1>5, <2>3 DEF AllocateNbd, Free, InUse, Unused
        <3>2. at'[s] \in Mounting
            BY <3>1 DEF Mounting
        <3> QED BY <1>1, <1>5, <2>1, <2>3, <3>1, <3>2 DEF AllocateNbd
    <2> QED BY <2>2, <2>3
<1>6. CASE OverlaysConnected(s) \/ MountFilesystem(s) \/ FilesystemsMounted(s)
    <2>0. at'[s] \in {"mount", "volumes"}
        BY <1>0, <1>6 DEF OverlaysConnected, MountFilesystem, FilesystemsMounted
    <2>1. at[s] \in Mounting /\ at'[s] \in Mounting
        BY <1>6, <2>0 DEF OverlaysConnected, MountFilesystem, FilesystemsMounted, Mounting
    <2>2. Free(s)'
        BY <2>0 DEF Free
    <2> QED BY <1>1, <1>6, <2>1, <2>2
            DEF OverlaysConnected, MountFilesystem, FilesystemsMounted
<1>7. CASE MountVolumes(s)
    <2>1. at[s] \in Mounting
        BY <1>7 DEF MountVolumes, Mounting
    <2>2. CASE Ends(s)
        BY <1>7, <2>1, <2>2, EndsSafe, NoneWhenMounting DEF MountVolumes
    <2>3. CASE ~Ends(s)
        <3>1. at'[s] = "openRecord"
            BY <1>0, <1>7, <2>3 DEF MountVolumes
        <3>2. at'[s] \in Mounting /\ Free(s)'
            BY <3>1 DEF Mounting, Free
        <3> QED BY <1>1, <1>7, <2>1, <2>3, <3>2 DEF MountVolumes
    <2> QED BY <2>2, <2>3
<1>8. CASE OpenRecord(s) /\ at[s] = "openRecord"
    <2>1. at'[s] = "writeRecord" /\ of[s] \in files' /\ of' = of
        BY <1>0, <1>8 DEF OpenRecord
    <2>2. at[s] \in Mounting /\ at'[s] \in Mounting /\ Free(s)'
        BY <1>8, <2>1 DEF Mounting, Free
    <2> QED BY <1>1, <1>8, <2>2 DEF OpenRecord
<1>9. CASE Killed(s)
    <2>1. at[s] \in Mounting
        BY <1>9, NoCommandFails DEF Killed
    <2> QED BY <1>9, <2>1, EndsSafe, NoneWhenMounting DEF Killed
<1> QED BY <1>2, <1>3, <1>4, <1>5, <1>6, <1>7, <1>8, <1>9

\* A run that unmounts, or is to.
LEMMA UnmountFrame ==
    ASSUME TInv, Inv, Calm, NEW s \in Scripts, ActionOf(s),
           at[s] \notin Mounting, at'[s] \in Unmounting,
           UNCHANGED <<device, record, nbds>>, files \subseteq files',
           \A r \in Recoveries : Pending(s, r)' <=> Pending(s, r),
           \A r \in Recoveries, k \in Disks, d \in Devices :
               /\ Doomed(s, r, k, d)' => Doomed(s, r, k, d)
               /\ Noted(s, r, k, d)' => Noted(s, r, k, d),
           at'[s] \in AtRecord => of'[s] \notin queue'[s],
           at'[s] = "release" => \A k \in todo'[s] : held'[s][of'[s]][k] \in Devices,
           Alone'
    PROVE  Inv'
<1>1. \A t \in Scripts \ {s} : UNCHANGED Locals(t)
    BY OthersKept DEF TInv
<1>2. nbds'[s] = NoDevices
    BY DEF Inv, Owned
<1>3. Free(s)'
    BY DEF Free, Unmounting
<1> QED BY <1>1, <1>2, <1>3, Frame

LEMMA UnmountStepSafe ==
    ASSUME TInv, Inv, Calm, Calm', NEW s \in Scripts, ActionOf(s),
           \/ StartUnmount(s) \/ UmountFilesystems(s) \/ FilesystemsUmounted(s)
           \/ ReadRecord(s) /\ Ends(s)
           \/ NextRecord(s) \/ DevicesReleased(s)
           \/ OpenRecord(s) /\ at[s] = "openAgain"
    PROVE  Inv'
<1>0. /\ \A t \in Scripts \ {s} : UNCHANGED Locals(t)
      /\ TypeOK /\ Typed(s) /\ Alone /\ Dooms(s)
    BY OthersKept DEF TInv, Inv
<1> USE DEF TypeOK, Goto, machine, records, locals
<1>1. ASSUME at[s] \in Unmounting, at'[s] \in Unmounting
      PROVE  at[s] \notin Mounting /\ Alone'
    <2>1. at[s] \notin Mounting /\ at'[s] \notin Mounting
        BY <1>1 DEF Mounting, Unmounting
    <2> QED BY <1>0, <1>1, <2>1, GoesOnAlone
<1>2. CASE StartUnmount(s)
    <2>1. at[s] = "idle" /\ at'[s] = "umount"
        BY <1>0, <1>2 DEF StartUnmount, Starts
    <2>2. at[s] \notin Mounting /\ at'[s] \in Unmounting /\ at'[s] \notin Mounting
        BY <2>1 DEF Mounting, Unmounting
    <2>3. Alone'
        BY <1>0, <1>2, <2>2, StartsAlone DEF StartUnmount
    <2>4. /\ \A r \in Recoveries : ~Pending(s, r) /\ ~Pending(s, r)'
          /\ \A r \in Recoveries, k \in Disks, d \in Devices :
                 ~Doomed(s, r, k, d)' /\ ~Noted(s, r, k, d)'
          /\ at'[s] \notin AtRecord
        BY <2>1 DEF Pending, Doomed, Noted, AtRecord
    <2> QED BY <1>2, <2>1, <2>2, <2>3, <2>4, UnmountFrame DEF StartUnmount
<1>3. CASE UmountFilesystems(s) \/ FilesystemsUmounted(s)
    <2>1. at[s] = "umount" /\ at'[s] \in {"umount", "readRecords"} /\ queue'[s] = {}
        BY <1>0, <1>3 DEF UmountFilesystems, FilesystemsUmounted, Typed
    <2>2. at[s] \in Unmounting /\ at'[s] \in Unmounting
        BY <2>1 DEF Unmounting
    <2>3. /\ \A r \in Recoveries : ~Pending(s, r) /\ ~Pending(s, r)'
          /\ \A r \in Recoveries, k \in Disks, d \in Devices :
                 ~Doomed(s, r, k, d)' /\ ~Noted(s, r, k, d)'
          /\ at'[s] \notin AtRecord /\ at'[s] # "release"
        BY <2>1 DEF Pending, Doomed, Noted, AtRecord
    <2> QED BY <1>1, <1>3, <2>2, <2>3, UnmountFrame DEF UmountFilesystems, FilesystemsUmounted
<1>4. CASE ReadRecord(s) /\ Ends(s)
    <2>1. at[s] = "readRecords"
        BY <1>4 DEF ReadRecord
    <2>2. \A r \in Recoveries : ~Pending(s, r)
        BY <2>1 DEF Pending, AtRecord
    <2> QED BY <1>4, <2>1, <2>2, EndsSafe DEF ReadRecord
<1>5. CASE NextRecord(s)
    <2>1. at[s] = "nextRecord"
        BY <1>5 DEF NextRecord
    <2>2. CASE queue[s] = {} /\ Ends(s)
        <3>1. \A r \in Recoveries : ~Pending(s, r)
            BY <2>1, <2>2 DEF Pending, AtRecord
        <3> QED BY <1>5, <2>1, <2>2, <3>1, EndsSafe DEF NextRecord
    <2>3. CASE ~(queue[s] = {} /\ Ends(s))
        <3>1. PICK r \in queue[s] :
                  /\ of'[s] = r
                  /\ queue'[s] = queue[s] \ {r}
                  /\ todo'[s] = {k \in Disks : held[s][r][k] # NoDevice}
                  /\ at'[s] = "release"
            BY <1>0, <1>5, <2>3 DEF NextRecord
        <3>2. UNCHANGED <<device, record, files, nbds, held>>
            BY <1>5, <2>3 DEF NextRecord
        <3>3. at[s] \in Unmounting /\ at'[s] \in Unmounting
            BY <2>1, <3>1 DEF Unmounting
        <3>4. \A q \in Recoveries : Pending(s, q)' <=> Pending(s, q)
            BY <2>1, <3>1 DEF Pending, AtRecord
        <3>5. \A q \in Recoveries, k \in Disks, d \in Devices :
                  /\ Doomed(s, q, k, d)' => Doomed(s, q, k, d)
                  /\ ~Noted(s, q, k, d)'
            BY <2>1, <3>1, <3>2 DEF Doomed, Noted, AtRecord
        <3>6. \A k \in todo'[s] : held'[s][of'[s]][k] \in Devices
            <4>1. held[s] \in [Recoveries -> NbdMaps] /\ r \in Recoveries
                BY <1>0
            <4> QED BY <3>1, <3>2, <4>1 DEF NbdMaps
        <3> QED BY <1>1, <3>1, <3>2, <3>3, <3>4, <3>5, <3>6, UnmountFrame
    <2> QED BY <2>2, <2>3
<1>6. CASE DevicesReleased(s)
    <2>1. at[s] = "release" /\ at'[s] = "openAgain" /\ todo[s] = {}
        BY <1>0, <1>6 DEF DevicesReleased
    <2>2. at[s] \in Unmounting /\ at'[s] \in Unmounting
        BY <2>1 DEF Unmounting
    <2>3. /\ \A r \in Recoveries : Pending(s, r)' <=> Pending(s, r)
          /\ \A r \in Recoveries, k \in Disks, d \in Devices :
                 /\ Doomed(s, r, k, d)' => Doomed(s, r, k, d)
                 /\ ~Noted(s, r, k, d)'
          /\ of'[s] \notin queue'[s]
        BY <1>0, <1>6, <2>1 DEF DevicesReleased, Dooms, Pending, Doomed, Noted, AtRecord
    <2> QED BY <1>1, <1>6, <2>1, <2>2, <2>3, UnmountFrame DEF DevicesReleased
<1>7. CASE OpenRecord(s) /\ at[s] = "openAgain"
    <2>1. at[s] = "openAgain" /\ at'[s] = "writeBack"
        BY <1>0, <1>7 DEF OpenRecord
    <2>2. at[s] \in Unmounting /\ at'[s] \in Unmounting
        BY <2>1 DEF Unmounting
    <2>3. /\ \A r \in Recoveries : Pending(s, r)' <=> Pending(s, r)
          /\ \A r \in Recoveries, k \in Disks, d \in Devices :
                 /\ Doomed(s, r, k, d)' => Doomed(s, r, k, d)
                 /\ ~Noted(s, r, k, d)'
          /\ of'[s] \notin queue'[s]
        BY <1>0, <1>7, <2>1 DEF OpenRecord, Dooms, Pending, Doomed, Noted, AtRecord
    <2> QED BY <1>1, <1>7, <2>1, <2>2, <2>3, UnmountFrame DEF OpenRecord
<1> QED BY <1>2, <1>3, <1>4, <1>5, <1>6, <1>7

-----------------------------------------------------------------------------
(* Steps that change devices, or records. *)

LEMMA ConnectSafe ==
    ASSUME TInv, Inv, Calm, Calm', NEW s \in Scripts, ActionOf(s), ConnectOverlay(s)
    PROVE  Inv'
<1>0. /\ \A t \in Scripts \ {s} : UNCHANGED Locals(t)
      /\ TypeOK /\ Typed(s) /\ Alone /\ Standings
      /\ \A t \in Scripts : Owned(t) /\ Free(t) /\ Dooms(t) /\ Notes(t)
    BY OthersKept DEF TInv, Inv
<1> USE DEF TypeOK
<1>1. /\ at[s] = "connect" /\ at'[s] = "allocate"
      /\ UNCHANGED <<files, record>>
      /\ of'[s] = of[s]
    BY <1>0 DEF ConnectOverlay, Goto, records
<1>2. PICK k \in todo[s] :
          /\ device' = [device EXCEPT ![picked[s]] = k]
          /\ nbds'[s] = [nbds[s] EXCEPT ![k] = picked[s]]
          /\ todo'[s] = todo[s] \ {k}
    BY <1>0, <1>1, NoCommandFails DEF ConnectOverlay, Free
<1>3. /\ picked[s] \in Devices /\ device[picked[s]] = "free" /\ k \in Disks
      /\ nbds[s] \in NbdMaps
    BY <1>0, <1>1 DEF Typed, Free
<1>4. /\ device'[picked[s]] = k
      /\ \A l \in Disks, d \in Devices :
             /\ Connected(l, d) => d # picked[s] /\ Connected(l, d)'
             /\ d # picked[s] /\ Connected(l, d)' => Connected(l, d)
    BY <1>0, <1>2, <1>3, BackupsAssumption DEF Connected
<1>5. \A r \in Recoveries : Standing(r)' <=> Standing(r)
    <2>1. /\ at[s] \notin AtRecord \union {"nextRecord"}
          /\ at'[s] \notin AtRecord \union {"nextRecord"}
        BY <1>1 DEF AtRecord
    <2>2. \A t \in Scripts, r \in Recoveries : Pending(t, r)' <=> Pending(t, r)
        BY <1>0, <2>1 DEF Pending, Locals
    <2> QED BY <2>2 DEF Standing
<1>6. \A t \in Scripts, r \in Recoveries, l \in Disks, d \in Devices :
          Doomed(t, r, l, d)' => Doomed(t, r, l, d)
    <2>1. at'[s] \notin AtRecord \union {"nextRecord"} /\ at'[s] # "release"
        BY <1>1 DEF AtRecord
    <2> QED BY <1>0, <2>1 DEF Doomed, Locals
<1>7. Alone'
    <2>1. at[s] \in Mounting /\ at'[s] \notin Unmounting
        BY <1>1 DEF Mounting, Unmounting
    <2> QED BY <1>0, <2>1, GoesOnAlone
<1>8. \A r \in Recoveries, l \in Disks :
          record[r][l] \in Devices \union {NoDevice}
    BY <1>0 DEF NbdMaps
<1>9. Standings'
    BY <1>0, <1>1, <1>4, <1>5, <1>8 DEF Standings
<1>10. ASSUME NEW t \in Scripts PROVE Owned(t)'
    <2>1. CASE t = s
        <3>1. at'[s] \in Mounting
            BY <1>1 DEF Mounting
        <3>2. ASSUME NEW l \in Disks, nbds'[s][l] # NoDevice
              PROVE  /\ device'[nbds'[s][l]] = l
                     /\ \A r \in Recoveries, m \in Disks :
                            record[r][m] = nbds'[s][l] => ~Standing(r)
            <4>1. CASE l = k
                <5>1. nbds'[s][l] = picked[s]
                    BY <1>2, <1>3, <4>1 DEF NbdMaps
                <5>2. ASSUME NEW r \in Recoveries, NEW m \in Disks,
                             record[r][m] = picked[s], Standing(r)
                      PROVE  FALSE
                    BY <1>0, <1>3, <1>4, <5>2, BackupsAssumption DEF Standings
                <5> QED BY <1>4, <4>1, <5>1, <5>2
            <4>2. CASE l # k
                <5>1. nbds'[s][l] = nbds[s][l] /\ nbds[s][l] \in Devices
                    BY <1>2, <1>3, <3>2, <4>2 DEF NbdMaps
                <5>2. PICK d \in Devices : d = nbds[s][l]
                    BY <5>1
                <5>3. Connected(l, d)
                    BY <1>0, <3>2, <5>1, <5>2 DEF Owned
                <5>4. device'[d] = l
                    BY <1>4, <5>3 DEF Connected
                <5> QED BY <1>0, <3>2, <5>1, <5>2, <5>4 DEF Owned
            <4> QED BY <4>1, <4>2
        <3> QED BY <1>1, <1>5, <2>1, <3>1, <3>2 DEF Owned, Connected
    <2>2. CASE t # s
        <3>1. \A l \in Disks : nbds[t][l] \in Devices \union {NoDevice}
            BY <1>0 DEF NbdMaps
        <3> QED BY <1>0, <1>1, <1>4, <1>5, <2>2, <3>1 DEF Owned, Locals, Connected
    <2> QED BY <2>1, <2>2
<1>11. ASSUME NEW t \in Scripts PROVE Free(t)'
    <2>1. CASE t = s
        BY <1>0, <1>1, <1>2, <1>3, <2>1 DEF Free, InUse
    <2>2. CASE t # s
        <3>1. at'[t] \notin Mounting
            BY <1>0, <1>1, <2>2 DEF Alone, Locals, Mounting
        <3> QED BY <3>1 DEF Free, Mounting
    <2> QED BY <2>1, <2>2
<1>12. ASSUME NEW t \in Scripts PROVE Dooms(t)'
    <2>1. /\ at'[t] \in AtRecord => of'[t] \notin queue'[t]
          /\ at'[t] = "release" => \A l \in todo'[t] : held'[t][of'[t]][l] \in Devices
        <3>1. CASE t = s
            BY <1>1, <3>1 DEF AtRecord
        <3>2. CASE t # s
            BY <1>0, <3>2 DEF Dooms, Locals
        <3> QED BY <3>1, <3>2
    <2>2. ASSUME NEW r \in Recoveries, NEW l \in Disks, NEW d \in Devices, Doomed(t, r, l, d)
          PROVE  \A u \in Scripts, m \in Disks : nbds'[u][m] # d
        <3>1. d # picked[s] /\ \A u \in Scripts, m \in Disks : nbds[u][m] # d
            BY <1>0, <1>4, <2>2 DEF Dooms
        <3>2. \A m \in Disks : nbds'[s][m] # d
            BY <1>2, <1>3, <3>1 DEF NbdMaps
        <3>3. \A u \in Scripts \ {s} : nbds'[u] = nbds[u]
            BY <1>0 DEF Locals
        <3> QED BY <3>1, <3>2, <3>3
    <2> QED BY <1>0, <1>1, <1>4, <1>5, <1>6, <2>1, <2>2 DEF Dooms
<1>13. ASSUME NEW t \in Scripts PROVE Notes(t)'
    <2>1. \A r \in Recoveries, l \in Disks, d \in Devices :
              Noted(t, r, l, d)' => Noted(t, r, l, d)
        BY <1>0, <1>1 DEF Noted, Locals
    <2>2. ASSUME NEW r \in Recoveries, NEW l \in Disks, NEW d \in Devices, Noted(t, r, l, d)
          PROVE  \A u \in Scripts, m \in Disks : nbds'[u][m] # d
        <3>1. d # picked[s] /\ \A u \in Scripts, m \in Disks : nbds[u][m] # d
            BY <1>0, <1>4, <2>2 DEF Notes
        <3>2. \A m \in Disks : nbds'[s][m] # d
            BY <1>2, <1>3, <3>1 DEF NbdMaps
        <3>3. \A u \in Scripts \ {s} : nbds'[u] = nbds[u]
            BY <1>0 DEF Locals
        <3> QED BY <3>1, <3>2, <3>3
    <2> QED BY <1>0, <1>1, <1>4, <2>1, <2>2 DEF Notes
<1> QED BY <1>7, <1>9, <1>10, <1>11, <1>12, <1>13 DEF Inv

LEMMA WriteSafe ==
    ASSUME TInv, Inv, Calm, NEW s \in Scripts, ActionOf(s), WriteRecord(s)
    PROVE  Inv'
<1>0. /\ \A t \in Scripts \ {s} : UNCHANGED Locals(t)
      /\ TypeOK /\ Typed(s) /\ Alone /\ Standings
      /\ \A t \in Scripts : Owned(t) /\ Free(t) /\ Dooms(t) /\ Notes(t)
    BY OthersKept DEF TInv, Inv
<1> USE DEF TypeOK
<1>1. /\ at[s] = "writeRecord" /\ at'[s] = "idle"
      /\ UNCHANGED <<files, device>>
      /\ nbds'[s] = NoDevices
      /\ record' = [record EXCEPT ![of[s]] = nbds[s]]
    BY <1>0 DEF WriteRecord, Ends, Goto, machine
<1>2. of[s] \in Recoveries /\ of[s] \in files
    BY <1>0, <1>1 DEF Typed, Free, Mounting
<1>3. /\ record'[of[s]] = nbds[s]
      /\ \A r \in Recoveries \ {of[s]} : record'[r] = record[r]
    BY <1>0, <1>1, <1>2
<1>4. \A r \in Recoveries : Standing(r)' <=> Standing(r)
    <2>1. /\ at[s] \notin AtRecord \union {"nextRecord"}
          /\ at'[s] \notin AtRecord \union {"nextRecord"}
        BY <1>1 DEF AtRecord
    <2>2. \A t \in Scripts, r \in Recoveries : Pending(t, r)' <=> Pending(t, r)
        BY <1>0, <2>1 DEF Pending, Locals
    <2> QED BY <2>2 DEF Standing
<1>5. \A t \in Scripts, r \in Recoveries, l \in Disks, d \in Devices :
          Doomed(t, r, l, d)' => Doomed(t, r, l, d)
    <2>1. at'[s] \notin AtRecord \union {"nextRecord"} /\ at'[s] # "release"
        BY <1>1 DEF AtRecord
    <2> QED BY <1>0, <2>1 DEF Doomed, Locals
<1>6. at[s] \in Mounting /\ at'[s] \notin Mounting \union Unmounting
    BY <1>1 DEF Mounting, Unmounting
<1>7. Alone'
    BY <1>0, <1>6, GoesOnAlone
<1>8. \A t \in Scripts : nbds'[t] = NoDevices /\ at'[t] \notin Mounting
    BY <1>0, <1>1, <1>6 DEF Alone, Owned, Locals
<1>9. Standings'
    <2>1. ASSUME NEW r \in Recoveries, NEW k \in Disks, record'[r][k] # NoDevice
          PROVE  r \in files
        BY <1>0, <1>2, <1>3, <2>1 DEF Standings
    <2>2. ASSUME NEW r \in Recoveries, NEW k \in Disks, record'[r][k] # NoDevice, Standing(r)
          PROVE  Connected(k, record'[r][k])
        BY <1>0, <1>2, <1>3, <2>2 DEF Standings, Owned
    <2>3. ASSUME NEW r \in Recoveries, NEW k \in Disks, record'[r][k] # NoDevice, Standing(r),
                 NEW q \in Recoveries \ {r}, Standing(q)
          PROVE  record'[q][k] # record'[r][k]
        <3>1. CASE r = of[s]
            BY <1>0, <1>3, <2>3, <3>1 DEF Owned
        <3>2. CASE q = of[s]
            BY <1>0, <1>3, <2>3, <3>2 DEF Owned
        <3>3. CASE of[s] \notin {r, q}
            BY <1>0, <1>3, <2>3, <3>3 DEF Standings
        <3> QED BY <3>1, <3>2, <3>3
    <2> QED BY <1>1, <1>4, <2>1, <2>2, <2>3 DEF Standings, Connected
<1>10. ASSUME NEW t \in Scripts PROVE Owned(t)' /\ Free(t)'
    BY <1>8 DEF Owned, Free, Mounting, NoDevices
<1>11. ASSUME NEW t \in Scripts PROVE Dooms(t)'
    <2>1. /\ at'[t] \in AtRecord => of'[t] \notin queue'[t]
          /\ at'[t] = "release" => \A l \in todo'[t] : held'[t][of'[t]][l] \in Devices
        <3>1. CASE t = s
            BY <1>1, <3>1 DEF AtRecord
        <3>2. CASE t # s
            BY <1>0, <3>2 DEF Dooms, Locals
        <3> QED BY <3>1, <3>2
    <2>2. \A u \in Scripts, m \in Disks, d \in Devices : nbds'[u][m] # d
        BY <1>8, BackupsAssumption DEF NoDevices
    <2>3. ASSUME NEW r \in Recoveries, NEW l \in Disks, NEW d \in Devices, Doomed(t, r, l, d)
          PROVE  \A q \in Recoveries, m \in Disks : record'[q][m] = d => ~Standing(q)
        <3>1. /\ \A u \in Scripts, m \in Disks : nbds[u][m] # d
              /\ \A q \in Recoveries, m \in Disks : record[q][m] = d => ~Standing(q)
            BY <1>0, <2>3 DEF Dooms
        <3> QED BY <1>3, <3>1
    <2> QED BY <1>0, <1>1, <1>4, <1>5, <2>1, <2>2, <2>3 DEF Dooms, Connected
<1>12. ASSUME NEW t \in Scripts PROVE Notes(t)'
    <2>1. \A r \in Recoveries, l \in Disks, d \in Devices :
              Noted(t, r, l, d)' => Noted(t, r, l, d)
        BY <1>0, <1>1 DEF Noted, Locals
    <2>2. \A u \in Scripts, m \in Disks, d \in Devices : nbds'[u][m] # d
        BY <1>8, BackupsAssumption DEF NoDevices
    <2>3. ASSUME NEW r \in Recoveries, NEW l \in Disks, NEW d \in Devices, Noted(t, r, l, d)
          PROVE  \A q \in Recoveries, m \in Disks : record'[q][m] = d => q = r
        <3>1. /\ \A u \in Scripts, m \in Disks : nbds[u][m] # d
              /\ \A q \in Recoveries, m \in Disks : record[q][m] = d => q = r
            BY <1>0, <2>3 DEF Notes
        <3> QED BY <1>3, <3>1
    <2> QED BY <1>0, <1>1, <2>1, <2>2, <2>3 DEF Notes, Connected
<1> QED BY <1>7, <1>9, <1>10, <1>11, <1>12 DEF Inv

\* The only run that unmounts is the only one with records to write back.
LEMMA OnlyOnePending ==
    ASSUME Alone, NEW s \in Scripts, at[s] \in Unmounting, NEW t \in Scripts \ {s}
    PROVE  /\ at[t] \notin Unmounting
           /\ at[t] \notin AtRecord \union {"readRecords", "nextRecord", "release"}
           /\ \A r \in Recoveries : ~Pending(t, r)
BY DEF Alone, Pending, AtRecord, Unmounting

\* As long as it reads, no run is about to write back a record: all stand.
LEMMA ReadSafe ==
    ASSUME TInv, Inv, Calm, NEW s \in Scripts, ActionOf(s), ReadRecord(s), ~Ends(s)
    PROVE  Inv'
<1>0. /\ \A t \in Scripts \ {s} : UNCHANGED Locals(t)
      /\ TypeOK /\ Alone /\ Standings
      /\ \A t \in Scripts : Owned(t) /\ Free(t) /\ Dooms(t) /\ Notes(t)
    BY OthersKept DEF TInv, Inv
<1> USE DEF TypeOK
<1>1. PICK p \in listed[s] :
          /\ held' = [held EXCEPT ![s] = [@ EXCEPT ![p] = record[p]]]
          /\ queue' = [queue EXCEPT ![s] = @ \union {p}]
    BY DEF ReadRecord
<1>2. /\ at[s] = "readRecords" /\ at'[s] = "readRecords" /\ p \in Recoveries
      /\ UNCHANGED <<files, record, device, nbds>>
      /\ queue'[s] = queue[s] \union {p} /\ held'[s][p] = record[p]
      /\ \A r \in Recoveries \ {p} : held'[s][r] = held[s][r]
    BY <1>0, <1>1 DEF ReadRecord, machine, records
<1>3. /\ at[s] \in Unmounting /\ at'[s] \in Unmounting
      /\ at[s] \notin Mounting /\ at'[s] \notin Mounting
    BY <1>2 DEF Mounting, Unmounting
<1>4. Alone'
    BY <1>0, <1>3, GoesOnAlone
<1>5. \A r \in Recoveries : Standing(r) /\ Standing(r)'
    BY <1>0, <1>2, <1>3, OnlyOnePending DEF Standing, Pending, AtRecord, Locals
<1>6. Standings'
    BY <1>0, <1>2, <1>5 DEF Standings, Connected
<1>7. ASSUME NEW t \in Scripts PROVE Owned(t)' /\ Free(t)'
    <2>1. CASE t = s
        BY <1>0, <1>2, <1>3, <2>1 DEF Owned, Free, NoDevices
    <2>2. CASE t # s
        BY <1>0, <1>2, <1>5, <2>2 DEF Owned, Free, Connected, InUse, Locals
    <2> QED BY <2>1, <2>2
<1>8. ASSUME NEW t \in Scripts PROVE Dooms(t)'
    <2>1. at'[t] \notin AtRecord \union {"nextRecord", "release"}
        BY <1>0, <1>2, <1>3, OnlyOnePending DEF Locals, AtRecord
    <2> QED BY <2>1 DEF Dooms, Doomed
<1>9. ASSUME NEW t \in Scripts PROVE Notes(t)'
    <2>1. CASE t = s
        <3>1. ASSUME NEW r \in Recoveries, NEW k \in Disks, NEW d \in Devices,
                     Noted(s, r, k, d)'
              PROVE  IF r = p THEN record[p][k] = d ELSE Noted(s, r, k, d)
            BY <1>2, <3>1 DEF Noted
        <3>2. ASSUME NEW k \in Disks, NEW d \in Devices, record[p][k] = d
              PROVE  /\ Connected(k, d)
                     /\ \A u \in Scripts, l \in Disks : nbds[u][l] # d
                     /\ \A q \in Recoveries, l \in Disks : record[q][l] = d => q = p
                     /\ \A q \in Recoveries : Noted(s, q, k, d) => q = p
            <4>1. d # NoDevice
                BY BackupsAssumption
            <4>2. Connected(k, d)
                BY <1>2, <1>0, <1>5, <3>2, <4>1 DEF Standings
            <4>3. \A u \in Scripts, l \in Disks : nbds[u][l] # d
                BY <1>0, <1>2, <1>5, <3>2, <4>1 DEF Owned
            <4>4. ASSUME NEW q \in Recoveries, NEW l \in Disks, record[q][l] = d, q # p
                  PROVE  FALSE
                <5>1. l = k
                    BY <1>0, <1>5, <4>1, <4>2, <4>4 DEF Standings, Connected
                <5> QED BY <1>0, <1>2, <1>5, <3>2, <4>1, <4>4, <5>1 DEF Standings
            <4>5. \A q \in Recoveries : Noted(s, q, k, d) => q = p
                BY <1>0, <1>2, <3>2 DEF Notes
            <4> QED BY <4>2, <4>3, <4>4, <4>5
        <3>3. ASSUME NEW r \in Recoveries, NEW k \in Disks, NEW d \in Devices,
                     Noted(s, r, k, d)'
              PROVE  /\ Connected(k, d)
                     /\ \A u \in Scripts, l \in Disks : nbds[u][l] # d
                     /\ \A q \in Recoveries, l \in Disks : record[q][l] = d => q = r
                     /\ \A q \in Recoveries : Noted(s, q, k, d)' => q = r
            <4>1. CASE r = p
                BY <1>2, <3>1, <3>2, <3>3, <4>1
            <4>2. CASE r # p
                <5>1. Noted(s, r, k, d)
                    BY <3>1, <3>3, <4>2
                <5>2. ~Noted(s, p, k, d)'
                    BY <1>0, <1>2, <3>1, <4>2, <5>1 DEF Notes
                <5> QED BY <1>0, <3>1, <5>1, <5>2 DEF Notes
            <4> QED BY <4>1, <4>2
        <3> QED BY <1>2, <2>1, <3>3 DEF Notes, Connected
    <2>2. CASE t # s
        <3>1. at'[t] # "readRecords"
            BY <1>0, <1>3, <2>2, OnlyOnePending DEF Locals
        <3> QED BY <3>1 DEF Notes, Noted
    <2> QED BY <2>1, <2>2
<1> QED BY <1>4, <1>6, <1>7, <1>8, <1>9 DEF Inv

\* From then on it is about to write back all that it has read.
LEMMA AllReadSafe ==
    ASSUME TInv, Inv, Calm, NEW s \in Scripts, ActionOf(s), RecordsRead(s)
    PROVE  Inv'
<1>0. /\ \A t \in Scripts \ {s} : UNCHANGED Locals(t)
      /\ TypeOK /\ Alone /\ Standings
      /\ \A t \in Scripts : Owned(t) /\ Free(t) /\ Dooms(t) /\ Notes(t)
    BY OthersKept DEF TInv, Inv
<1> USE DEF TypeOK
<1>1. /\ at[s] = "readRecords" /\ at'[s] = "nextRecord"
      /\ UNCHANGED <<files, record, device, nbds, held, queue>>
    BY <1>0 DEF RecordsRead, Goto, machine, records, locals
<1>2. /\ at[s] \in Unmounting /\ at'[s] \in Unmounting
      /\ at[s] \notin Mounting /\ at'[s] \notin Mounting
    BY <1>1 DEF Mounting, Unmounting
<1>3. Alone'
    BY <1>0, <1>2, GoesOnAlone
<1>4. \A r \in Recoveries : Standing(r)
    BY <1>0, <1>1, <1>2, OnlyOnePending DEF Standing, Pending, AtRecord
<1>5. \A r \in queue[s] : ~Standing(r)'
    BY <1>1 DEF Standing, Pending
<1>6. Standings'
    BY <1>0, <1>1, <1>4 DEF Standings, Connected
<1>7. ASSUME NEW t \in Scripts PROVE Owned(t)' /\ Free(t)'
    <2>1. CASE t = s
        BY <1>0, <1>1, <1>2, <2>1 DEF Owned, Free, NoDevices
    <2>2. CASE t # s
        BY <1>0, <1>1, <1>4, <2>2 DEF Owned, Free, Connected, InUse, Locals
    <2> QED BY <2>1, <2>2
<1>8. ASSUME NEW t \in Scripts PROVE Dooms(t)' /\ Notes(t)'
    <2>1. CASE t = s
        <3>1. at'[s] \notin AtRecord /\ at'[s] # "release" /\ at'[s] # "readRecords"
            BY <1>1 DEF AtRecord
        <3>2. \A r \in Recoveries, k \in Disks, d \in Devices :
                  Doomed(s, r, k, d)' => Noted(s, r, k, d) /\ r \in queue[s]
            BY <1>1, <3>1 DEF Doomed, Noted
        <3>3. Dooms(s)'
            BY <1>0, <1>1, <1>5, <3>1, <3>2 DEF Dooms, Notes, Connected
        <3> QED BY <2>1, <3>1, <3>3 DEF Notes, Noted
    <2>2. CASE t # s
        <3>1. at'[t] \notin AtRecord \union {"readRecords", "nextRecord", "release"}
            BY <1>0, <1>2, <2>2, OnlyOnePending DEF Locals
        <3> QED BY <3>1 DEF Dooms, Doomed, Notes, Noted
    <2> QED BY <2>1, <2>2
<1> QED BY <1>3, <1>6, <1>7, <1>8 DEF Inv

\* The device that is released is that of the disk.
LEMMA ReleasesOwn ==
    ASSUME TInv, Inv, Calm, Calm', NEW s \in Scripts, ReleaseDevice(s)
    PROVE  /\ of[s] \in Recoveries
           /\ \E k \in todo[s] :
                 /\ held[s][of[s]][k] \in Devices
                 /\ Doomed(s, of[s], k, held[s][of[s]][k])
                 /\ Connected(k, held[s][of[s]][k])
                 /\ device' = [device EXCEPT ![held[s][of[s]][k]] = "free"]
                 /\ todo'[s] = todo[s] \ {k}
<1>0. TypeOK /\ Typed(s) /\ Dooms(s)
    BY DEF TInv, Inv
<1>1. at[s] = "release" /\ of[s] \in Recoveries
    BY <1>0 DEF ReleaseDevice, Typed
<1>2. PICK k \in todo[s] :
          /\ device' = [device EXCEPT ![held[s][of[s]][k]] = IF @ = "stuck" THEN @ ELSE "free"]
          /\ todo' = [todo EXCEPT ![s] = @ \ {k}]
    BY NoCommandFails DEF ReleaseDevice
<1>3. k \in Disks /\ held[s][of[s]][k] \in Devices
    BY <1>0, <1>1 DEF Dooms, TypeOK
<1>4. Doomed(s, of[s], k, held[s][of[s]][k])
    BY <1>1, <1>3, BackupsAssumption DEF Doomed
<1>5. Connected(k, held[s][of[s]][k])
    BY <1>0, <1>1, <1>3, <1>4 DEF Dooms
<1>6. device[held[s][of[s]][k]] # "stuck"
    BY <1>3, <1>5, BackupsAssumption DEF Connected
<1>7. todo'[s] = todo[s] \ {k}
    BY <1>0, <1>2 DEF TypeOK
<1> QED BY <1>1, <1>2, <1>3, <1>4, <1>5, <1>6, <1>7

LEMMA ReleaseSafe ==
    ASSUME TInv, Inv, Calm, Calm', NEW s \in Scripts, ActionOf(s), ReleaseDevice(s)
    PROVE  Inv'
<1>0. /\ \A t \in Scripts \ {s} : UNCHANGED Locals(t)
      /\ TypeOK /\ Alone /\ Standings
      /\ \A t \in Scripts : Owned(t) /\ Free(t) /\ Dooms(t) /\ Notes(t)
    BY OthersKept DEF TInv, Inv
<1> USE DEF TypeOK
<1>1. /\ at[s] = "release"
      /\ UNCHANGED <<files, record, nbds, at, of, held, queue, picked>>
      /\ \A t \in Scripts \ {s} : todo'[t] = todo[t]
    BY <1>0 DEF ReleaseDevice, records, Locals
<1>2. PICK k \in todo[s], d \in Devices :
          /\ Doomed(s, of[s], k, d) /\ of[s] \in Recoveries
          /\ Connected(k, d) /\ k \in Disks
          /\ device' = [device EXCEPT ![d] = "free"]
          /\ todo'[s] = todo[s] \ {k}
          /\ held[s][of[s]][k] = d
    BY <1>0, ReleasesOwn
<1>3. /\ \A l \in Disks, e \in Devices : e # d /\ Connected(l, e) => Connected(l, e)'
      /\ \A l \in Disks : InUse(l)' => InUse(l)
      /\ \A e \in Devices : device[e] = "free" => device'[e] = "free"
    BY <1>0, <1>2, BackupsAssumption DEF Connected, InUse
<1>4. at[s] \in Unmounting
    BY <1>1 DEF Unmounting
<1>5. Alone'
    BY <1>0, <1>1 DEF Alone
<1>6. \A r \in Recoveries : Standing(r)' <=> Standing(r)
    BY <1>1 DEF Standing, Pending
<1>7. \A t \in Scripts, r \in Recoveries, l \in Disks, e \in Devices :
          Doomed(t, r, l, e)' => Doomed(t, r, l, e)
    BY <1>1, <1>2 DEF Doomed
<1>8. \A u \in Scripts, l \in Disks : nbds[u][l] # d
    BY <1>0, <1>2 DEF Dooms
<1>9. \A q \in Recoveries, l \in Disks : record[q][l] = d => ~Standing(q)
    BY <1>0, <1>2 DEF Dooms
<1>10. Standings'
    <2>1. \A r \in Recoveries, l \in Disks : record[r][l] \in Devices \union {NoDevice}
        BY <1>0 DEF NbdMaps
    <2> QED BY <1>0, <1>1, <1>3, <1>6, <1>9, <2>1 DEF Standings
<1>11. ASSUME NEW t \in Scripts PROVE Owned(t)'
    <2>1. \A l \in Disks : nbds[t][l] \in Devices \union {NoDevice}
        BY <1>0 DEF NbdMaps
    <2> QED BY <1>0, <1>1, <1>3, <1>6, <1>8, <2>1 DEF Owned, Connected
<1>12. ASSUME NEW t \in Scripts PROVE Free(t)'
    <2>1. CASE t = s
        BY <1>1, <2>1 DEF Free
    <2>2. CASE t # s
        <3>1. /\ at[t] = "overlays" => ImagesOf(of[t]) \subseteq Disks
              /\ at[t] = "connect" => picked[t] \in Devices
              /\ todo[t] \subseteq Disks
            BY <1>0, ImagesAreDisks DEF TInv, Typed, Mounting
        <3>2. \A l \in Disks : ~InUse(l) => ~InUse(l)'
            BY <1>3
        <3>3. at'[t] = "connect" => device'[picked'[t]] = "free"
            BY <1>0, <1>1, <1>3, <3>1 DEF Free
        <3>4. at'[t] = "overlays" => \A l \in ImagesOf(of'[t]) \ todo'[t] : ~InUse(l)'
            BY <1>0, <1>1, <2>2, <3>1, <3>2 DEF Free
        <3>5. at'[t] \in {"allocate", "connect"} => \A l \in todo'[t] : ~InUse(l)'
            BY <1>0, <1>1, <2>2, <3>1, <3>2 DEF Free
        <3> QED BY <1>0, <1>1, <3>3, <3>4, <3>5 DEF Free
    <2> QED BY <2>1, <2>2
<1>13. ASSUME NEW t \in Scripts PROVE Dooms(t)'
    <2>1. CASE t = s
        <3>1. /\ at'[s] \in AtRecord => of'[s] \notin queue'[s]
              /\ at'[s] = "release" => \A l \in todo'[s] : held'[s][of'[s]][l] \in Devices
            BY <1>0, <1>1, <1>2 DEF Dooms
        <3>2. ASSUME NEW r \in Recoveries, NEW l \in Disks, NEW e \in Devices,
                     Doomed(s, r, l, e)'
              PROVE  e # d
            <4>1. SUFFICES ASSUME e = d PROVE FALSE
                OBVIOUS
            <4>2. Doomed(s, r, l, d)
                BY <1>7, <3>2, <4>1
            <4>3. l = k
                BY <1>0, <1>2, <4>2 DEF Dooms, Connected
            <4>4. r = of[s]
                BY <1>0, <1>2, <4>2, <4>3 DEF Dooms
            <4>5. of[s] \notin queue[s] /\ k \notin todo'[s]
                BY <1>0, <1>1, <1>2 DEF Dooms, AtRecord
            <4> QED BY <1>1, <3>2, <4>3, <4>4, <4>5 DEF Doomed
        <3>3. ASSUME NEW r \in Recoveries, NEW l \in Disks, NEW e \in Devices,
                     Doomed(s, r, l, e)'
              PROVE  Connected(l, e)'
            BY <1>0, <1>3, <1>7, <3>2, <3>3 DEF Dooms
        <3> QED BY <1>0, <1>1, <1>6, <1>7, <2>1, <3>1, <3>3 DEF Dooms
    <2>2. CASE t # s
        <3>1. at'[t] \notin AtRecord \union {"nextRecord", "release"}
            BY <1>0, <1>4, <2>2, OnlyOnePending DEF Locals
        <3> QED BY <3>1 DEF Dooms, Doomed
    <2> QED BY <2>1, <2>2
<1>14. ASSUME NEW t \in Scripts PROVE Notes(t)'
    <2>1. at'[t] # "readRecords"
        BY <1>0, <1>1, <1>4, OnlyOnePending DEF Locals
    <2> QED BY <2>1 DEF Notes, Noted
<1> QED BY <1>5, <1>10, <1>11, <1>12, <1>13, <1>14 DEF Inv

LEMMA WriteBackSafe ==
    ASSUME TInv, Inv, Calm, NEW s \in Scripts, ActionOf(s), WriteBack(s)
    PROVE  Inv'
<1>0. /\ \A t \in Scripts \ {s} : UNCHANGED Locals(t)
      /\ TypeOK /\ Typed(s) /\ Alone /\ Standings
      /\ \A t \in Scripts : Owned(t) /\ Free(t) /\ Dooms(t) /\ Notes(t)
    BY OthersKept DEF TInv, Inv
<1> USE DEF TypeOK
<1>1. /\ at[s] = "writeBack" /\ at'[s] = "nextRecord"
      /\ UNCHANGED <<files, device, nbds, queue>>
      /\ of[s] \in Recoveries
      /\ record'[of[s]] = NoDevices
      /\ \A r \in Recoveries \ {of[s]} : record'[r] = record[r]
      /\ held'[s][of[s]] = NoDevices
      /\ \A r \in Recoveries \ {of[s]} : held'[s][r] = held[s][r]
    BY <1>0 DEF WriteBack, Goto, machine, Typed
<1>2. /\ at[s] \in Unmounting /\ at'[s] \in Unmounting
      /\ at[s] \notin Mounting /\ at'[s] \notin Mounting
    BY <1>1 DEF Mounting, Unmounting
<1>3. Alone'
    BY <1>0, <1>2, GoesOnAlone
<1>4. \A r \in Recoveries \ {of[s]} : Standing(r)' <=> Standing(r)
    <2>1. \A r \in Recoveries \ {of[s]} : Pending(s, r)' <=> Pending(s, r)
        BY <1>1 DEF Pending, AtRecord
    <2>2. \A t \in Scripts \ {s}, r \in Recoveries : Pending(t, r)' <=> Pending(t, r)
        BY <1>0 DEF Pending, Locals
    <2> QED BY <2>1, <2>2 DEF Standing
<1>5. Standings'
    <2>1. \A k \in Disks : record'[of[s]][k] = NoDevice
        BY <1>1 DEF NoDevices
    <2>2. ASSUME NEW r \in Recoveries, NEW k \in Disks, record'[r][k] # NoDevice
          PROVE  /\ r # of[s] /\ record'[r] = record[r]
                 /\ r \in files /\ Standing(r)' => Standing(r)
        BY <1>0, <1>1, <1>4, <2>1, <2>2 DEF Standings
    <2>3. ASSUME NEW r \in Recoveries, NEW k \in Disks, record'[r][k] # NoDevice, Standing(r)',
                 NEW q \in Recoveries \ {r}, Standing(q)'
          PROVE  record'[q][k] # record'[r][k]
        <3>1. CASE q = of[s]
            BY <2>1, <2>3, <3>1
        <3>2. CASE q # of[s]
            BY <1>0, <1>1, <1>4, <2>2, <2>3, <3>2 DEF Standings
        <3> QED BY <3>1, <3>2
    <2>4. ASSUME NEW r \in Recoveries, NEW k \in Disks, record'[r][k] # NoDevice
          PROVE  r \in files /\ (Standing(r)' => Connected(k, record[r][k]))
        BY <1>0, <2>2, <2>4 DEF Standings
    <2> QED BY <1>1, <2>2, <2>3, <2>4 DEF Standings, Connected
<1>6. ASSUME NEW t \in Scripts PROVE Owned(t)' /\ Free(t)'
    <2>1. Owned(t)'
        <3>1. at'[t] \notin Mounting => nbds'[t] = NoDevices
            BY <1>0, <1>1, <1>2 DEF Owned, Locals
        <3>2. \A l \in Disks : record'[of[s]][l] = NoDevice
            BY <1>1 DEF NoDevices
        <3> QED BY <1>0, <1>1, <1>4, <3>1, <3>2 DEF Owned, Connected
    <2>2. CASE t = s
        BY <1>1, <2>1, <2>2 DEF Free
    <2>3. CASE t # s
        BY <1>0, <1>1, <2>1, <2>3 DEF Free, InUse, Locals
    <2> QED BY <2>2, <2>3
<1>7. ASSUME NEW t \in Scripts PROVE Dooms(t)'
    <2>1. CASE t = s
        <3>1. at'[s] \notin AtRecord /\ at'[s] # "release"
            BY <1>1 DEF AtRecord
        <3>2. \A r \in Recoveries, k \in Disks, d \in Devices :
                  Doomed(s, r, k, d)' => Doomed(s, r, k, d)
            BY <1>1 DEF Doomed, AtRecord, NoDevices
        <3>3. ASSUME NEW r \in Recoveries, NEW k \in Disks, NEW d \in Devices,
                     Doomed(s, r, k, d),
                     NEW q \in Recoveries, NEW l \in Disks, record'[q][l] = d
              PROVE  ~Standing(q)'
            <4>1. q # of[s]
                BY <1>1, <3>3, BackupsAssumption DEF NoDevices
            <4> QED BY <1>0, <1>1, <1>4, <3>3, <4>1 DEF Dooms
        <3> QED BY <1>0, <1>1, <2>1, <3>1, <3>2, <3>3 DEF Dooms, Connected
    <2>2. CASE t # s
        <3>1. at'[t] \notin AtRecord \union {"nextRecord", "release"}
            BY <1>0, <1>2, <2>2, OnlyOnePending DEF Locals
        <3> QED BY <3>1 DEF Dooms, Doomed
    <2> QED BY <2>1, <2>2
<1>8. ASSUME NEW t \in Scripts PROVE Notes(t)'
    <2>1. at'[t] # "readRecords"
        BY <1>0, <1>1, <1>2, OnlyOnePending DEF Locals
    <2> QED BY <2>1 DEF Notes, Noted
<1> QED BY <1>3, <1>5, <1>6, <1>7, <1>8 DEF Inv

-----------------------------------------------------------------------------
(* The invariant, and what it is for. *)

LEMMA InvNext ==
    ASSUME TInv, Inv, [Next]_vars
    PROVE  Inv'
<1>1. CASE UNCHANGED vars
    BY <1>1
       DEF Inv, Calm, Alone, Standings, Standing, Pending, Owned, Free, Dooms, Doomed, Notes,
           Noted, Connected, InUse, vars, machine, records, locals, made
<1>2. CASE Reboot
    BY <1>2, NoCommandFails DEF Reboot, Inv
<1>3. ASSUME NEW s \in Scripts, ActionOf(s), Calm'
      PROVE  Inv'
    <2>1. Calm
        BY <1>3, HistoryGrows DEF Calm
    <2>2. CASE ConnectOverlay(s)
        BY <1>3, <2>1, <2>2, ConnectSafe
    <2>3. CASE WriteRecord(s)
        BY <1>3, <2>1, <2>3, WriteSafe
    <2>4. CASE ReadRecord(s) /\ ~Ends(s)
        BY <1>3, <2>1, <2>4, ReadSafe
    <2>10. CASE RecordsRead(s)
        BY <1>3, <2>1, <2>10, AllReadSafe
    <2>5. CASE ReleaseDevice(s)
        BY <1>3, <2>1, <2>5, ReleaseSafe
    <2>6. CASE WriteBack(s)
        BY <1>3, <2>1, <2>6, WriteBackSafe
    <2>7. CASE \/ StartUnmount(s) \/ UmountFilesystems(s) \/ FilesystemsUmounted(s)
               \/ ReadRecord(s) /\ Ends(s)
               \/ NextRecord(s) \/ DevicesReleased(s)
               \/ OpenRecord(s) /\ at[s] = "openAgain"
        BY <1>3, <2>1, <2>7, UnmountStepSafe
    <2>8. CASE \/ StartMount(s) \/ CreateOverlay(s) \/ OverlaysCreated(s) \/ AllocateNbd(s)
               \/ OverlaysConnected(s) \/ MountFilesystem(s) \/ FilesystemsMounted(s)
               \/ MountVolumes(s)
               \/ OpenRecord(s) /\ at[s] = "openRecord"
               \/ Killed(s)
        BY <1>3, <2>1, <2>8, MountStepSafe
    <2>9. OpenRecord(s) => at[s] \in {"openRecord", "openAgain"}
        BY DEF OpenRecord
    <2> QED
        BY <1>3, <2>2, <2>3, <2>4, <2>5, <2>6, <2>7, <2>8, <2>9, <2>10
           DEF ActionOf, MountAction, UnmountAction
<1>4. ~Calm' => Inv'
    BY DEF Inv
<1>5. Next => (\E s \in Scripts : ActionOf(s)) \/ Reboot
    BY DEF Next, ActionOf
<1> QED BY <1>1, <1>2, <1>3, <1>4, <1>5

LEMMA Invariant == Spec => [](TInv /\ Inv)
<1>1. Init => TInv /\ Inv
    BY TInvInit, InvInit
<1>2. TInv /\ Inv /\ [Next]_vars => (TInv /\ Inv)'
    BY TInvNext, InvNext
<1> QED BY <1>1, <1>2, PTL DEF Spec

\* As long as runs of a kind are made one after another, and at worst those that
\* mount are killed, a record names the devices its disks are connected to whenever
\* no run takes things down: overlays, devices and records of all recoveries agree
\* (vm_qcow2_mount.py:438-475, 672-679).
THEOREM RecordsAreTrue == Spec => []RecordsTrue
<1>1. ASSUME TInv, Inv PROVE RecordsTrue
    <2>1. SUFFICES ASSUME Calm, Quiet,
                          NEW r \in Recoveries, NEW k \in Disks, record[r][k] # NoDevice
                   PROVE  Connected(k, record[r][k])
        BY DEF RecordsTrue, Calm
    <2>2. Standing(r)
        BY <2>1 DEF Quiet, Standing, Pending, AtRecord, Unmounting
    <2> QED BY <1>1, <2>1, <2>2 DEF Inv, Standings
<1> QED BY <1>1, Invariant, PTL

\* Under the same conditions "unmount" disconnects a device only from the disk for
\* which the record it has read names it, however long ago it read it
\* (vm_qcow2_mount.py:479-490).
THEOREM OnlyOwnReleased == Spec => NoForeignRelease
<1> DEFINE Releases ==
        \A s \in Scripts, d \in Devices :
            /\ at[s] = "release" /\ ReleaseDevice(s)
            /\ overlaps \subseteq {"both"} /\ faults' \subseteq {"killMount"}
            /\ device[d] # device'[d]
            => held[s][of[s]][device[d]] = d
<1>1. ASSUME TInv, Inv, Next PROVE Releases
    <2>1. SUFFICES ASSUME NEW s \in Scripts, NEW d \in Devices, ReleaseDevice(s),
                          overlaps \subseteq {"both"}, faults' \subseteq {"killMount"},
                          device[d] # device'[d]
                   PROVE  held[s][of[s]][device[d]] = d
        OBVIOUS
    <2>2. Calm /\ Calm'
        <3>1. faults \subseteq faults'
            BY <2>1 DEF ReleaseDevice, Fault
        <3>2. overlaps' = overlaps
            BY <2>1 DEF ReleaseDevice, made
        <3> QED BY <2>1, <3>1, <3>2 DEF Calm
    <2>3. PICK k \in todo[s] :
              /\ held[s][of[s]][k] \in Devices
              /\ Connected(k, held[s][of[s]][k])
              /\ device' = [device EXCEPT ![held[s][of[s]][k]] = "free"]
        BY <1>1, <2>1, <2>2, ReleasesOwn
    <2>4. d = held[s][of[s]][k]
        BY <1>1, <2>1, <2>3 DEF TInv, TypeOK
    <2> QED BY <2>3, <2>4 DEF Connected
<1>2. TInv /\ Inv /\ [Next]_vars => [Releases]_vars
    BY <1>1
<1> QED BY <1>2, Invariant, PTL DEF Spec, NoForeignRelease

-----------------------------------------------------------------------------
(* Runs one after another.  First what holds at all times: what a run has in hand, *)
(* and what devices, records and mounts are like.                                  *)

Reading == AtRecord \union {"nextRecord"}

Connecting == {"mount", "volumes", "openRecord", "writeRecord"}

\* A run has in hand what belongs to the step it is at, and nothing more; it works
\* on the images of its recovery, and once it is past the loop that connects them,
\* each has a device.
Holds(s) ==
    /\ at[s] \notin Mounting => nbds[s] = NoDevices
    /\ at[s] \notin Mounting \union AtRecord => of[s] = Nobody
    /\ at[s] \notin Reading \union {"readRecords"} =>
          queue[s] = {} /\ \A r \in Recoveries : held[s][r] = NoDevices
    /\ at[s] \in Mounting =>
          /\ todo[s] \subseteq ImagesOf(of[s])
          /\ \A k \in Disks : nbds[s][k] # NoDevice => k \in ImagesOf(of[s])
    /\ at[s] \in Connecting => \A k \in ImagesOf(of[s]) : nbds[s][k] \in Devices
    /\ at[s] = "mount" => todo[s] \subseteq dirs
    /\ at[s] = "writeRecord" => of[s] \in files

\* A disk has one device, a record is of images and in a file, and a mount is below
\* a directory.
Kept ==
    /\ \A d, e \in Devices : device[d] \in Disks /\ device[e] = device[d] => d = e
    /\ \A r \in Recoveries, k \in Disks :
          record[r][k] # NoDevice => r \in files /\ k \in ImagesOf(r)
    /\ \A m \in mnt : m[1] \in dirs

OneRun == \A s, t \in Scripts : s # t => at[s] = "idle" \/ at[t] = "idle"

\* What a run that unmounts has read is what the records are, and it has yet to read,
\* and then to go through, all that name a device.
Read(s) ==
    /\ at[s] = "readRecords" =>
          \A r \in Recoveries :
              /\ held[s][r] \in {NoDevices, record[r]}
              /\ record[r] # NoDevices =>
                    r \in listed[s] \/ (r \in queue[s] /\ held[s][r] = record[r])
    /\ at[s] \in Reading =>
          /\ held[s] = record
          /\ \A r \in Recoveries :
                record[r] # NoDevices => r \in queue[s] \union {of[s]}

\* Past the loop that unmounts, nothing is mounted.
Unmounted(s) ==
    /\ at[s] = "umount" => \A m \in mnt : m[1] \in todo[s]
    /\ at[s] \in Unmounting \ {"umount"} => mnt = {}

\* The devices a run that mounts has are connected to its disks.
Attached(s) ==
    /\ \A k \in Disks : nbds[s][k] # NoDevice => Connected(k, nbds[s][k])
    /\ Free(s)

\* A device of the record in hand is connected to its disk only until its turn.
Left(s) ==
    at[s] \in AtRecord =>
        \A k \in Disks, d \in Devices :
            held[s][of[s]][k] = d /\ Connected(k, d) => at[s] = "release" /\ k \in todo[s]

ByTurns ==
    overlaps = {} =>
        /\ OneRun
        /\ \A s \in Scripts : Read(s)
        /\ "command" \notin faults => \A s \in Scripts : Unmounted(s)
        /\ faults \subseteq Kills =>
              OwnFiles /\ \A s \in Scripts : Attached(s)
        /\ faults = {} => \A s \in Scripts : Left(s)

Hand == Kept /\ \A s \in Scripts : Holds(s)

LEMMA HandInit == Init => Hand
BY BackupsAssumption
   DEF Init, Hand, Kept, Holds, Mounting, Unmounting, Reading, AtRecord, Connecting, NoDevices

LEMMA Different ==
    /\ Mounting \intersect (Reading \union AtRecord) = {}
    /\ Connecting \subseteq Mounting
    /\ AtRecord \subseteq Reading
    /\ "idle" \notin Mounting \union Reading
    /\ "umount" \notin Mounting \union Reading
    /\ "readRecords" \notin Mounting \union Reading
    /\ "nextRecord" \notin Mounting \union AtRecord
BY DEF Mounting, Reading, AtRecord, Connecting

LEMMA EndsHolding ==
    ASSUME TypeOK, NEW s \in Scripts, Ends(s)
    PROVE  Holds(s)'
<1>1. /\ at'[s] = "idle" /\ of'[s] = Nobody /\ nbds'[s] = NoDevices /\ queue'[s] = {}
      /\ held'[s] = [r \in Recoveries |-> NoDevices]
    BY DEF Ends, Goto, TypeOK
<1> QED BY <1>1 DEF Holds, Mounting, Reading, AtRecord, Connecting

LEMMA HandStep ==
    ASSUME TInv, Hand, NEW s \in Scripts, ActionOf(s)
    PROVE  Holds(s)'
<1>0. TypeOK /\ Typed(s) /\ Holds(s)
    BY DEF TInv, Hand
<1> USE DEF Goto, machine, records, locals
<1>1. CASE StartMount(s)
    <2>1. at'[s] = "overlays" /\ at[s] = "idle" /\ UNCHANGED <<nbds, listed, held, queue>>
        BY <1>0, <1>1 DEF StartMount, Starts, TypeOK
    <2>2. todo'[s] = ImagesOf(of'[s])
        BY <1>0, <1>1 DEF StartMount, TypeOK
    <2> QED BY <1>0, <2>1, <2>2
            DEF Holds, Mounting, Reading, AtRecord, Connecting, NoDevices
<1>2. CASE CreateOverlay(s)
    <2>1. CASE Ends(s)
        BY <1>0, <2>1, EndsHolding
    <2>2. CASE ~Ends(s)
        <3>1. /\ at[s] = "overlays" /\ UNCHANGED <<at, of, nbds, listed, held, queue>>
              /\ todo'[s] \subseteq todo[s]
            BY <1>0, <1>2, <2>2 DEF CreateOverlay, TypeOK
        <3> QED BY <1>0, <3>1 DEF Holds, Mounting, Reading, AtRecord, Connecting
    <2> QED BY <2>1, <2>2
<1>3. CASE OverlaysCreated(s)
    <2>1. /\ at[s] = "overlays" /\ at'[s] = "allocate" /\ UNCHANGED <<of, nbds, listed, held, queue>>
          /\ todo'[s] = ImagesOf(of[s])
        BY <1>0, <1>3 DEF OverlaysCreated, TypeOK
    <2> QED BY <1>0, <2>1 DEF Holds, Mounting, Reading, AtRecord, Connecting
<1>4. CASE AllocateNbd(s)
    <2>1. CASE Ends(s)
        BY <1>0, <2>1, EndsHolding
    <2>2. CASE ~Ends(s)
        <3>1. /\ at[s] = "allocate" /\ at'[s] = "connect"
              /\ UNCHANGED <<of, todo, nbds, listed, held, queue>>
            BY <1>0, <1>4, <2>2 DEF AllocateNbd, TypeOK
        <3> QED BY <1>0, <3>1 DEF Holds, Mounting, Reading, AtRecord, Connecting
    <2> QED BY <2>1, <2>2
<1>5. CASE ConnectOverlay(s)
    <2>1. PICK k \in todo[s] :
              /\ nbds' = [nbds EXCEPT ![s] = [@ EXCEPT ![k] = picked[s]]]
              /\ todo' = [todo EXCEPT ![s] = @ \ {k}]
        BY <1>5 DEF ConnectOverlay
    <2>2. /\ at[s] = "connect" /\ at'[s] = "allocate" /\ UNCHANGED <<of, held, queue>>
          /\ todo'[s] \subseteq todo[s]
          /\ nbds'[s] = [nbds[s] EXCEPT ![k] = picked[s]]
        BY <1>0, <1>5, <2>1 DEF ConnectOverlay, TypeOK
    <2>3. k \in ImagesOf(of[s]) /\ todo[s] \subseteq ImagesOf(of[s])
        BY <1>0, <2>2 DEF Holds, Mounting
    <2>4. \A l \in Disks : nbds'[s][l] # NoDevice => l \in ImagesOf(of[s])
        BY <1>0, <2>2, <2>3 DEF Holds, Mounting, TypeOK, NbdMaps
    <2> QED BY <1>0, <2>2, <2>3, <2>4 DEF Holds, Mounting, Reading, AtRecord, Connecting
<1>6. CASE OverlaysConnected(s)
    <2>1. /\ at[s] = "allocate" /\ at'[s] = "mount" /\ UNCHANGED <<of, nbds, listed, held, queue>>
          /\ todo[s] = {} /\ todo'[s] = ImagesOf(of[s]) /\ todo'[s] \subseteq dirs'
        BY <1>0, <1>6 DEF OverlaysConnected, TypeOK
    <2>2. \A k \in ImagesOf(of[s]) : nbds[s][k] \in Devices
        BY <1>0, <2>1 DEF Typed
    <2> QED BY <1>0, <2>1, <2>2 DEF Holds, Mounting, Reading, AtRecord, Connecting
<1>7. CASE MountFilesystem(s)
    <2>1. /\ at[s] = "mount" /\ UNCHANGED <<at, of, nbds, held, queue, dirs>>
          /\ todo'[s] \subseteq todo[s]
        BY <1>0, <1>7 DEF MountFilesystem, TypeOK
    <2> QED BY <1>0, <2>1 DEF Holds, Mounting, Reading, AtRecord, Connecting
<1>8. CASE FilesystemsMounted(s)
    <2>1. at[s] = "mount" /\ at'[s] = "volumes" /\ UNCHANGED <<of, todo, nbds, listed, held, queue>>
        BY <1>0, <1>8 DEF FilesystemsMounted, TypeOK
    <2> QED BY <1>0, <2>1 DEF Holds, Mounting, Reading, AtRecord, Connecting
<1>9. CASE MountVolumes(s)
    <2>1. CASE Ends(s)
        BY <1>0, <2>1, EndsHolding
    <2>2. CASE ~Ends(s)
        <3>1. /\ at[s] = "volumes" /\ at'[s] = "openRecord"
              /\ UNCHANGED <<of, todo, nbds, listed, held, queue>>
            BY <1>0, <1>9, <2>2 DEF MountVolumes, TypeOK
        <3> QED BY <1>0, <3>1 DEF Holds, Mounting, Reading, AtRecord, Connecting
    <2> QED BY <2>1, <2>2
<1>10. CASE OpenRecord(s)
    <2>0. of[s] \in files' /\ UNCHANGED <<of, todo, nbds, listed, held, queue>>
        BY <1>10 DEF OpenRecord
    <2>1. CASE at[s] = "openRecord"
        <3>1. at'[s] = "writeRecord"
            BY <1>0, <1>10, <2>1 DEF OpenRecord, TypeOK
        <3> QED BY <1>0, <2>0, <2>1, <3>1 DEF Holds, Mounting, Reading, AtRecord, Connecting
    <2>2. CASE at[s] = "openAgain"
        <3>1. at'[s] = "writeBack"
            BY <1>0, <1>10, <2>2 DEF OpenRecord, TypeOK
        <3> QED BY <1>0, <2>0, <2>2, <3>1 DEF Holds, Mounting, Reading, AtRecord, Connecting
    <2> QED BY <1>10, <2>1, <2>2 DEF OpenRecord
<1>11. CASE WriteRecord(s) \/ Killed(s)
    BY <1>0, <1>11, EndsHolding DEF WriteRecord, Killed
<1>12. CASE StartUnmount(s) \/ UmountFilesystems(s) \/ FilesystemsUmounted(s)
    <2>1. /\ at[s] \in {"idle", "umount"} /\ at'[s] \in {"umount", "readRecords"}
          /\ UNCHANGED <<of, nbds, held, queue>>
        BY <1>0, <1>12
           DEF StartUnmount, Starts, UmountFilesystems, FilesystemsUmounted, TypeOK
    <2> QED BY <1>0, <2>1 DEF Holds, Mounting, Reading, AtRecord, Connecting
<1>13. CASE ReadRecord(s) \/ RecordsRead(s)
    <2>1. CASE Ends(s)
        BY <1>0, <2>1, EndsHolding
    <2>2. CASE ~Ends(s)
        <3>1. /\ at[s] = "readRecords" /\ at'[s] \in {"readRecords", "nextRecord"}
              /\ UNCHANGED <<of, nbds>>
            BY <1>0, <1>13, <2>2 DEF ReadRecord, RecordsRead, TypeOK
        <3> QED BY <1>0, <3>1 DEF Holds, Mounting, Reading, AtRecord, Connecting
    <2> QED BY <2>1, <2>2
<1>14. CASE NextRecord(s)
    <2>1. CASE Ends(s)
        BY <1>0, <2>1, EndsHolding
    <2>2. CASE ~Ends(s)
        <3>1. at[s] = "nextRecord" /\ at'[s] = "release" /\ UNCHANGED nbds
            BY <1>0, <1>14, <2>2 DEF NextRecord, TypeOK
        <3> QED BY <1>0, <3>1 DEF Holds, Mounting, Reading, AtRecord, Connecting
    <2> QED BY <2>1, <2>2
<1>15. CASE ReleaseDevice(s) \/ DevicesReleased(s)
    <2>1. at[s] = "release" /\ at'[s] \in {"release", "openAgain"} /\ UNCHANGED nbds
        BY <1>0, <1>15 DEF ReleaseDevice, DevicesReleased, TypeOK
    <2> QED BY <1>0, <2>1 DEF Holds, Mounting, Reading, AtRecord, Connecting
<1>16. CASE WriteBack(s)
    <2>1. at[s] = "writeBack" /\ at'[s] = "nextRecord" /\ of'[s] = Nobody /\ UNCHANGED nbds
        BY <1>0, <1>16 DEF WriteBack, TypeOK
    <2> QED BY <1>0, <2>1 DEF Holds, Mounting, Reading, AtRecord, Connecting
<1> QED
    BY <1>1, <1>2, <1>3, <1>4, <1>5, <1>6, <1>7, <1>8, <1>9, <1>10, <1>11, <1>12,
       <1>13, <1>14, <1>15, <1>16 DEF ActionOf, MountAction, UnmountAction

\* What a step does to devices, mounts and records is one of a few things.
LEMMA KeptStep ==
    ASSUME TInv, Hand, NEW s \in Scripts, ActionOf(s)
    PROVE  Kept' /\ dirs \subseteq dirs' /\ files \subseteq files'
<1>0. TypeOK /\ Typed(s) /\ Holds(s) /\ Kept
    BY DEF TInv, Hand
<1> USE DEF Goto, machine, records, locals
<1>1. ASSUME UNCHANGED <<device, record, mnt>>, dirs \subseteq dirs', files \subseteq files'
      PROVE  Kept'
    BY <1>0, <1>1 DEF Kept
<1>2. CASE \/ StartMount(s) \/ CreateOverlay(s) \/ OverlaysCreated(s) \/ AllocateNbd(s)
           \/ OverlaysConnected(s) \/ FilesystemsMounted(s) \/ MountVolumes(s)
    <2>1. UNCHANGED <<device, record, mnt>> /\ dirs \subseteq dirs' /\ files \subseteq files'
        BY <1>2 DEF StartMount, CreateOverlay, OverlaysCreated, AllocateNbd,
                    OverlaysConnected, FilesystemsMounted, MountVolumes
    <2> QED BY <1>1, <2>1
<1>3. CASE \/ OpenRecord(s) \/ StartUnmount(s) \/ FilesystemsUmounted(s) \/ ReadRecord(s)
           \/ RecordsRead(s) \/ NextRecord(s) \/ DevicesReleased(s) \/ Killed(s)
    <2>1. UNCHANGED <<device, record, mnt>> /\ dirs \subseteq dirs' /\ files \subseteq files'
        BY <1>3 DEF OpenRecord, StartUnmount, FilesystemsUmounted, ReadRecord, RecordsRead,
                    NextRecord, DevicesReleased, Killed
    <2> QED BY <1>1, <2>1
<1>4. CASE ConnectOverlay(s)
    <2>1. UNCHANGED <<record, mnt, dirs, files>>
        BY <1>4 DEF ConnectOverlay
    <2>2. CASE device' = device
        BY <1>1, <2>1, <2>2
    <2>3. CASE device' # device
        <3>1. PICK k \in Disks : /\ ~InUse(k)
                                 /\ device' = [device EXCEPT ![picked[s]] = k]
            BY <1>0, <1>4, <2>3 DEF ConnectOverlay, TypeOK
        <3>2. \A d, e \in Devices : device'[d] \in Disks /\ device'[e] = device'[d] => d = e
            BY <1>0, <3>1 DEF Kept, InUse, TypeOK
        <3> QED BY <1>0, <2>1, <3>2 DEF Kept
    <2> QED BY <2>2, <2>3
<1>5. CASE MountFilesystem(s)
    <2>1. UNCHANGED <<device, record, dirs, files>>
        BY <1>5 DEF MountFilesystem
    <2>2. PICK k \in todo[s] : MountDevice(k, nbds[s][k])
        BY <1>5 DEF MountFilesystem
    <2>3. k \in dirs
        BY <1>0, <1>5 DEF Holds, MountFilesystem
    <2>4. \A m \in mnt' : m[1] \in dirs
        BY <1>0, <2>2, <2>3 DEF Kept, MountDevice
    <2> QED BY <1>0, <2>1, <2>4 DEF Kept
<1>6. CASE UmountFilesystems(s)
    <2>1. UNCHANGED <<device, record, dirs, files>> /\ mnt' \subseteq mnt
        BY <1>6 DEF UmountFilesystems
    <2> QED BY <1>0, <2>1 DEF Kept
<1>7. CASE WriteRecord(s)
    <2>1. UNCHANGED <<device, mnt, dirs, files>> /\ at[s] = "writeRecord"
          /\ record' = [record EXCEPT ![of[s]] = nbds[s]]
        BY <1>7 DEF WriteRecord
    <2>2. \A k \in Disks : nbds[s][k] # NoDevice => of[s] \in files /\ k \in ImagesOf(of[s])
        BY <1>0, <2>1 DEF Holds, Mounting
    <2>3. \A r \in Recoveries : record'[r] = IF r = of[s] THEN nbds[s] ELSE record[r]
        BY <1>0, <2>1 DEF TypeOK
    <2> QED BY <1>0, <2>1, <2>2, <2>3 DEF Kept
<1>8. CASE ReleaseDevice(s)
    <2>1. UNCHANGED <<record, mnt, dirs, files>>
        BY <1>8 DEF ReleaseDevice
    <2>2. \A d \in Devices : device'[d] \in {device[d], "free", "stuck"}
        BY <1>0, <1>8 DEF ReleaseDevice, TypeOK
    <2>3. \A d \in Devices : device'[d] \in Disks => device'[d] = device[d]
        BY <2>2, BackupsAssumption
    <2>4. \A d, e \in Devices : device'[d] \in Disks /\ device'[e] = device'[d] => d = e
        BY <1>0, <2>3 DEF Kept
    <2> QED BY <1>0, <2>1, <2>4 DEF Kept
<1>9. CASE WriteBack(s)
    <2>1. UNCHANGED <<device, mnt, dirs, files>>
          /\ record' = [record EXCEPT ![of[s]] = NoDevices]
        BY <1>9 DEF WriteBack
    <2>2. \A r \in Recoveries : record'[r] = IF r = of[s] THEN NoDevices ELSE record[r]
        BY <1>0, <2>1 DEF TypeOK
    <2> QED BY <1>0, <2>1, <2>2 DEF Kept, NoDevices
<1> QED
    BY <1>2, <1>3, <1>4, <1>5, <1>6, <1>7, <1>8, <1>9
       DEF ActionOf, MountAction, UnmountAction, StartMount, CreateOverlay, OverlaysCreated,
           AllocateNbd, ConnectOverlay, OverlaysConnected, MountFilesystem,
           FilesystemsMounted, MountVolumes, OpenRecord, WriteRecord, StartUnmount,
           UmountFilesystems, FilesystemsUmounted, ReadRecord, RecordsRead, NextRecord,
           ReleaseDevice,
           DevicesReleased, WriteBack, Killed

LEMMA HandNext == TInv /\ Hand /\ [Next]_vars => Hand'
<1> SUFFICES ASSUME TInv, Hand, [Next]_vars PROVE Hand'
    OBVIOUS
<1>1. ASSUME NEW s \in Scripts, ActionOf(s) PROVE Hand'
    <2>1. Holds(s)' /\ Kept' /\ dirs \subseteq dirs' /\ files \subseteq files'
        BY <1>1, HandStep, KeptStep
    <2>2. ASSUME NEW t \in Scripts, t # s PROVE Holds(t)'
        <3>1. UNCHANGED Locals(t)
            BY <1>1, <2>2, OthersKept DEF TInv
        <3> QED BY <2>1, <3>1 DEF Hand, Holds, Locals
    <2> QED BY <2>1, <2>2 DEF Hand
<1>2. CASE Reboot
    <2>1. Kept'
        BY <1>2, BackupsAssumption DEF Reboot, Hand, Kept, records
    <2>2. \A s \in Scripts : Holds(s)'
        BY <1>2 DEF Reboot, Holds, Mounting, Reading, AtRecord, Connecting
    <2> QED BY <2>1, <2>2 DEF Hand
<1>3. CASE UNCHANGED vars
    BY <1>3 DEF vars, machine, records, locals, made, Hand, Kept, Holds
<1> QED BY <1>1, <1>2, <1>3 DEF Next, ActionOf

LEMMA ByTurnsInit == Init => ByTurns
BY DEF Init, ByTurns, OneRun, Read, Unmounted, Attached, Free, Left, OwnFiles, Connected,
       Reading, AtRecord, Unmounting, NoDevices

\* What is asked of the run that makes a step.
Turn(s) ==
    /\ Read(s)
    /\ "command" \notin faults => Unmounted(s)
    /\ faults \subseteq Kills => Attached(s) /\ \A m \in mnt : Connected(m[1], m[2])
    /\ faults = {} => Left(s)

LEMMA IdleTurn ==
    ASSUME NEW s \in Scripts, at'[s] = "idle", Holds(s)'
    PROVE  Read(s)' /\ Unmounted(s)' /\ Attached(s)' /\ Left(s)'
BY DEF Holds, Read, Unmounted, Attached, Free, Left, Reading, AtRecord, Mounting, Unmounting,
       NoDevices

LEMMA EndsTurn ==
    ASSUME TypeOK, NEW s \in Scripts, Turn(s), Ends(s), UNCHANGED <<device, mnt>>,
           faults \subseteq faults'
    PROVE  Turn(s)'
<1>1. at'[s] = "idle" /\ Holds(s)'
    BY EndsHolding DEF Ends, Goto, TypeOK
<1>2. Read(s)' /\ Unmounted(s)' /\ Attached(s)' /\ Left(s)'
    BY <1>1, IdleTurn
<1>3. faults' \subseteq Kills => \A m \in mnt' : Connected(m[1], m[2])'
    BY DEF Turn, Connected
<1> QED BY <1>2, <1>3 DEF Turn

LEMMA NoFault ==
    ASSUME NEW kind \in FaultKinds, Fault(kind)
    PROVE  /\ kind = "command" => ~("command" \notin faults')
           /\ kind \in {"command", "reboot"} => ~(faults' \subseteq Kills)
           /\ faults' # {}
BY DEF Fault, Kills

\* Steps of a run that leave devices and mounts alone.
LEMMA QuietMountTurn ==
    ASSUME TInv, Hand, Hand', NEW s \in Scripts, Turn(s), ActionOf(s), faults \subseteq faults',
           \/ StartMount(s) \/ CreateOverlay(s) \/ OverlaysCreated(s) \/ AllocateNbd(s)
           \/ OverlaysConnected(s) \/ FilesystemsMounted(s) \/ MountVolumes(s)
           \/ OpenRecord(s) /\ at[s] = "openRecord"
    PROVE  Turn(s)'
<1>0. TypeOK /\ Typed(s) /\ Holds(s) /\ Holds(s)'
    BY DEF TInv, Hand
<1> USE DEF Goto, machine, records, locals
<1>1. UNCHANGED <<device, mnt, record>>
    BY DEF StartMount, CreateOverlay, OverlaysCreated, AllocateNbd, OverlaysConnected,
           FilesystemsMounted, MountVolumes, OpenRecord
<1>2. CASE Ends(s)
    BY <1>0, <1>1, <1>2, EndsTurn
<1>3. CASE ~Ends(s)
    <2>1. nbds' = nbds /\ at'[s] \in Mounting
        BY <1>0, <1>3
           DEF StartMount, CreateOverlay, OverlaysCreated, AllocateNbd, OverlaysConnected,
               FilesystemsMounted, MountVolumes, OpenRecord, Mounting, TypeOK
    <2>2. Read(s)' /\ Unmounted(s)' /\ Left(s)'
        BY <2>1 DEF Read, Unmounted, Left, Mounting, Unmounting, Reading, AtRecord
    <2>3. faults' \subseteq Kills =>
              /\ \A k \in Disks : nbds'[s][k] # NoDevice => Connected(k, nbds[s][k])'
              /\ \A m \in mnt' : Connected(m[1], m[2])'
        BY <1>1, <2>1 DEF Turn, Attached, Connected
    <2>4. ASSUME faults' \subseteq Kills PROVE Free(s)'
        <3>0. Free(s)
            BY <2>4 DEF Turn, Attached
        <3>1. CASE StartMount(s)
            <4>1. at'[s] = "overlays" /\ todo'[s] = ImagesOf(of'[s])
                BY <1>0, <3>1 DEF StartMount, TypeOK
            <4> QED BY <4>1 DEF Free
        <3>2. CASE CreateOverlay(s)
            <4>1. PICK k \in todo[s] : /\ ~InUse(k)
                                       /\ todo' = [todo EXCEPT ![s] = @ \ {k}]
                                       /\ UNCHANGED <<at, of, picked, nbds, listed, held, queue>>
                BY <1>3, <3>2 DEF CreateOverlay
            <4> QED BY <1>0, <1>1, <3>0, <3>2, <4>1 DEF CreateOverlay, Free, InUse, TypeOK
        <3>3. CASE OverlaysCreated(s)
            BY <1>0, <1>1, <3>0, <3>3 DEF OverlaysCreated, Free, InUse, TypeOK
        <3>4. CASE AllocateNbd(s)
            BY <1>0, <1>1, <1>3, <3>0, <3>4 DEF AllocateNbd, Unused, Free, InUse, TypeOK
        <3>5. CASE \/ OverlaysConnected(s) \/ FilesystemsMounted(s) \/ MountVolumes(s)
                   \/ OpenRecord(s) /\ at[s] = "openRecord"
            <4>1. at'[s] \in {"mount", "volumes", "openRecord", "writeRecord"}
                BY <1>0, <1>3, <3>5
                   DEF OverlaysConnected, FilesystemsMounted, MountVolumes, OpenRecord, TypeOK
            <4>2. at'[s] = "writeRecord" => of'[s] \in files'
                BY <1>0 DEF Holds
            <4> QED BY <4>1, <4>2 DEF Free
        <3> QED BY <3>1, <3>2, <3>3, <3>4, <3>5
    <2> QED BY <2>2, <2>3, <2>4 DEF Turn, Attached
<1> QED BY <1>2, <1>3

LEMMA QuietUnmountTurn ==
    ASSUME TInv, Hand, Hand', NEW s \in Scripts, Turn(s), ActionOf(s), faults \subseteq faults',
           \/ StartUnmount(s) \/ FilesystemsUmounted(s) \/ ReadRecord(s) \/ RecordsRead(s)
           \/ NextRecord(s) \/ DevicesReleased(s)
           \/ OpenRecord(s) /\ at[s] = "openAgain"
    PROVE  Turn(s)'
<1>0. TypeOK /\ Typed(s) /\ Holds(s) /\ Holds(s)' /\ Kept
    BY DEF TInv, Hand
<1> USE DEF Goto, machine, records, locals
<1>1. UNCHANGED <<device, mnt, record, dirs>>
    BY DEF StartUnmount, FilesystemsUmounted, ReadRecord, RecordsRead, NextRecord,
           DevicesReleased, OpenRecord
<1>2. CASE Ends(s)
    BY <1>0, <1>1, <1>2, EndsTurn
<1>3. CASE ~Ends(s)
    <2>1. at'[s] \in Unmounting
        BY <1>0, <1>3
           DEF StartUnmount, FilesystemsUmounted, ReadRecord, RecordsRead, NextRecord,
               DevicesReleased, OpenRecord, Unmounting, TypeOK
    <2>2. Attached(s)'
        <3>1. at'[s] \notin Mounting /\ nbds'[s] = NoDevices
            BY <1>0, <2>1 DEF Holds, Mounting, Unmounting
        <3> QED BY <3>1 DEF Attached, Free, Mounting, NoDevices
    <2>3. faults' \subseteq Kills => \A m \in mnt' : Connected(m[1], m[2])'
        BY <1>1 DEF Turn, Connected
    <2>4. Read(s)'
        <3>0. \A r \in Recoveries : record[r] # NoDevices => r \in files
            <4>1. \A r \in Recoveries :
                      record[r] # NoDevices => \E k \in Disks : record[r][k] # NoDevice
                BY <1>0 DEF TypeOK, NbdMaps, NoDevices
            <4> QED BY <1>0, <4>1 DEF Kept
        <3>1. CASE StartUnmount(s)
            <4>1. at'[s] = "umount"
                BY <1>0, <3>1 DEF StartUnmount, TypeOK
            <4> QED BY <4>1 DEF Read, Reading, AtRecord
        <3>2. CASE FilesystemsUmounted(s)
            <4>1. /\ at[s] = "umount" /\ at'[s] = "readRecords" /\ listed'[s] = files
                  /\ UNCHANGED <<held, queue>>
                BY <1>0, <3>2 DEF FilesystemsUmounted, TypeOK
            <4>2. \A r \in Recoveries : held[s][r] = NoDevices
                BY <1>0, <4>1, Different DEF Holds
            <4>3. at'[s] \notin Reading
                BY <4>1 DEF Reading, AtRecord
            <4>4. held'[s] = held[s] /\ record' = record
                BY <1>1, <4>1
            <4> QED BY <3>0, <4>1, <4>2, <4>3, <4>4 DEF Read
        <3>5. CASE ReadRecord(s)
            <4>1. PICK p \in listed[s] :
                      /\ held' = [held EXCEPT ![s] = [@ EXCEPT ![p] = record[p]]]
                      /\ queue' = [queue EXCEPT ![s] = @ \union {p}]
                      /\ listed' = [listed EXCEPT ![s] = @ \ {p}]
                      /\ at' = at
                BY <1>3, <3>5 DEF ReadRecord
            <4>2. /\ at[s] = "readRecords" /\ at'[s] = "readRecords"
                  /\ queue'[s] = queue[s] \union {p} /\ listed'[s] = listed[s] \ {p}
                  /\ \A r \in Recoveries :
                        held'[s][r] = IF r = p THEN record[p] ELSE held[s][r]
                BY <1>0, <3>5, <4>1 DEF ReadRecord, TypeOK
            <4> QED BY <1>1, <4>2, Different DEF Turn, Read
        <3>6. CASE RecordsRead(s)
            <4>1. /\ at[s] = "readRecords" /\ at'[s] = "nextRecord" /\ listed[s] = {}
                  /\ UNCHANGED <<held, queue>>
                BY <1>0, <3>6 DEF RecordsRead, TypeOK
            <4>2. \A r \in Recoveries :
                      /\ held[s][r] = record[r]
                      /\ record[r] # NoDevices => r \in queue[s]
                BY <4>1 DEF Turn, Read
            <4>3. held[s] = record
                BY <1>0, <4>2 DEF TypeOK
            <4> QED BY <1>1, <4>1, <4>2, <4>3 DEF Read
        <3>3. CASE NextRecord(s)
            <4>1. PICK r \in queue[s] : /\ of' = [of EXCEPT ![s] = r]
                                        /\ queue' = [queue EXCEPT ![s] = @ \ {r}]
                                        /\ UNCHANGED held
                BY <1>3, <3>3 DEF NextRecord
            <4>2. at[s] = "nextRecord" /\ of[s] = Nobody
                BY <1>0, <3>3, Different DEF NextRecord, Holds
            <4>3. queue'[s] \union {of'[s]} = queue[s]
                BY <1>0, <4>1 DEF TypeOK
            <4>4. at'[s] = "release"
                BY <1>0, <1>3, <3>3 DEF NextRecord, TypeOK
            <4> QED BY <1>1, <4>1, <4>2, <4>3, <4>4, BackupsAssumption DEF Turn, Read, Reading
        <3>4. CASE \/ DevicesReleased(s)
                   \/ OpenRecord(s) /\ at[s] = "openAgain"
            <4>1. /\ at[s] \in AtRecord /\ at'[s] # "readRecords"
                  /\ UNCHANGED <<held, queue, of>>
                BY <1>0, <3>4 DEF DevicesReleased, OpenRecord, AtRecord, TypeOK
            <4> QED BY <1>1, <4>1 DEF Turn, Read, Reading
        <3> QED BY <3>1, <3>2, <3>3, <3>4, <3>5, <3>6
    <2>5. ASSUME "command" \notin faults' PROVE Unmounted(s)'
        <3>0. Unmounted(s)
            BY <2>5 DEF Turn
        <3>1. CASE StartUnmount(s)
            <4>1. at'[s] = "umount" /\ todo'[s] = dirs
                BY <1>0, <3>1 DEF StartUnmount, TypeOK
            <4> QED BY <1>0, <1>1, <4>1 DEF Kept, Unmounted
        <3>2. CASE FilesystemsUmounted(s)
            BY <1>0, <1>1, <3>0, <3>2 DEF FilesystemsUmounted, Unmounted, Unmounting, TypeOK
        <3>3. CASE \/ ReadRecord(s) \/ RecordsRead(s) \/ NextRecord(s) \/ DevicesReleased(s)
                   \/ OpenRecord(s) /\ at[s] = "openAgain"
            <4>1. at[s] \in Unmounting \ {"umount"}
                BY <3>3 DEF ReadRecord, RecordsRead, NextRecord, DevicesReleased, OpenRecord,
                            Unmounting
            <4>2. at'[s] # "umount"
                BY <1>0, <1>3, <3>3
                   DEF ReadRecord, RecordsRead, NextRecord, DevicesReleased, OpenRecord, TypeOK
            <4> QED BY <1>1, <3>0, <4>1, <4>2 DEF Unmounted
        <3> QED BY <3>1, <3>2, <3>3
    <2>6. ASSUME faults' = {} PROVE Left(s)'
        <3>0. Left(s)
            BY <2>6 DEF Turn
        <3>1. CASE \/ StartUnmount(s) \/ FilesystemsUmounted(s)
                   \/ ReadRecord(s) \/ RecordsRead(s)
            <4>1. at'[s] \in {"umount", "readRecords", "nextRecord"}
                BY <1>0, <1>3, <3>1
                   DEF StartUnmount, FilesystemsUmounted, ReadRecord, RecordsRead, TypeOK
            <4> QED BY <4>1 DEF Left, AtRecord
        <3>2. CASE NextRecord(s)
            <4>1. PICK r \in queue[s] :
                      /\ of' = [of EXCEPT ![s] = r]
                      /\ todo' = [todo EXCEPT ![s] = {k \in Disks : held[s][r][k] # NoDevice}]
                      /\ Goto(s, "release")
                      /\ UNCHANGED held
                BY <1>3, <3>2 DEF NextRecord
            <4>2. /\ of'[s] = r /\ at'[s] = "release"
                  /\ todo'[s] = {k \in Disks : held[s][r][k] # NoDevice}
                BY <1>0, <4>1 DEF TypeOK
            <4> QED BY <4>1, <4>2, BackupsAssumption DEF Left
        <3>3. CASE DevicesReleased(s)
            <4>1. /\ at[s] = "release" /\ todo[s] = {} /\ at'[s] = "openAgain"
                  /\ UNCHANGED <<held, of>>
                BY <1>0, <3>3 DEF DevicesReleased, TypeOK
            <4> QED BY <1>1, <3>0, <4>1 DEF Left, AtRecord, Connected
        <3>4. CASE OpenRecord(s) /\ at[s] = "openAgain"
            <4>1. UNCHANGED <<held, of>>
                BY <3>4 DEF OpenRecord
            <4> QED BY <1>1, <3>0, <3>4, <4>1 DEF Left, AtRecord, Connected
        <3> QED BY <3>1, <3>2, <3>3, <3>4
    <2> QED BY <2>2, <2>3, <2>4, <2>5, <2>6 DEF Turn
<1> QED BY <1>2, <1>3

LEMMA ConnectTurn ==
    ASSUME TInv, Hand, NEW s \in Scripts, Turn(s), ConnectOverlay(s), faults \subseteq faults'
    PROVE  Turn(s)'
<1>0. TypeOK /\ Typed(s) /\ Holds(s)
    BY DEF TInv, Hand
<1> USE DEF Goto, machine, records, locals
<1>1. at[s] = "connect" /\ at'[s] = "allocate" /\ UNCHANGED <<mnt, dirs, of>>
    BY <1>0 DEF ConnectOverlay, TypeOK
<1>2. Read(s)' /\ Unmounted(s)' /\ Left(s)'
    BY <1>1 DEF Read, Unmounted, Left, Unmounting, Reading, AtRecord
<1>3. ASSUME faults' \subseteq Kills
      PROVE  Attached(s)' /\ \A m \in mnt' : Connected(m[1], m[2])'
    <2>0. /\ Attached(s) /\ Free(s) /\ device[picked[s]] = "free"
          /\ \A k \in todo[s] : ~InUse(k)
          /\ \A m \in mnt : Connected(m[1], m[2])
        BY <1>1, <1>3 DEF Turn, Attached, Free
    <2>1. picked[s] \in Devices
        BY <1>0, <1>1 DEF Typed
    <2>2. PICK k \in todo[s] :
              /\ device' = [device EXCEPT ![picked[s]] = k]
              /\ nbds' = [nbds EXCEPT ![s] = [@ EXCEPT ![k] = picked[s]]]
              /\ todo' = [todo EXCEPT ![s] = @ \ {k}]
        BY <1>3, <2>0, NoFault DEF ConnectOverlay, FaultKinds
    <2>3. k \in Disks /\ ~InUse(k)
        BY <1>0, <2>0 DEF TypeOK
    <2>4. \A d \in Devices : device'[d] = IF d = picked[s] THEN k ELSE device[d]
        BY <1>0, <2>2 DEF TypeOK
    <2>5. \A m \in mnt' : Connected(m[1], m[2])'
        <3>1. ASSUME NEW m \in mnt PROVE device'[m[2]] = m[1]
            <4>1. m[1] \in Disks /\ m[2] \in Devices /\ device[m[2]] = m[1]
                BY <1>0, <2>0 DEF TypeOK, Connected
            <4>2. m[2] # picked[s]
                BY <2>0, <4>1, BackupsAssumption
            <4> QED BY <2>4, <4>1, <4>2
        <3> QED BY <1>1, <3>1 DEF Connected
    <2>6. \A l \in Disks : nbds'[s][l] = IF l = k THEN picked[s] ELSE nbds[s][l]
        BY <1>0, <2>2 DEF TypeOK, NbdMaps
    <2>7. ASSUME NEW l \in Disks, nbds'[s][l] # NoDevice
          PROVE  device'[nbds'[s][l]] = l
        <3>1. CASE l = k
            BY <2>1, <2>4, <2>6, <3>1
        <3>2. CASE l # k
            <4>1. nbds[s][l] \in Devices /\ device[nbds[s][l]] = l
                BY <1>0, <2>0, <2>6, <2>7, <3>2 DEF TypeOK, NbdMaps, Attached, Connected
            <4>2. nbds[s][l] # picked[s]
                BY <2>0, <4>1, BackupsAssumption
            <4> QED BY <2>4, <2>6, <3>2, <4>1, <4>2
        <3> QED BY <3>1, <3>2
    <2>8. \A l \in todo'[s] : ~InUse(l)'
        <3>1. \A l \in todo'[s] : l \in todo[s] /\ l # k
            BY <1>0, <2>2 DEF TypeOK
        <3> QED BY <2>0, <2>4, <3>1 DEF InUse
    <2>9. Free(s)'
        BY <1>1, <2>8 DEF Free
    <2> QED BY <2>5, <2>7, <2>9 DEF Attached, Connected
<1> QED BY <1>2, <1>3 DEF Turn

LEMMA MountTurn ==
    ASSUME TInv, Hand, NEW s \in Scripts, Turn(s), MountFilesystem(s), faults \subseteq faults'
    PROVE  Turn(s)'
<1>0. TypeOK /\ Typed(s) /\ Holds(s)
    BY DEF TInv, Hand
<1> USE DEF Goto, machine, records, locals
<1>1. at[s] = "mount" /\ UNCHANGED <<at, device, dirs, nbds>>
    BY DEF MountFilesystem
<1>2. Read(s)' /\ Unmounted(s)' /\ Left(s)' /\ Free(s)'
    BY <1>1 DEF Read, Unmounted, Left, Free, Unmounting, Reading, AtRecord
<1>3. ASSUME faults' \subseteq Kills
      PROVE  Attached(s)' /\ \A m \in mnt' : Connected(m[1], m[2])'
    <2>1. Attached(s) /\ \A m \in mnt : Connected(m[1], m[2])
        BY <1>3 DEF Turn
    <2>2. PICK k \in todo[s] : MountDevice(k, nbds[s][k])
        BY DEF MountFilesystem
    <2>3. k \in Disks /\ nbds[s][k] \in Devices
        BY <1>0, <1>1 DEF Typed, TypeOK
    <2>4. Connected(k, nbds[s][k])
        BY <2>1, <2>3, BackupsAssumption DEF Attached
    <2>5. \A m \in mnt' : m \in mnt \/ m = <<k, nbds[s][k]>>
        BY <2>2 DEF MountDevice
    <2>6. \A m \in mnt' : Connected(m[1], m[2])
        BY <2>1, <2>4, <2>5
    <2> QED BY <1>1, <1>2, <2>1, <2>6 DEF Attached, Connected
<1> QED BY <1>2, <1>3 DEF Turn

LEMMA UmountTurn ==
    ASSUME TInv, Hand, NEW s \in Scripts, Turn(s), UmountFilesystems(s), faults \subseteq faults'
    PROVE  Turn(s)'
<1>0. TypeOK /\ Typed(s) /\ Holds(s)
    BY DEF TInv, Hand
<1> USE DEF Goto, machine, records, locals
<1>1. /\ at[s] = "umount" /\ UNCHANGED <<at, device, dirs, nbds>>
      /\ mnt' \subseteq mnt
    BY DEF UmountFilesystems
<1>2. Read(s)' /\ Left(s)' /\ Free(s)'
    BY <1>1 DEF Read, Left, Free, Reading, AtRecord
<1>3. ASSUME "command" \notin faults' PROVE Unmounted(s)'
    <2>1. PICK k \in todo[s] : /\ mnt' = {m \in mnt : m[1] # k}
                               /\ todo' = [todo EXCEPT ![s] = @ \ {k}]
        BY <1>3, NoFault DEF UmountFilesystems, FaultKinds
    <2>2. todo'[s] = todo[s] \ {k}
        BY <1>0, <2>1 DEF TypeOK
    <2>3. \A m \in mnt : m[1] \in todo[s]
        BY <1>1, <1>3 DEF Turn, Unmounted
    <2>4. \A m \in mnt' : m[1] \in todo'[s]
        BY <2>1, <2>2, <2>3
    <2> QED BY <1>1, <2>4 DEF Unmounted
<1>4. faults' \subseteq Kills => Attached(s)' /\ \A m \in mnt' : Connected(m[1], m[2])'
    BY <1>1, <1>2 DEF Turn, Attached, Connected
<1> QED BY <1>2, <1>3, <1>4 DEF Turn

LEMMA WriteTurn ==
    ASSUME TInv, Hand, NEW s \in Scripts, Turn(s), faults \subseteq faults',
           WriteRecord(s) \/ Killed(s)
    PROVE  Turn(s)'
<1>1. UNCHANGED <<device, mnt>> /\ Ends(s) /\ TypeOK
    BY DEF WriteRecord, Killed, machine, TInv
<1> QED BY <1>1, EndsTurn

LEMMA ReleaseTurn ==
    ASSUME TInv, Hand, NEW s \in Scripts, Turn(s), ReleaseDevice(s), faults \subseteq faults'
    PROVE  Turn(s)'
<1>0. TypeOK /\ Typed(s) /\ Holds(s)
    BY DEF TInv, Hand
<1> USE DEF Goto, machine, records, locals
<1>1. at[s] = "release" /\ UNCHANGED <<at, mnt, dirs, of, nbds, held, queue, record>>
    BY DEF ReleaseDevice
<1>2. Read(s)'
    BY <1>1 DEF Turn, Read
<1>3. "command" \notin faults' => Unmounted(s)' /\ mnt = {}
    BY <1>1 DEF Turn, Unmounted, Unmounting
<1>4. ASSUME faults' \subseteq Kills
      PROVE  Attached(s)' /\ \A m \in mnt' : Connected(m[1], m[2])'
    <2>1. mnt' = {}
        BY <1>1, <1>3, <1>4 DEF Kills
    <2>2. nbds[s] = NoDevices
        BY <1>0, <1>1 DEF Holds, Mounting
    <2> QED BY <1>1, <2>1, <2>2 DEF Attached, Free, NoDevices
<1>5. ASSUME faults' = {} PROVE Left(s)'
    <2>1. PICK k \in todo[s] :
              /\ device' = [device EXCEPT ![held[s][of[s]][k]] =
                               IF @ = "stuck" THEN @ ELSE "free"]
              /\ todo' = [todo EXCEPT ![s] = @ \ {k}]
        BY <1>5, NoFault DEF ReleaseDevice, FaultKinds
    <2>2. k \in Disks /\ todo'[s] = todo[s] \ {k}
        BY <1>0, <2>1 DEF TypeOK
    <2>3. ASSUME NEW l \in Disks, NEW d \in Devices,
                 held[s][of[s]][l] = d, device'[d] = l
          PROVE  l \in todo'[s]
        <3>1. device'[d] \in {device[d], "free", "stuck"}
            BY <1>0, <2>1 DEF TypeOK
        <3>2. device[d] = l
            BY <2>3, <3>1, BackupsAssumption
        <3>3. l \in todo[s]
            BY <1>1, <1>5, <2>3, <3>2 DEF Turn, Left, AtRecord, Connected
        <3>4. l # k
            <4>1. l = k => device'[d] \in {"free", "stuck"}
                BY <1>0, <2>1, <2>3 DEF TypeOK
            <4> QED BY <2>3, <4>1, BackupsAssumption
        <3> QED BY <2>2, <3>3, <3>4
    <2> QED BY <1>1, <2>3 DEF Left, Connected
<1> QED BY <1>2, <1>3, <1>4, <1>5 DEF Turn

LEMMA WriteBackTurn ==
    ASSUME TInv, Hand, NEW s \in Scripts, Turn(s), WriteBack(s), faults \subseteq faults'
    PROVE  Turn(s)'
<1>0. TypeOK /\ Typed(s) /\ Holds(s)
    BY DEF TInv, Hand
<1> USE DEF Goto, machine, records, locals
<1>1. /\ at[s] = "writeBack" /\ at'[s] = "nextRecord"
      /\ of[s] \in Recoveries
      /\ record' = [record EXCEPT ![of[s]] = NoDevices]
      /\ held'[s] = [held[s] EXCEPT ![of[s]] = NoDevices]
      /\ UNCHANGED <<device, mnt, dirs, nbds, queue>>
    BY <1>0 DEF WriteBack, Typed, TypeOK
<1>2. Read(s)'
    <2>1. /\ held[s] = record
          /\ \A r \in Recoveries : record[r] # NoDevices => r \in queue[s] \union {of[s]}
        BY <1>1 DEF Turn, Read, Reading, AtRecord
    <2>2. held'[s] = record'
        BY <1>1, <2>1
    <2>3. \A r \in Recoveries : record'[r] = IF r = of[s] THEN NoDevices ELSE record[r]
        BY <1>0, <1>1 DEF TypeOK
    <2> QED BY <1>1, <2>1, <2>2, <2>3 DEF Read
<1>3. "command" \notin faults' => Unmounted(s)' /\ mnt' = {}
    BY <1>1 DEF Turn, Unmounted, Unmounting
<1>4. ASSUME faults' \subseteq Kills
      PROVE  Attached(s)' /\ \A m \in mnt' : Connected(m[1], m[2])'
    <2>1. mnt' = {}
        BY <1>3, <1>4 DEF Kills
    <2>2. nbds'[s] = NoDevices
        BY <1>0, <1>1 DEF Holds, Mounting
    <2> QED BY <1>1, <2>1, <2>2 DEF Attached, Free, NoDevices
<1>5. Left(s)'
    BY <1>1 DEF Left, AtRecord
<1> QED BY <1>2, <1>3, <1>4, <1>5 DEF Turn

LEMMA EachTurn ==
    ASSUME TInv, Hand, Hand', NEW s \in Scripts, Turn(s), ActionOf(s)
    PROVE  Turn(s)'
<1>1. faults \subseteq faults'
    BY HistoryGrows
<1>2. CASE \/ StartMount(s) \/ CreateOverlay(s) \/ OverlaysCreated(s) \/ AllocateNbd(s)
           \/ OverlaysConnected(s) \/ FilesystemsMounted(s) \/ MountVolumes(s)
           \/ OpenRecord(s) /\ at[s] = "openRecord"
    BY <1>1, <1>2, QuietMountTurn
<1>3. CASE \/ StartUnmount(s) \/ FilesystemsUmounted(s) \/ ReadRecord(s) \/ RecordsRead(s)
           \/ NextRecord(s) \/ DevicesReleased(s)
           \/ OpenRecord(s) /\ at[s] = "openAgain"
    BY <1>1, <1>3, QuietUnmountTurn
<1>4. CASE ConnectOverlay(s) \/ MountFilesystem(s) \/ UmountFilesystems(s)
    BY <1>1, <1>4, ConnectTurn, MountTurn, UmountTurn
<1>5. CASE WriteRecord(s) \/ Killed(s) \/ ReleaseDevice(s) \/ WriteBack(s)
    BY <1>1, <1>5, WriteTurn, ReleaseTurn, WriteBackTurn
<1>6. OpenRecord(s) => at[s] = "openRecord" \/ at[s] = "openAgain"
    BY DEF OpenRecord
<1>7. MountAction(s) \/ OpenRecord(s) \/ Killed(s) => Turn(s)'
    BY <1>2, <1>3, <1>4, <1>5, <1>6 DEF MountAction
<1>8. UnmountAction(s) => Turn(s)'
    BY <1>3, <1>4, <1>5 DEF UnmountAction
<1> QED BY <1>7, <1>8 DEF ActionOf

\* A run that makes a step is alone, as long as none were made at the same time.
LEMMA ActsAlone ==
    ASSUME TypeOK, overlaps = {} => OneRun, NEW s \in Scripts, ActionOf(s), overlaps' = {}
    PROVE  \A t \in Scripts \ {s} : at[t] = "idle"
<1>1. CASE at[s] # "idle"
    <2>1. overlaps = {}
        BY HistoryGrows
    <2> QED BY <1>1, <2>1 DEF OneRun
<1>2. CASE at[s] = "idle"
    <2>1. PICK kind \in {"mount", "unmount"} : Starts(s, kind)
        BY <1>2
           DEF ActionOf, MountAction, UnmountAction, StartMount, CreateOverlay,
               OverlaysCreated, AllocateNbd, ConnectOverlay, OverlaysConnected,
               MountFilesystem, FilesystemsMounted, MountVolumes, OpenRecord, WriteRecord,
               StartUnmount, UmountFilesystems, FilesystemsUmounted, ReadRecord,
               RecordsRead, NextRecord,
               ReleaseDevice, DevicesReleased, WriteBack, Killed
    <2>2. ASSUME NEW t \in Scripts \ {s}, at[t] # "idle" PROVE FALSE
        <3>1. (IF at[t] \in Mounting THEN "mount" ELSE "unmount") \in
                  {IF at[u] \in Mounting THEN "mount" ELSE "unmount" :
                     u \in {u \in Scripts \ {s} : at[u] # "idle"}}
            BY <2>2
        <3>2. overlaps' # {}
            BY <2>1, <3>1 DEF Starts
        <3> QED BY <3>2
    <2> QED BY <2>2
<1> QED BY <1>1, <1>2

LEMMA ByTurnsNext == TInv /\ Hand /\ ByTurns /\ [Next]_vars => ByTurns'
<1> SUFFICES ASSUME TInv, Hand, ByTurns, [Next]_vars PROVE ByTurns'
    OBVIOUS
<1>0. Hand'
    BY HandNext
<1>1. ASSUME NEW s \in Scripts, ActionOf(s) PROVE ByTurns'
    <2>1. SUFFICES ASSUME overlaps' = {}
                   PROVE  /\ OneRun'
                          /\ Turn(s)'
                          /\ \A t \in Scripts \ {s} :
                                Read(t)' /\ Unmounted(t)' /\ Attached(t)' /\ Left(t)'
        BY DEF ByTurns, Turn, OwnFiles
    <2>2. overlaps = {}
        BY <1>1, <2>1, HistoryGrows
    <2>3. \A t \in Scripts \ {s} : at[t] = "idle"
        BY <1>1, <2>1, ActsAlone DEF ByTurns, TInv
    <2>4. \A t \in Scripts \ {s} : at'[t] = "idle"
        BY <1>1, <2>3, OthersKept DEF TInv, Locals
    <2>5. Turn(s)
        BY <2>2 DEF ByTurns, Turn, OwnFiles
    <2>6. Turn(s)'
        BY <1>0, <1>1, <2>5, EachTurn
    <2>7. \A t \in Scripts \ {s} : Read(t)' /\ Unmounted(t)' /\ Attached(t)' /\ Left(t)'
        BY <1>0, <2>4, IdleTurn DEF Hand
    <2> QED BY <2>4, <2>6, <2>7 DEF OneRun
<1>2. CASE Reboot
    <2>1. \A s \in Scripts : at'[s] = "idle"
        BY <1>2 DEF Reboot
    <2>2. \A s \in Scripts : Read(s)' /\ Unmounted(s)' /\ Attached(s)' /\ Left(s)'
        BY <1>0, <2>1, IdleTurn DEF Hand
    <2>3. ~(faults' \subseteq Kills)
        BY <1>2, NoFault DEF Reboot, FaultKinds
    <2> QED BY <2>1, <2>2, <2>3 DEF ByTurns, OneRun
<1>3. CASE UNCHANGED vars
    BY <1>3
       DEF vars, machine, records, locals, made, ByTurns, OneRun, Read, Unmounted, Attached,
           Free, InUse, Left, OwnFiles, Connected
<1> QED BY <1>1, <1>2, <1>3 DEF Next, ActionOf

LEMMA InTurns == Spec => [](TInv /\ Hand /\ ByTurns)
<1>1. Init => TInv /\ Hand /\ ByTurns
    BY TInvInit, HandInit, ByTurnsInit
<1>2. TInv /\ Hand /\ ByTurns /\ [Next]_vars => (TInv /\ Hand /\ ByTurns)'
    BY TInvNext, HandNext, ByTurnsNext
<1> QED BY <1>1, <1>2, PTL DEF Spec

\* As long as one run is made after another, what is mounted below the name of a
\* disk is that disk: a run that was killed half way leaves nothing behind that a
\* later one takes for its own (vm_qcow2_mount.py:672-679).
THEOREM MountsAreOwn == Spec => []OwnFiles
<1>1. ByTurns => OwnFiles
    BY DEF ByTurns, OwnFiles
<1> QED BY <1>1, InTurns, PTL

\* An "unmount" that succeeds leaves no mount, and no device in a record, whatever
\* was killed before it and after any reboot: it has gone through the record of
\* every recovery that names a device (vm_qcow2_mount.py:673-679).
THEOREM NothingStays == Spec => AllReleased
<1> DEFINE Finishes ==
        \A s \in Scripts :
            /\ at[s] = "nextRecord" /\ queue[s] = {} /\ at'[s] = "idle"
            /\ overlaps = {} /\ "command" \notin faults'
            => mnt' = {} /\ \A k \in Disks, d \in Devices : ~Recorded(k, d)'
<1>1. ASSUME TInv, Hand, ByTurns, Next PROVE Finishes
    <2>1. SUFFICES ASSUME NEW s \in Scripts, at[s] = "nextRecord", queue[s] = {},
                          at'[s] = "idle", overlaps = {}, "command" \notin faults'
                   PROVE  mnt' = {} /\ \A k \in Disks, d \in Devices : ~Recorded(k, d)'
        OBVIOUS
    <2>2. (mnt' = mnt \/ mnt' = {}) /\ record' = record /\ faults \subseteq faults'
        <3>1. CASE Reboot
            BY <3>1 DEF Reboot, records, Fault
        <3>2. ASSUME NEW t \in Scripts, ActionOf(t) PROVE mnt' = mnt /\ record' = record
            <4>1. t = s
                BY <1>1, <2>1, <3>2, OthersKept DEF TInv, Locals
            <4>2. NextRecord(s) \/ Killed(s)
                BY <2>1, <3>2, <4>1
                   DEF ActionOf, MountAction, UnmountAction, StartMount, CreateOverlay,
                       OverlaysCreated, AllocateNbd, ConnectOverlay, OverlaysConnected,
                       MountFilesystem, FilesystemsMounted, MountVolumes, OpenRecord,
                       WriteRecord, StartUnmount, UmountFilesystems, FilesystemsUmounted,
                       ReadRecord, RecordsRead, ReleaseDevice, DevicesReleased, WriteBack,
                       Starts
            <4> QED BY <4>2 DEF NextRecord, Killed, machine, records
        <3> QED BY <1>1, <3>1, <3>2, HistoryGrows DEF Next, ActionOf
    <2>3. mnt = {}
        BY <1>1, <2>1, <2>2 DEF ByTurns, Unmounted, Unmounting
    <2>4. \A r \in Recoveries : record[r] = NoDevices
        <3>1. of[s] = Nobody
            BY <1>1, <2>1, Different DEF Hand, Holds
        <3>2. \A r \in Recoveries : record[r] # NoDevices => r \in queue[s] \union {of[s]}
            BY <1>1, <2>1 DEF ByTurns, Read, Reading
        <3> QED BY <2>1, <3>1, <3>2, BackupsAssumption
    <2> QED BY <2>2, <2>3, <2>4, BackupsAssumption DEF Recorded, NoDevices
<1>2. TInv /\ Hand /\ ByTurns /\ [Next]_vars => [Finishes]_vars
    BY <1>1
<1> QED BY <1>2, InTurns, PTL DEF Spec, AllReleased

-----------------------------------------------------------------------------
(* Which devices are forgotten. *)

\* Between turns, what a run has read of a record the record still says.
LEMMA KnownHow ==
    ASSUME TInv, Hand, ByTurns, overlaps = {},
           NEW k \in Disks, NEW d \in Devices, Known(k, d)
    PROVE  Recorded(k, d) \/ \E t \in Scripts : nbds[t][k] = d
<1>1. ASSUME NEW t \in Scripts, NEW r \in Recoveries, held[t][r][k] = d
      PROVE  Recorded(k, d)
    <2>1. at[t] \in Reading \union {"readRecords"} /\ held[t][r] # NoDevices
        BY <1>1, BackupsAssumption DEF Hand, Holds, NoDevices
    <2>2. held[t][r] = record[r]
        BY <2>1 DEF ByTurns, Read
    <2> QED BY <1>1, <2>2 DEF Recorded
<1> QED BY <1>1 DEF Known

LEMMA RecordedKept ==
    ASSUME TInv, Hand, ByTurns, overlaps = {}, faults' = {}, NEW s \in Scripts, ActionOf(s),
           NEW k \in Disks, NEW d \in Devices, Connected(k, d), Recorded(k, d)
    PROVE  Recorded(k, d)'
<1>0. /\ TypeOK /\ Typed(s) /\ Holds(s) /\ Kept
      /\ faults = {} /\ Read(s) /\ Attached(s) /\ Left(s)
    BY HistoryGrows DEF TInv, Hand, ByTurns, Kills
<1>1. PICK r \in Recoveries : record[r][k] = d
    BY DEF Recorded
<1>2. CASE record' = record
    BY <1>1, <1>2 DEF Recorded
<1>3. CASE WriteRecord(s)
    <2>1. at[s] = "writeRecord" /\ of[s] \in Recoveries
        BY <1>0, <1>3 DEF WriteRecord, Typed, Mounting
    <2>2. \A q \in Recoveries : record'[q] = IF q = of[s] THEN nbds[s] ELSE record[q]
        BY <1>0, <1>3 DEF WriteRecord, TypeOK
    <2>3. CASE r = of[s]
        <3>1. k \in ImagesOf(of[s])
            BY <1>0, <1>1, <2>3, BackupsAssumption DEF Kept
        <3>2. nbds[s][k] \in Devices
            BY <1>0, <2>1, <3>1 DEF Holds, Connecting
        <3>3. Connected(k, nbds[s][k])
            BY <1>0, <3>2, BackupsAssumption DEF Attached
        <3>4. nbds[s][k] = d
            BY <1>0, <3>2, <3>3 DEF Kept, Connected
        <3> QED BY <1>1, <2>2, <2>3, <3>4 DEF Recorded
    <2>4. CASE r # of[s]
        BY <1>1, <2>2, <2>4 DEF Recorded
    <2> QED BY <2>3, <2>4
<1>4. CASE WriteBack(s)
    <2>1. at[s] = "writeBack"
        BY <1>4 DEF WriteBack
    <2>2. held[s] = record
        BY <1>0, <2>1 DEF Read, Reading, AtRecord
    <2>3. r # of[s]
        BY <1>0, <1>1, <2>1, <2>2 DEF Left, AtRecord
    <2>4. record'[r] = record[r]
        BY <1>0, <1>4, <2>3 DEF WriteBack, TypeOK
    <2> QED BY <1>1, <2>4 DEF Recorded
<1>5. record' = record \/ WriteRecord(s) \/ WriteBack(s)
    BY DEF ActionOf, MountAction, UnmountAction, StartMount, CreateOverlay, OverlaysCreated,
           AllocateNbd, ConnectOverlay, OverlaysConnected, MountFilesystem,
           FilesystemsMounted, MountVolumes, OpenRecord, StartUnmount, UmountFilesystems,
           FilesystemsUmounted, ReadRecord, RecordsRead, NextRecord, ReleaseDevice,
           DevicesReleased,
           Killed, records
<1> QED BY <1>2, <1>3, <1>4, <1>5

LEMMA InHandKept ==
    ASSUME TInv, Hand, ByTurns, overlaps = {}, faults' = {}, NEW s \in Scripts, ActionOf(s),
           NEW k \in Disks, NEW d \in Devices, Connected(k, d), nbds[s][k] = d, ~Raises(s)
    PROVE  nbds'[s][k] = d \/ Recorded(k, d)'
<1>0. /\ TypeOK /\ Typed(s) /\ Holds(s) /\ Kept
      /\ faults = {} /\ Attached(s)
    BY HistoryGrows DEF TInv, Hand, ByTurns, Kills
<1>1. at[s] \in Mounting
    BY <1>0, BackupsAssumption DEF Holds, NoDevices
<1>2. ~Killed(s)
    BY DEF Killed, Fault
<1>3. CASE WriteRecord(s)
    <2>1. of[s] \in Recoveries
        BY <1>0, <1>1 DEF Typed
    <2>2. record'[of[s]] = nbds[s]
        BY <1>0, <1>3, <2>1 DEF WriteRecord, TypeOK
    <2> QED BY <2>1, <2>2 DEF Recorded
<1>4. CASE ConnectOverlay(s)
    <2>1. at[s] = "connect"
        BY <1>4 DEF ConnectOverlay
    <2>2. PICK l \in todo[s] : nbds' = [nbds EXCEPT ![s] = [@ EXCEPT ![l] = picked[s]]]
        BY <1>4 DEF ConnectOverlay
    <2>3. l # k
        BY <1>0, <2>1 DEF Attached, Free, InUse, Connected
    <2> QED BY <1>0, <2>2, <2>3 DEF TypeOK, NbdMaps
<1>5. CASE \/ StartMount(s) \/ CreateOverlay(s) \/ OverlaysCreated(s) \/ AllocateNbd(s)
           \/ OverlaysConnected(s) \/ MountFilesystem(s) \/ FilesystemsMounted(s)
           \/ MountVolumes(s) \/ OpenRecord(s)
    <2>1. ~Ends(s) \/ Raises(s)
        <3>1. Ends(s) => at'[s] = "idle"
            BY <1>0 DEF Ends, Goto, TypeOK
        <3>2. CASE CreateOverlay(s) \/ AllocateNbd(s) \/ MountVolumes(s)
            BY <3>1, <3>2 DEF CreateOverlay, AllocateNbd, MountVolumes, Raises
        <3>3. CASE \/ StartMount(s) \/ OverlaysCreated(s) \/ OverlaysConnected(s)
                   \/ MountFilesystem(s) \/ FilesystemsMounted(s) \/ OpenRecord(s)
            <4>1. at'[s] # "idle"
                BY <1>0, <3>3
                   DEF StartMount, OverlaysCreated, OverlaysConnected, MountFilesystem,
                       FilesystemsMounted, OpenRecord, Goto, TypeOK
            <4> QED BY <3>1, <4>1
        <3> QED BY <1>5, <3>2, <3>3
    <2>2. nbds' = nbds
        BY <1>5, <2>1
           DEF StartMount, CreateOverlay, OverlaysCreated, AllocateNbd, OverlaysConnected,
               MountFilesystem, FilesystemsMounted, MountVolumes, OpenRecord, locals
    <2> QED BY <2>2
<1>6. ~UnmountAction(s)
    BY <1>1
       DEF UnmountAction, StartUnmount, Starts, UmountFilesystems, FilesystemsUmounted,
           ReadRecord, RecordsRead, NextRecord, ReleaseDevice, DevicesReleased, WriteBack,
           Mounting
<1> QED BY <1>2, <1>3, <1>4, <1>5, <1>6 DEF ActionOf, MountAction

LEMMA NewlyKnown ==
    ASSUME TInv, NEW s \in Scripts, ActionOf(s),
           NEW k \in Disks, NEW d \in Devices, ~Connected(k, d), Connected(k, d)'
    PROVE  nbds'[s][k] = d
<1>0. TypeOK
    BY DEF TInv
<1>1. CASE device' = device
    BY <1>1 DEF Connected
<1>2. CASE ReleaseDevice(s)
    <2>1. device'[d] \in {device[d], "free", "stuck"}
        BY <1>0, <1>2 DEF ReleaseDevice, TypeOK
    <2> QED BY <2>1, BackupsAssumption DEF Connected
<1>3. CASE ConnectOverlay(s) /\ device' # device
    <2>1. PICK l \in todo[s] :
              /\ device' = [device EXCEPT ![picked[s]] = l]
              /\ nbds' = [nbds EXCEPT ![s] = [@ EXCEPT ![l] = picked[s]]]
        BY <1>3 DEF ConnectOverlay
    <2>2. d = picked[s] /\ l = k
        BY <1>0, <2>1 DEF TypeOK, Connected
    <2> QED BY <1>0, <2>1, <2>2 DEF TypeOK, NbdMaps
<1>4. device' = device \/ ReleaseDevice(s) \/ ConnectOverlay(s)
    BY DEF ActionOf, MountAction, UnmountAction, StartMount, CreateOverlay, OverlaysCreated,
           AllocateNbd, OverlaysConnected, MountFilesystem, FilesystemsMounted, MountVolumes,
           OpenRecord, WriteRecord, StartUnmount, UmountFilesystems, FilesystemsUmounted,
           ReadRecord, RecordsRead, NextRecord, DevicesReleased, WriteBack, Killed, machine
<1> QED BY <1>1, <1>2, <1>3, <1>4

\* As long as one run is made after another, none is killed and no command fails, a
\* device in use is lost sight of in one place only: where a run with "mount" that
\* has connected it raises (vm_qcow2_mount.py:625-626, 666-672).
THEOREM OnlyFailuresForget == Spec => ForgottenByFailure
<1> DEFINE Forgets ==
        overlaps = {} /\ faults' = {} =>
            \A k \in Disks, d \in Devices :
                Connected(k, d)' /\ (Connected(k, d) => Known(k, d)) /\ ~Known(k, d)' =>
                    \E s \in Scripts : nbds[s][k] = d /\ Raises(s)
<1>1. ASSUME TInv, Hand, ByTurns, Next PROVE Forgets
    <2>1. SUFFICES ASSUME overlaps = {}, faults' = {}, NEW k \in Disks, NEW d \in Devices,
                          Connected(k, d)', Connected(k, d) => Known(k, d),
                          ~\E s \in Scripts : nbds[s][k] = d /\ Raises(s)
                   PROVE  Known(k, d)'
        OBVIOUS
    <2>2. PICK s \in Scripts : ActionOf(s)
        BY <1>1, <2>1 DEF Next, ActionOf, Reboot, Fault
    <2>3. CASE ~Connected(k, d)
        BY <1>1, <2>1, <2>2, <2>3, NewlyKnown DEF Known
    <2>4. CASE Connected(k, d) /\ Recorded(k, d)
        BY <1>1, <2>1, <2>2, <2>4, RecordedKept DEF Known
    <2>5. ASSUME Connected(k, d), NEW t \in Scripts, nbds[t][k] = d
          PROVE  Known(k, d)'
        <3>1. CASE t = s
            BY <1>1, <2>1, <2>2, <2>5, <3>1, InHandKept DEF Known
        <3>2. CASE t # s
            BY <1>1, <2>2, <2>5, <3>2, OthersKept DEF TInv, Locals, Known
        <3> QED BY <3>1, <3>2
    <2> QED BY <1>1, <2>1, <2>3, <2>4, <2>5, KnownHow
<1>2. TInv /\ Hand /\ ByTurns /\ [Next]_vars => [Forgets]_vars
    BY <1>1
<1> QED BY <1>2, InTurns, PTL DEF Spec, ForgottenByFailure

=============================================================================
