------------------------ MODULE FileRecoveryProperties ------------------------
(* What runs of the file recovery script may, and may not, do to each other. *)
EXTENDS FileRecovery

Steps == {"idle"} \union Mounting \union Unmounting

NbdMaps == [Disks -> Devices \union {NoDevice}]

TypeOK ==
    /\ device \in [Devices -> Disks \union {"free", "stuck"}]
    /\ mnt \subseteq Disks \X Devices
    /\ dirs \subseteq Disks
    /\ files \subseteq Recoveries
    /\ record \in [Recoveries -> NbdMaps]
    /\ torn \subseteq Recoveries
    /\ at \in [Scripts -> Steps]
    /\ of \in [Scripts -> Recoveries \union {Nobody}]
    /\ todo \in [Scripts -> SUBSET Disks]
    /\ picked \in [Scripts -> Devices \union {NoDevice}]
    /\ nbds \in [Scripts -> NbdMaps]
    /\ listed \in [Scripts -> SUBSET Recoveries]
    /\ held \in [Scripts -> [Recoveries -> NbdMaps]]
    /\ queue \in [Scripts -> SUBSET Recoveries]
    /\ overlaps \subseteq {"mount", "unmount", "both"}
    /\ runs \in 0 .. MaxRuns
    /\ faults \subseteq FaultKinds

-----------------------------------------------------------------------------

Kills == {"killMount", "killUnmount"}

Connected(k, d) == device[d] = k

Recorded(k, d) == \E r \in Recoveries : record[r][k] = d

\* No run is taking things down.
Quiet == \A s \in Scripts : at[s] \notin Unmounting

\* As long as no two runs that mount and no two that unmount were made at a time,
\* and at worst runs that mount were killed, a record names the device of each of
\* its disks: no disk has been connected elsewhere, and no device given to another
\* recovery (vm_qcow2_mount.py:438-475, 672-679).
RecordsTrue ==
    overlaps \subseteq {"both"} /\ faults \subseteq {"killMount"} /\ Quiet =>
        \A r \in Recoveries, k \in Disks :
            record[r][k] # NoDevice => Connected(k, record[r][k])

\* As long as one run is made after another, a file system below /mnt/disk is one
\* of that disk, also after runs that raised or were killed half way, and every
\* mount is gone before "unmount" takes its device away
\* (vm_qcow2_mount.py:672-679).
OwnFiles ==
    overlaps = {} /\ faults \subseteq Kills => \A m \in mnt : Connected(m[1], m[2])

\* A device in use is known as long as a record names it, or a run that will write
\* the record, or release it.
Known(k, d) ==
    \/ Recorded(k, d)
    \/ \E s \in Scripts : nbds[s][k] = d \/ \E r \in queue[s] \union {of[s]} :
          r \in Recoveries /\ held[s][r][k] = d

\* Where a run with "mount" raises.
Raises(s) == at[s] \in {"overlays", "allocate", "volumes"} /\ at'[s] = "idle"

\* A device that is in use is forgotten, so that no "unmount" will ever release
\* it, by nothing but a run with "mount" that raises after it connected it, as
\* long as one run is made after another, none is killed and no command fails
\* (vm_qcow2_mount.py:625-626, 666-672).
ForgottenByFailure ==
    [][overlaps = {} /\ faults' = {} =>
          \A k \in Disks, d \in Devices :
              Connected(k, d)' /\ (Connected(k, d) => Known(k, d)) /\ ~Known(k, d)' =>
                  \E s \in Scripts : nbds[s][k] = d /\ Raises(s)]_vars

\* "unmount" releases the overlay of the disk that its record names, and no other,
\* even beside a run that mounts (vm_qcow2_mount.py:479-490).
NoForeignRelease ==
    [][\A s \in Scripts, d \in Devices :
          /\ at[s] = "release" /\ ReleaseDevice(s)
          /\ overlaps \subseteq {"both"} /\ faults' \subseteq {"killMount"}
          /\ device[d] # device'[d]
          => held[s][of[s]][device[d]] = d]_vars

\* An "unmount" that succeeds, without another run beside it or a command that
\* fails, leaves no mount and no device in a record, of any recovery, whatever was
\* killed before it, and also after a reboot (vm_qcow2_mount.py:673-679).
AllReleased ==
    [][\A s \in Scripts :
          /\ at[s] = "nextRecord" /\ queue[s] = {} /\ at'[s] = "idle"
          /\ overlaps = {} /\ "command" \notin faults'
          => mnt' = {} /\ \A k \in Disks, d \in Devices : ~Recorded(k, d)']_vars

=============================================================================
