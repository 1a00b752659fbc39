SPECIFICATION Spec
CONSTANTS
    r1 = r1
    r2 = r2
    r3 = r3
    r4 = r4
    Scripts = {s1, s2}
    Recoveries = {r1, r2, r3, r4}
    Disks = {"k1", "k2"}
    Devices = {d1, d2}
    Backup <- Backups
    Lvm = {"k1"}
    NoDevice = NoDevice
    Nobody = Nobody
    MaxRuns = 4
    MaxFaults = 1
INVARIANTS
    RecordsTrue
    OwnFiles
PROPERTIES
    ForgottenByFailure
    NoForeignRelease
    AllReleased
SYMMETRY Alike
CHECK_DEADLOCK FALSE
