SPECIFICATION Spec
CONSTANTS
    t1 = t1
    t2 = t2
    a = a
    b = b
    NoHash = NoHash
    NoTarget = NoTarget
    Targets = {t1, t2}
    Reporting = {}
    Hashes = {a}
    NFS = {a}
    Choices <- OneHash
    MaxEdits = 5
    MaxFaults = 1
    Trouble = {"failed", "blocked", "badImage"}
INVARIANTS
    TypeOK
    AvailableProven
    VolumeKept
SYMMETRY TargetSymmetry
CHECK_DEADLOCK FALSE
