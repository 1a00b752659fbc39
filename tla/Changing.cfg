SPECIFICATION FairSpec
CONSTANTS
    t1 = t1
    t2 = t2
    a = a
    b = b
    NoHash = NoHash
    NoTarget = NoTarget
    Targets = {t1, t2}
    Reporting = {t2}
    Hashes = {a, b}
    NFS = {a, b}
    Choices <- Editable
    MaxEdits = 3
    MaxFaults = 1
    Trouble = {}
PROPERTIES
    TargetsSettle
    HashesForgotten
    CronJobSettles
CHECK_DEADLOCK FALSE
