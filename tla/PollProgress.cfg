SPECIFICATION FairSpec
CONSTANTS
    b1 = b1
    b2 = b2
    n1 = n1
    n2 = n2
    n3 = n3
    n4 = n4
    p = p
    q = q
    NoScan = NoScan
    Backups <- TwoBackups
    PlanOf <- OnePlan
    Enabled <- TwoBackups
    ScanOld = {b2}
    Names = {n1, n2, n3, n4}
    NumWorkers = 2
    Surprises = {}
    MaxFaults = 0
INVARIANTS
    OneScanPerBackup
PROPERTIES
    RemovesOnlyStale
    EveryBackupScanned
    StaleRemoved
