SPECIFICATION Spec
CONSTANTS
    b1 = b1
    b2 = b2
    n1 = n1
    n2 = n2
    n3 = n3
    n4 = n4
    p = p
    q = q
    NoScan = NoScan
    Backups <- TwoBackups
    PlanOf <- TwoPlans
    Enabled <- TwoBackups
    ScanOld = {b2}
    Names = {n1, n2, n3}
    NumWorkers = 2
    Surprises = {"overlap", "touch", "unseen", "retry"}
    MaxFaults = 1
INVARIANTS
    CleanupFirst
SYMMETRY NameSymmetry
CHECK_DEADLOCK FALSE
