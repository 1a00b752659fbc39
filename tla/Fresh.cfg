SPECIFICATION Spec
CONSTANTS
    s1 = s1
    s2 = s2
    ScanInstances <- OneScan
    MaxConcurrentScans = 0
    MaxIncarnations = 2
    MaxFaults = 1
    Deletions = TRUE
    Lagging = {"Deployment", "Service"}
    PodTrouble <- EachTrouble
INVARIANTS
    NoOrphanJob
    StatusExplained
PROPERTIES
    ScannedOnce
CHECK_DEADLOCK FALSE
