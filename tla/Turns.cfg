SPECIFICATION FairHistorySpec
CONSTANTS
    s1 = s1
    s2 = s2
    ScanInstances <- TwoScans
    MaxConcurrentScans = 1
    MaxIncarnations = 1
    MaxFaults = 0
    Deletions = FALSE
    Lagging = {"Job"}
    PodTrouble <- NoTrouble
INVARIANTS
    SlotsOverlooked
PROPERTIES
    Settles
CHECK_DEADLOCK FALSE
