SPECIFICATION HistorySpec
CONSTANTS
    s1 = s1
    s2 = s2
    ScanInstances <- OneScan
    MaxConcurrentScans = 0
    MaxIncarnations = 1
    MaxFaults = 1
    Deletions = TRUE
    Lagging <- Everything
    PodTrouble <- NoTrouble
INVARIANTS
    TypeOK
    NoSkippedScan
    LocationsKnown
PROPERTIES
    ForgetsOnlyUnread
    ReopensOnlyUnread
CHECK_DEADLOCK FALSE
