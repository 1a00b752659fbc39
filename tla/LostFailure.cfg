SPECIFICATION FairSpec
CONSTANTS
    s1 = s1
    s2 = s2
    ScanInstances <- OneScan
    MaxConcurrentScans = 0
    MaxIncarnations = 1
    MaxFaults = 1
    Deletions = FALSE
    Lagging = {}
    PodTrouble <- FailingPods
PROPERTIES
    PreScanFailureIsTerminal
CHECK_DEADLOCK FALSE
