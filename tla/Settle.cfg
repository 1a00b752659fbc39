SPECIFICATION FairSweepSpec
CONSTANTS
    s1 = s1
    ScanInstances <- OneScan
    MaxConcurrentScans = 1
    MaxIncarnations = 1
    MaxFaults = 0
    MaxSweepFaults = 1
    Deletions = TRUE
    Lagging = {"Deployment", "Service", "Config"}
    PodTrouble <- FailingPods
PROPERTIES
    Settles
    Disappears
    CleanedUp
    ImplementsLifecycle
    SweepSpares
    StaysSwept
CHECK_DEADLOCK FALSE
