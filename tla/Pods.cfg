SPECIFICATION Spec
CONSTANTS
    p1 = p1
    p2 = p2
    Pods = {p1, p2}
    NoPod = NoPod
    Setups <- AllSetups
    Files = {"f1", "f2"}
    Children = {"ns1", "ns2"}
    VMs = {"vm1"}
    Claims = {"vol1", "vol2"}
    MaxFaults = 1
INVARIANTS
    TypeOK
    OnlyThroughMount
    VerdictSound
    FailureExplained
    NothingLeft
    UploadComplete
    LocationsExact
PROPERTIES
    EveryPodEnds
CHECK_DEADLOCK FALSE
