SPECIFICATION Spec
CONSTANTS
    p1 = p1
    p2 = p2
    Pods = {p1, p2}
    NoPod = NoPod
    Setups <- PreScanSetups
    Files = {"f1", "f2"}
    Children = {"ns1", "ns2"}
    VMs = {"vm1"}
    Claims = {"vol1", "vol2"}
    MaxFaults = 1
INVARIANTS
    AllChildrenListed
CHECK_DEADLOCK FALSE
