SPECIFICATION FairSpec
CONSTANTS
    d1 = d1
    d2 = d2
    w1 = w1
    w2 = w2
    Devices <- TwoDevices
    Workers <- TwoWorkers
    MaxOps = 2
    MaxFaults = 1
INVARIANTS TypeOK StaleAclIsOwed
PROPERTIES CutDevicesAreRevoked ReactivatedDevicesReEnroll
CHECK_DEADLOCK FALSE
