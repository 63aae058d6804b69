SPECIFICATION Spec
CONSTANTS
    r1 = r1
    s1 = s1
    s2 = s2
    p1 = p1
    p2 = p2
    NoShield = NoShield
    NoRead = NoRead
    NoMsg = NoMsg
    Resources <- OneResource
    Shields <- OneShield
    Ports <- OnePort
    DriftReports = 2
    AbsentReports = 2
    MaxOps = 4
    MaxFaults = 0
    MaxInbox = 1
    MaxAcks = 1
INVARIANT UnprotectStands
CHECK_DEADLOCK FALSE
