SPECIFICATION Spec
CONSTANTS
    r1 = r1
    s1 = s1
    s2 = s2
    p1 = p1
    p2 = p2
    NoShield = NoShield
    NoRead = NoRead
    NoMsg = NoMsg
    Resources <- OneResource
    Shields <- TwoShields
    Ports <- TwoPorts
    DriftReports = 2
    AbsentReports = 2
    MaxOps = 2
    MaxFaults = 0
    MaxInbox = 1
    MaxAcks = 1
SYMMETRY Symmetry
INVARIANTS
    TypeOK
    NoUnaskedUnprotect
    VerdictReachedShield
CHECK_DEADLOCK FALSE
