SPECIFICATION FairSpec
CONSTANTS
    e1 = e1
    e2 = e2
    p1 = p1
    p2 = p2
    Events <- MCOneEvent
    Unhandled <- MCNone
    Processors <- MCProcessors
    MaxRetries = 2
    BatchSize = 2
    MaxFaults = 2
    MaxRecoveries = 2
INVARIANTS AttemptsWithinBudget
PROPERTIES EventuallySettled
CHECK_DEADLOCK FALSE
