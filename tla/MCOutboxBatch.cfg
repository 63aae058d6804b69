SPECIFICATION Spec
CONSTANTS
    e1 = e1
    e2 = e2
    p1 = p1
    p2 = p2
    Events <- MCTwoEvents
    Unhandled <- MCUnhandled
    Processors <- MCProcessors
    MaxRetries = 2
    BatchSize = 2
    MaxFaults = 1
    MaxRecoveries = 0
SYMMETRY Symmetry
INVARIANTS TypeOK OneOwner NoStrandedRow DoneWasApplied
PROPERTIES FreshLeaseIsSafe
CHECK_DEADLOCK FALSE
