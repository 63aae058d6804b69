SPECIFICATION FairSpec
CONSTANTS
    Tasks <- BothTasks
    MaxChanges = 2
    MaxStreams = 2
    MaxCompileRetries = 2
    MaxFaults = 1
INVARIANTS TypeOK NoMissedWake
PROPERTIES  RouteConverges
CHECK_DEADLOCK FALSE
