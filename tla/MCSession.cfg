SPECIFICATION FairSpec
CONSTANTS
    s1 = s1
    s2 = s2
    c1 = c1
    r1 = r1
    t1 = t1
    t2 = t2
    f1 = f1
    Sessions <- MCSessions
    Clients <- MCClients
    Resources <- MCResources
    Tuples <- MCOneTuple
    Streams <- MCStreams
    Snapshots <- MCOneTupleSnapshots
INVARIANTS TypeOK ServingIsAllowed LossReachesEveryTunnel TerminalClosesStreams
 
