CONSTANTS
    w1 = w1
    s1 = s1
    s2 = s2
    c1 = c1
    c2 = c2
    Workers <- OneWorker
    Stoppers <- TwoStoppers
    Conns <- TwoConns
    MaxStarts = 2
    Nobody = Nobody
SPECIFICATION FairSpec
INVARIANTS
    TypeOK
    AcceptsWhileRunning
    PermitsBalanced
PROPERTIES
    StopEndsRun
