CONSTANTS
    w1 = w1
    w2 = w2
    s1 = s1
    s2 = s2
    s3 = s3
    Workers <- TwoWorkers
    SessionIds <- ThreeSessions
    MaxSessions = 1
    Timeout = 1
    MaxHistory <- ShortHistories
    ArrayLengths = {0, 3}
    MaxRecords = 2
SPECIFICATION Spec
SYMMETRY Symmetry
INVARIANTS
    TypeOK
    OverrunByWorkers
    HistoryKept
PROPERTIES
    NoResurrection
    DeadStaysDead
    RemovedWhenDue
