CONSTANTS
    w1 = w1
    w2 = w2
    a = a
    b = b
    Workers <- TwoWorkers
    Clients <- TwoClients
    Configs <- SomeConfigs
    Default <- Off
    Unit = 2
    Resolution = 2
    Garbage <- Anything
    MaxIdle = 5
SPECIFICATION Spec
SYMMETRY Symmetry
INVARIANTS
    TypeOK
    AdmissionsBounded
PROPERTY LimitedJustly
