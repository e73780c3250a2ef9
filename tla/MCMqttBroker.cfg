CONSTANTS
    c1 = c1
    c2 = c2
    s1 = s1
    s2 = s2
    Configured <- TwoListeners
    Clients <- TwoClients
    Port <- PlainAndSecure
    ThreadsPerStart = 2
    MaxStarts = 2
    Stoppers <- TwoStoppers
SPECIFICATION FairSpec
INVARIANTS
    TypeOK
    NoThreadLeft
PROPERTIES
    StopEndsStart
    PlainClientsServed
