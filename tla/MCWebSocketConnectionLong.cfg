CONSTANTS
    p1 = p1
    Pushers <- OnePusher
    MaxQueue = 1
    MaxMessages = 1
    MaxBatch = 2
    BatchSize = 1
SPECIFICATION Spec
INVARIANT LongConnection
