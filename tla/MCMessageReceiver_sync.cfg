\* Two producers, a closer and two sync iterations over a bounded receiver.
SPECIFICATION FairSpec
CONSTANTS
    Producers = {p1, p2}
    Closers = {k1}
    Readers = {r1, r2}
    Tasks = {}
    Sentinel = Sentinel
    MaxSize = 2
    MaxCalls = 2
    MaxStops = 0
    AttachContexts = {}
CHECK_DEADLOCK FALSE
INVARIANT TypeOK
PROPERTIES IsChannel CloseEndsReaders
