\* One producer, a closer and two async iterations; the loop may be stopped once.
SPECIFICATION FairSpec
CONSTANTS
    Producers = {p1}
    Closers = {k1}
    Readers = {}
    Tasks = {t1, t2}
    Sentinel = Sentinel
    MaxSize = 3
    MaxCalls = 2
    MaxStops = 1
    AttachContexts = {"loop", "outside"}
CHECK_DEADLOCK FALSE
INVARIANTS MirrorFollows TaskOrder NoLostWakeup LateBound
PROPERTIES CloseEndsATask TaskServed
