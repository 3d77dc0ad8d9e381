\* One closer, two async iterations on the loop that was running when they began.
SPECIFICATION FairSpec
CONSTANTS
    Producers = {p1}
    Closers = {k1}
    Readers = {}
    Tasks = {t1, t2}
    Sentinel = Sentinel
    MaxSize = 0
    MaxCalls = 1
    MaxStops = 0
    AttachContexts = {"loop"}
CHECK_DEADLOCK FALSE
PROPERTY CloseUnblocksAll
