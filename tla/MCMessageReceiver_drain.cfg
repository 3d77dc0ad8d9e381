\* One producer and one closer that never call at the same time, one sync iteration.
SPECIFICATION OneCallerSpec
CONSTANTS
    Producers = {p1}
    Closers = {k1}
    Readers = {r1}
    Tasks = {}
    Sentinel = Sentinel
    MaxSize = 0
    MaxCalls = 1
    MaxStops = 0
    AttachContexts = {}
CHECK_DEADLOCK FALSE
INVARIANT ReaderDrains
