\* stop() called on another thread than the loop's.
SPECIFICATION FairSpec
CONSTANTS
    AsyncCalls = {a1, a2}
    SyncCalls = {}
    None = None
    SessionMod = 4
    MaxStarts = 1
    MaxStops = 1
    StopContexts = {"thread"}
CHECK_DEADLOCK FALSE
PROPERTY StopCancelsPending
