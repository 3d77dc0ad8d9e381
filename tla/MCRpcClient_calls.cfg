\* Two async calls and a sync one; two sessions, so that one is given out again.
SPECIFICATION FairSpec
CONSTANTS
    AsyncCalls = {a1, a2}
    SyncCalls = {b1}
    None = None
    SessionMod = 2
    MaxStarts = 2
    MaxStops = 2
    StopContexts = {"loop", "thread"}
CHECK_DEADLOCK FALSE
INVARIANTS TypeOK Tracked NoneLeftBehind TimeoutForgets
PROPERTIES CallsEnd IsExchange
