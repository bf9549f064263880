SPECIFICATION Spec
CONSTANTS
    MaxStops = 2
    MaxExits = 0
    MaxPlots = 1
    SlowWindow = TRUE
    SpawnMayFail = TRUE
    HandlerMayRaise = TRUE
    Clients = {m1}
    MAX_CLIENTS = 1
    CacheCapacity = 1
    MaxRequests = 2
INVARIANTS FetchIsCurrent
CHECK_DEADLOCK FALSE
