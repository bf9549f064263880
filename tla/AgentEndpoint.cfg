SPECIFICATION Spec
CONSTANTS
    MaxStops = 2
    MaxExits = 1
    MaxPlots = 1
    SlowWindow = TRUE
    SpawnMayFail = TRUE
    HandlerMayRaise = TRUE
    Clients = {m1}
    MAX_CLIENTS = 1
    CacheCapacity = 1
    MaxRequests = 2
INVARIANTS OneLiveWindow ClientAsserted LoopPerLaunch SlotsAreServed FetchNotOlder
PROPERTIES HandlerReturns PlotsRun RequestAnswered
CHECK_DEADLOCK FALSE
