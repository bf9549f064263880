SPECIFICATION Spec
CONSTANTS
    Pids = {1, 2}
    Debuggers = {9}
    Unremovable = {2}
    MaxLaunches = 3
    MaxPowerLoss = 1
INVARIANTS NeverTorn LiveIsDiscoverable LookupReachesLive
PROPERTIES LookupReturns
CHECK_DEADLOCK FALSE
