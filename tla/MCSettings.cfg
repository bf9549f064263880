\* Every window may be closed for good: the system may stop.
SPECIFICATION Spec
SYMMETRY WindowSymmetry
CONSTANTS
    Windows = {w1, w2}
    Symbols = {"a"}
    Files = {"f"}
    Sizes = {0, 200}
    TTL = 2
    DebounceS = 2
    MaxTime = 3
    MaxStarts = 3
    MaxChanges = 3
    MaxFailures = 1
CHECK_DEADLOCK FALSE
INVARIANTS SessionRemembered
PROPERTIES FileIsAtomic
