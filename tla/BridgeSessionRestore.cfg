SPECIFICATION Spec
CONSTANTS
    Symbols = {"a", "b"}
    RestoreBuffers = {"a", "b"}
    Expirable = {}
    MaxStops = 1
    MaxRequests = 0
    MaxRemovals = 0
    ViewerSlow = FALSE
    WindowMayClose = FALSE
PROPERTIES RestoredReappear
