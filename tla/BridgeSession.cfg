SPECIFICATION Spec
CONSTANTS
    Symbols = {"a", "b"}
    RestoreBuffers = {"a"}
    Expirable = {"a"}
    MaxStops = 2
    MaxRequests = 2
    MaxRemovals = 1
    ViewerSlow = TRUE
    WindowMayClose = TRUE
INVARIANTS FreshAfterStop
PROPERTIES NewestRequestShown
