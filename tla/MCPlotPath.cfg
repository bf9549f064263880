\* The byte ceiling lies inside size_t, and the largest products outside it.
SPECIFICATION PathSpec
CONSTANTS
    MAX_BUFFER_BYTES = 40
    MAX_BUFFER_DIMENSION = 5
    MAX_CHANNEL_COUNT = 2
    MAX_TEXTURE_SIZE = 2
    SIZE_MAX = 63
    Widths = {0, 1, 2, 3, 4, 5, 6}
    Heights = {0, 1, 2, 3, 6}
    Channels = {0, 1, 2, 3}
    Strides = {0, 1, 2, 3, 4, 5, 6}
    Types = {0, 3, 4, 5, 6, 7}
    Counts = {0, 1, 2, 3, 4, 5, 6, 7, 8, 9, 10, 12, 14, 15, 16, 17, 18, 20, 24, 27, 32, 33, 36, 40, 41, 48}
    IntBits = 6
    MAX_OPEN_FILE_BYTES = 36
    NPY_HEADER_BYTES = 4
    AgentMaxBytes = 17
    DebuggerInts <- MCDebuggerInts
    Documents <- MCDocuments
    Json <- MCJson
    Depth <- MCDepth
INVARIANTS EveryPixelInside PixelsInPlace DeliveredImpliesConfigure BridgeAgreesWithViewer ReadBack ValidatedResolves
