SPECIFICATION Spec
CONSTANTS
    Symbols = {x}
    Files = {f}
    Channels = {1, 3}
    TextureNames = {1, 2, 3, 4}
    LowestFirst = TRUE
    Requests = {1}
    MaxPlots = 3
    MaxFailures = 1
INVARIANTS SpanLive RevisionMeansContent IsolationKept
PROPERTIES ThumbnailsCatchUp
