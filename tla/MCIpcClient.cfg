SPECIFICATION Spec
CONSTANTS
    MAX_BUFFER_BYTES = 16
    MAX_BUFFER_DIMENSION = 2
    MAX_CHANNEL_COUNT = 2
    SIZE_MAX = 64
    Names = {x, y}
    Decls <- MCDecls
    MaxTransfers = 3
    ContentsBytes = {2, 8}
    ChunkOffsets = {0, 1, 2}
    ChunkCounts = {0, 1, 2}
    ChunkSizes = {0, 2, 4, 8}
    ValidLayouts = {"rgba", "bgra"}
    OOMNames = {y}
INVARIANTS TypeOK NeverMixed NoUnwrittenRow ShownIsDrawable
PROPERTIES DeliveredIffComplete NoRollback
CHECK_DEADLOCK FALSE
