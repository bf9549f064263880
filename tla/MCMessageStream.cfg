SPECIFICATION Spec
CONSTANTS
    Base = 16
    MAX_STRING_BYTES = 2
    MAX_BUFFER_BYTES = 2
    INT_MAX = 7
    ToViewer <- MCToViewer
    ToBridge <- MCToBridge
    MaxMessages = 2
    MaxStalls = 1
PROPERTIES FifoUntilDesynced EveryMessageRead
CHECK_DEADLOCK FALSE
