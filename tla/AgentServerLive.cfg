SPECIFICATION Spec
CONSTANTS
    Conns = {c1, c2}
    MAX_CLIENTS = 2
    Inputs = {"part", "hello"}
    MayStop = TRUE
PROPERTIES StopReturns RequestAnswered SilentPeerFreed
CHECK_DEADLOCK FALSE
