SPECIFICATION Spec
SYMMETRY ConnSymmetry
CONSTANTS
    Conns = {c1, c2, c3}
    MAX_CLIENTS = 2
    Inputs = {"part", "hello", "bad_hello", "method", "garbage"}
    MayStop = TRUE
INVARIANTS RequestOwned DeadlineSparesGreeted NoLostWake
CHECK_DEADLOCK FALSE
