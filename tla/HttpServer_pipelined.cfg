SPECIFICATION Spec
CONSTANTS
    MaxChunks = 2
    Pipelining = TRUE
    NonBlocking = TRUE
INVARIANTS
    BrokenMeansPeerGone
CHECK_DEADLOCK FALSE
