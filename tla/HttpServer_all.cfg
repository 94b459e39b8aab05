SPECIFICATION FairSpec
CONSTANTS
    MaxChunks = 3
    Pipelining = TRUE
    NonBlocking = FALSE
INVARIANTS
    DeleteSafe
    OneReader
    EndsCleanly
PROPERTIES
    KeepAliveOnlyFramed
    PeerGoneFrees
    RequestServed
CHECK_DEADLOCK FALSE
