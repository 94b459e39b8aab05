SPECIFICATION FairSpec
CONSTANTS
    RtmpModes = {"async", "sync"}
    RtmpCalls = {"play", "publish"}
    RtmpStrays = {"asking", "other"}
    AckEvery = 3
    MmspModes = {"async", "sync"}
    MmspStrays = {"ping", "stream"}
    MaxStrays = 1
    Blocks = {"request"}
    Attempts = 2
    Again = FALSE
    CloseWhen = {"idle", "calling"}
    TickWhen = {}
    MaxRequests = 3
    Hosts = {"a"}
    NoHost = "nohost"
    Pipelining = TRUE
    ServerCloses = TRUE
    Unframed = FALSE
    NDEBUG = TRUE
    MaxAsked = 2
    MaxPosts = 1
    PostAfterError = FALSE
    PeerStalls = FALSE
    StopOnError = FALSE
    Ports = 8
    Queue = 2
    MaxReads = 2
    NonBlock = {TRUE, FALSE}
    ServerPasses = "in"
    Absent = Absent
INVARIANTS
    RequestsInTurn
    SessionsSafe
PROPERTIES
    CallsEnd
    SessionsEnd
    ReadersServed
CHECK_DEADLOCK FALSE
