SPECIFICATION FairSpec
CONSTANTS
    MaxMessages = 3
    MaxWrites = 1
    Parallel = {"sync"}
    SwitchAnyTime = FALSE
    Flows <- FewFlows
    Kinds <- FewKinds
    ChunkSizes = {3}
    MaxSent = 3
    MaxTime = 1
    Limit = 4
    Wrap = 16
    Backwards = FALSE
    Resent = FALSE
    SizeAnyTime = FALSE
    Sums = {0, 727, 1020}
    Attempts = 2
    ReconnectFrom = {"closed"}
    Absent = Absent
INVARIANTS
    ReadersKeepOrder
    RtmpAgrees
PROPERTIES
    EveryMessageGiven
CHECK_DEADLOCK FALSE
