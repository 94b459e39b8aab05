SPECIFICATION FairSpec
CONSTANTS
    Radix = 2
    Heads <- FewHeads
    Messages = 2
    Body = 2
    WireSize = 3
    MaxRead = 2
    MaxWrite = 2
    SyncGzip = FALSE
    Written = 4
    MaxCall = 2
    Throws <- OnlyTheFirst
    Garbage = {TRUE}
    Absent = Absent
    Length = 3
    MaxWritten = 3
    Begins <- FromAnywhere
    Shapes <- ShortAndLong
    Protocols <- Registered
    Bounded = {"http"}
    MaxBehind = 1
    Oddities = {}
    Handles = {h1, h2}
    Objects = {1, 2, 3}
    Blocks <- OneAndTwo
    MaxBlocks = 2
    Early = FALSE
INVARIANTS
    BodyEndsExactly
    UrlInPlace
    HeldIsKept
PROPERTIES
    Ends
CHECK_DEADLOCK FALSE
