SPECIFICATION Spec
CONSTANTS
    MaxPosts = 2
    Users <- Keeping
    EarlyClose = FALSE
INVARIANTS
    SetSourceFindsNone
CHECK_DEADLOCK FALSE
