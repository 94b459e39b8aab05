SPECIFICATION FairSpec
CONSTANTS
    Pool = {t1, t2}
    HoldsWork = FALSE
    MaxStarts = 1
    MaxPosts = 0
PROPERTIES
    StopReturns
CHECK_DEADLOCK FALSE
