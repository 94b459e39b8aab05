SPECIFICATION FairSpec
CONSTANTS
    Pool = {t1, t2, t3}
    HoldsWork = TRUE
    MaxStarts = 4
    MaxPosts = 3
INVARIANTS
    AtRest
PROPERTIES
    StartReturns
    StopsEnd
CHECK_DEADLOCK FALSE
