SPECIFICATION FairSpecAll
CONSTANTS
    MaxPosts = 3
    Users <- PipelinedOrNot
    EarlyClose = FALSE
    Pollers <- PollsEither
INVARIANTS
    
    BuffersAreExclusive
    AssertsHold
PROPERTIES
    EachIsAnswered
    PollsGoOn
CHECK_DEADLOCK FALSE
