SPECIFICATION FairSpec
CONSTANTS
    c1 = c1
    c2 = c2
    Callers <- OneCaller
    MaxTok = 2
    InService = TRUE
    Replies <- ConclusiveReplies
INVARIANTS
    UncertainNeverResent
    FenceCoversSpent
    RejectedStaysInvalid
    AlreadyLoggedInIsServed
PROPERTY
    GetReturns
