SPECIFICATION FairSpec
CONSTANTS
    Requests = {r1, r2}
    MayStream = {r1}
    MaxConcurrent = 1
CHECK_DEADLOCK FALSE
INVARIANTS
    SlotsMatch
    WellFormed
    KeepaliveInside
PROPERTIES
    RequestEnds
