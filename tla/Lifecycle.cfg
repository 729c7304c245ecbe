SPECIFICATION FairSpec
CONSTANTS
    MaxHandlers = 2
CHECK_DEADLOCK FALSE
INVARIANTS
    WriterHoldsLock
    NothingLeft
    SuccessIsGraceful
PROPERTIES
    SignalStops
    FailureStops
