SPECIFICATION Spec
CONSTANTS
    c1 = c1  c2 = c2  c3 = c3  b1 = b1  b2 = b2
    Clients = {c1, c2}
    Callbacks = {b1, b2}
    MaxAttempts = 2
    Cap = 2
SYMMETRY Symmetry
INVARIANTS
    OnlyNewestClaimable
    SuccessIsDurable
PROPERTIES
    NewestWins
    StatusIsFinal
    CancelledNeverPublished
