SPECIFICATION FairSpec
CONSTANTS
    c1 = c1  c2 = c2  c3 = c3  b1 = b1  b2 = b2
    Clients = {c1, c2}
    Callbacks = {b1}
    MaxAttempts = 2
    Cap = 1
INVARIANTS
    ResultsBounded
PROPERTIES
    CallbackSettles
    LoginEnds
