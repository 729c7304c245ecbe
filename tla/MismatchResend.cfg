SPECIFICATION Spec
CONSTANTS
    c1 = c1
    c2 = c2
    Callers <- OneCaller
    MaxTok = 2
    InService = TRUE
    Replies <- AnyReply
INVARIANT UncertainNeverResent
