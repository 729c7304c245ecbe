SPECIFICATION Spec
CONSTANTS
    c1 = c1
    c2 = c2
    Callers <- TwoCallers
    MaxTok = 2
    InService = FALSE
    Replies <- AnyReply
INVARIANTS
    OneExchange
    NoStaleOverwrite
SYMMETRY Symmetry
