SPECIFICATION ChatSpec
CONSTANTS
    Events <- MCEvents
    MaxEvents = 3
    Tools = {"f", "g"}
    EndNames = {"done"}
    Documents <- Json
    EmptyObject <- object
    OpenTag <- openTag
    CloseTag <- closeTag
    MaxCalls = 2
    Strange <- MCStrange
    OwnNames = {""}
    MaxMessages = 5
    Indices = {0, 1}
    NoName = ""
    NoId = 0
    NoIndex <- minusOne
CHECK_DEADLOCK FALSE
INVARIANTS
    DeltasAddUp
    AnswerAsAsked
    AnswerIsMeant
    HistoryJudged
    ResultsNamed
    RoundTrip
