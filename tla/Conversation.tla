----------------------------- MODULE Conversation ------------------------------
(* A conversation over several requests.  The gateway keeps no state between   *)
(* them: the client sends the whole history each time, with the answers it got *)
(* (IDEStream) and a result for each of their tool calls.  validateToolHistory *)
(* judges the history, and buildRoutedIDEBody gives a result without a name    *)
(* the name of its call.  A client may also send histories that no gateway has *)
(* produced.                                                                   *)
EXTENDS IDEStream, FiniteSets

CONSTANTS
    Strange,        \* messages of histories from elsewhere
    OwnNames,       \* names a client may give to its results, or NoName
    MaxMessages     \* bound: messages of a history

Roles == {"user", "assistant", "tool"}
HistoryCall == [id : Int, name : STRING] \cup AnswerCall
Message == [role : Roles, calls : Seq(HistoryCall), id : Int, name : STRING]

\* validateRequest lets no message but an assistant's have calls.
ASSUME StrangeAssumption ==
    \A m \in Strange : m \in Message /\ (m.role # "assistant" => m.calls = <<>>)
ASSUME NameAssumption == OwnNames \subseteq STRING

VARIABLES
    history,        \* chatRequest.Messages of the next request
    honest,         \* the history is what really happened
    phase           \* "compose" or "stream"

chatVars == <<history, honest, phase>>
allVars == <<vars, chatVars>>

User == [role |-> "user", calls |-> <<>>, id |-> NoId, name |-> NoName]
Result(id, name) == [role |-> "tool", calls |-> <<>>, id |-> id, name |-> name]
Assistant(calls_) == [role |-> "assistant", calls |-> calls_, id |-> NoId, name |-> NoName]

Ids(m) == {m.calls[k].id : k \in DOMAIN m.calls}

-------------------------------------------------------------------------------
(* validateToolHistory *)

Clean == [ok |-> TRUE, pending |-> {}, seen |-> {}]

TakeResult(v, m) ==
    IF m.id \in v.pending THEN [v EXCEPT !.pending = @ \ {m.id}] ELSE [v EXCEPT !.ok = FALSE]

\* (Mutation: a repeated id is looked for in the same message only.)
RepeatsInMessage(v, m) == Cardinality(Ids(m)) < Len(m.calls)

\* Does an id come a second time, in this message or since an earlier one?
Repeats(v, m) == Cardinality(Ids(m)) < Len(m.calls) \/ Ids(m) \cap v.seen # {}

TakeOther(v, m) ==
    IF v.pending # {} \/ Repeats(v, m) THEN [v EXCEPT !.ok = FALSE]
    ELSE [v EXCEPT !.pending = Ids(m), !.seen = @ \cup Ids(m)]

\* After a first error the function has returned.
Judge(v, m) ==
    IF ~v.ok THEN v
    ELSE IF m.role = "tool" THEN TakeResult(v, m) ELSE TakeOther(v, m)

\* The loop over the messages.
Verdict(ms) ==
    LET v[i \in 0..Len(ms)] == IF i = 0 THEN Clean ELSE Judge(v[i - 1], ms[i])
    IN  v[Len(ms)]

Accepted(ms) == Verdict(ms).ok /\ Verdict(ms).pending = {}

\* (Mutation: only the first call of a message is entered.)
CallNameOfFirst(ms, id) ==
    LET named == {i \in DOMAIN ms : id \in Ids(ms[i])}
    IN  ms[CHOOSE i \in named : \A j \in named : j <= i].calls[1].name

\* buildRoutedIDEBody: the map from ids to names, a later entry in place of an earlier.
CallName(ms, id) ==
    LET named == {i \in DOMAIN ms : id \in Ids(ms[i])}
        m == ms[CHOOSE i \in named : \A j \in named : j <= i]
        places == {k \in DOMAIN m.calls : m.calls[k].id = id}
    IN  m.calls[CHOOSE k \in places : \A j \in places : j <= k].name

\* The name that the upstream is told for a result: its own, or that of its call.
NameOf(ms, m) == IF m.name # NoName THEN m.name ELSE CallName(ms, m.id)

-------------------------------------------------------------------------------
(* The client *)

\* Between requests; the values do not matter.
NoRequest == status' = "reading" /\ choice' = "auto" /\ parallel' = TRUE /\ form' = "id"

ChatInit ==
    /\ Init /\ choice = "auto" /\ parallel /\ form = "id"
    /\ history = <<User>> /\ honest = TRUE /\ phase = "compose"

Extend(m) ==
    /\ phase = "compose" /\ Len(history) < MaxMessages
    /\ history' = Append(history, m)
    /\ UNCHANGED <<vars, phase>>

\* The next result, or when there is none to give, the user's next message.
GoOn ==
    /\ honest
    /\ \/ \E id \in Verdict(history).pending, name \in OwnNames : Extend(Result(id, name))
       \/ Verdict(history).pending = {} /\ Last(history).role # "user" /\ Extend(User)
    /\ UNCHANGED honest

Invent ==
    /\ Len(history) = 1 \/ ~honest
    /\ \E m \in Strange : Extend(m)
    /\ honest' = FALSE

\* validateToolHistory lets the request pass: its stream begins.
Submit ==
    /\ phase = "compose" /\ honest /\ Accepted(history) /\ Last(history).role # "assistant"
    /\ Len(history) < MaxMessages
    /\ phase' = "stream" /\ status' = "reading"
    /\ choice' \in ChoiceValues /\ parallel' \in BOOLEAN
    /\ form' \in Forms
    /\ Reset
    /\ UNCHANGED <<history, honest>>

\* The client has the answer; after an error it may ask again.
Receive ==
    /\ phase = "stream" /\ status \in {"ok", "failed"}
    /\ phase' = "compose"
    /\ IF status = "ok"
       THEN history' = Append(history, Assistant(answer))
       ELSE UNCHANGED history
    /\ NoRequest /\ Reset
    /\ UNCHANGED honest

Streaming == phase = "stream" /\ StreamNext /\ UNCHANGED chatVars

ChatNext == GoOn \/ Invent \/ Submit \/ Receive \/ Streaming

ChatSpec == ChatInit /\ [][ChatNext]_allVars

-------------------------------------------------------------------------------
(* Properties *)

\* The message a result belongs to: the last one before it that is not a result.
Asking(ms, i) ==
    CHOOSE j \in 0..i - 1 :
        /\ j = 0 \/ ms[j].role # "tool"
        /\ \A k \in j + 1..i - 1 : ms[k].role = "tool"

\* Every call has an id of its own, and exactly one result, which comes before the
\* next message that is not a result.
WellAnswered(ms) ==
    /\ \A i, j \in DOMAIN ms : \A k \in DOMAIN ms[i].calls, n \in DOMAIN ms[j].calls :
        ms[i].calls[k].id = ms[j].calls[n].id => i = j /\ k = n
    /\ \A i \in DOMAIN ms : ms[i].role = "tool" =>
        Asking(ms, i) # 0 /\ ms[i].id \in Ids(ms[Asking(ms, i)])
    /\ \A i \in DOMAIN ms : \A id \in Ids(ms[i]) :
        Cardinality({j \in DOMAIN ms : ms[j].role = "tool" /\ ms[j].id = id}) = 1

\* Exactly the well answered histories are accepted.
HistoryJudged == phase = "compose" => (Accepted(history) <=> WellAnswered(history))

\* In an accepted history, the upstream is told for each result the name that the client
\* gives it, and for one without a name the name of the call it answers: never that of
\* another call.
ResultsNamed ==
    phase = "compose" /\ Accepted(history) =>
        \A i \in DOMAIN history : history[i].role = "tool" =>
            LET asked == history[Asking(history, i)].calls
                told_ == NameOf(history, history[i]) IN
            \E k \in DOMAIN asked :
                /\ asked[k].id = history[i].id
                /\ told_ = IF history[i].name = NoName THEN asked[k].name ELSE history[i].name

\* What the upstream must do: use no id in two answers.
IdsUsedOnce ==
    \A i, j \in DOMAIN history : i # j =>
        \A id \in Ids(history[i]) \cap Ids(history[j]) : id < 0

\* What the gateway has answered, with the results, it accepts as the history of the
\* next request, unless the upstream uses an id again.
RoundTrip ==
    phase = "compose" /\ honest /\ IdsUsedOnce => Verdict(history).ok
===============================================================================
