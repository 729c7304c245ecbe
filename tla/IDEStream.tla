------------------------------- MODULE IDEStream -------------------------------
(* The event stream of one upstream call: readIDEStream and the ideAccumulator *)
(* that merges its events into an answer and tells the client what each event  *)
(* adds.                                                                       *)
(*                                                                             *)
(* Text is a sequence of letters.  An event brings text and reasoning, either  *)
(* all there is so far (a snapshot) or what is new (a fragment), and records   *)
(* about tool calls.  A record says which call it is about by the call's id,   *)
(* by an index, by its place in a list, or not at all.  Its arguments are a    *)
(* piece to append, the whole value, or a snapshot.                            *)
(*                                                                             *)
(* An event's text is one action, each of its records another.  Left out:      *)
(* usage, the spelling of keys and events, and what only leads to an error     *)
(* (Fails).                                                                    *)
EXTENDS Integers, Sequences, SequencesExt

CONSTANTS
    Events,         \* the events the upstream may send
    MaxEvents,      \* bound: events of a stream
    Tools,          \* names of the request's tools
    EndNames,       \* tool names that mean the end of the answer
    Documents,      \* texts that are JSON
    EmptyObject,    \* "{}"
    OpenTag, CloseTag,  \* "<think>" and "</think>"
    MaxCalls,       \* calls an answer may have (128 in the code)
    Indices,        \* indices a record may give
    NoName, NoId, NoIndex

ASSUME StreamAssumption ==
    /\ MaxEvents \in Nat /\ MaxCalls \in Nat \ {0}
    /\ NoId = 0 /\ NoIndex = -1 /\ Indices \subseteq Nat
    /\ NoName \in STRING \ Tools
    /\ EmptyObject \in Documents /\ <<>> \notin Documents
    /\ Documents \subseteq Seq(STRING)
    /\ OpenTag \in Seq(STRING) \ {<<>>} /\ CloseTag \in Seq(STRING) \ {<<>>}

\* A record in an event, and one that has got its place.
Record == [id : Nat, index : Indices \cup {NoIndex}, name : STRING,
           how : {"none", "piece", "whole", "snapshot"}, args : Seq(STRING)]
PlacedRecord == [id : Nat, index : Indices \cup {NoIndex}, name : STRING,
                 how : {"none", "piece", "whole", "snapshot"}, args : Seq(STRING),
                 place : Indices \cup {NoIndex}]

ASSUME EventAssumption ==
    \A e \in Events :
        /\ e.text \in Seq(STRING) /\ e.reason \in Seq(STRING)
        /\ e.finish \in {"stop", "length", "content_filter"} /\ e.last \in BOOLEAN
        /\ e.calls \in Seq(Record)
        /\ Len(e.calls) > 1 => 0..Len(e.calls) - 1 \subseteq Indices

VARIABLES
    choice, parallel,   \* chatRequest.Choice, and whether Parallel allows several
    status,         \* "reading", "closing", "ok" or "failed"
    todo,           \* records left of the event
    terminal, lastCall, calls, byIndex, \* of ideAccumulator; byID is in calls
    content, reasoning, finish, answer, \* ideAccumulator.result; its ToolCalls
    minted,         \* ids made by newID
    told            \* the answer as the client puts it together from the deltas

\* History.
VARIABLES
    form,           \* how the upstream has addressed its calls so far; "any": no rule
    meant,          \* the answer as the upstream means it
    left            \* events the upstream may still send

requestVars == <<choice, parallel>>
resultVars == <<content, reasoning, finish, answer>>
callVars == <<calls, byIndex, lastCall, minted>>
streamVars == <<status, todo, terminal, callVars, resultVars, told, form, meant, left>>
vars == <<requestVars, streamVars>>

\* tool_choice as choiceName leaves it.
Modes == {"auto", "none", "required"}
ChoiceValues == {"auto", "none"} \cup Tools \cup (IF Tools = {} THEN {} ELSE {"required"})

Forms == {"id", "index", "place", "single"}
Nothing == [text |-> <<>>, reasoning |-> <<>>, calls |-> <<>>]

Init ==
    /\ choice \in ChoiceValues /\ parallel \in BOOLEAN
    /\ status = "reading" /\ todo = <<>> /\ terminal = FALSE
    /\ calls = <<>> /\ byIndex = [i \in Indices |-> 0] /\ lastCall = 0 /\ minted = 0
    /\ content = <<>> /\ reasoning = <<>> /\ finish = "stop" /\ answer = <<>>
    /\ told = Nothing /\ meant = Nothing
    /\ form \in Forms /\ left = MaxEvents

\* A new accumulator.
Reset ==
    /\ todo' = <<>> /\ terminal' = FALSE
    /\ calls' = <<>> /\ byIndex' = [i \in Indices |-> 0] /\ lastCall' = 0
    /\ content' = <<>> /\ reasoning' = <<>> /\ finish' = "stop" /\ answer' = <<>>
    /\ told' = Nothing /\ meant' = Nothing
    /\ UNCHANGED <<minted, left>>

-------------------------------------------------------------------------------
(* What the upstream means *)

\* Is one of the two a beginning of the other?
Comparable(s, t) == IsPrefix(s, t) \/ IsPrefix(t, s)
Longer(s, t) == IF Len(s) < Len(t) THEN t ELSE s

Means(old, how, piece) ==
    CASE how = "none" -> old
      [] how \in {"piece", "fragment"} -> old \o piece
      [] how = "whole" -> piece
      [] how = "snapshot" -> Longer(old, piece)

Sensible(old, how, piece) == how = "snapshot" => Comparable(old, piece)

\* Does a record follow the form?  An id that comes with an index is that of the index.
Follows(m) ==
    CASE form = "id" -> m.id # NoId
      [] form = "index" -> m.index # NoIndex /\ m.id \in {NoId, m.index + 1}
      [] form = "place" -> m.id = NoId /\ m.index = NoIndex /\ m.place # NoIndex
      [] form = "single" -> m.id = NoId /\ m.index = NoIndex /\ m.place = NoIndex
      [] OTHER -> FALSE

Key(m) ==
    CASE form = "id" -> m.id [] form = "index" -> m.index
      [] form = "place" -> m.place [] OTHER -> 0

\* A call is all the records with its key.
MeantBy(m) ==
    IF \E k \in DOMAIN meant.calls : meant.calls[k].key = Key(m)
    THEN CHOOSE k \in DOMAIN meant.calls : meant.calls[k].key = Key(m)
    ELSE Len(meant.calls) + 1

MeanCall(m) ==
    LET k == MeantBy(m)
        old == IF k \in DOMAIN meant.calls THEN meant.calls[k]
               ELSE [key |-> Key(m), name |-> NoName, args |-> <<>>]
        new == [old EXCEPT !.name = IF m.name = NoName THEN @ ELSE m.name,
                           !.args = Means(@, m.how, m.args)]
    IN  IF Follows(m) /\ Sensible(old.args, m.how, m.args)
        THEN /\ meant' = [meant EXCEPT !.calls = [j \in DOMAIN @ \cup {k} |->
                                                    IF j = k THEN new ELSE @[j]]]
             /\ UNCHANGED form
        ELSE form' = "any" /\ UNCHANGED meant

-------------------------------------------------------------------------------
(* The text *)

Suffix(s, t) == SubSeq(s, Len(t) + 1, Len(s))

\* Thinking inside tags, at the beginning of a text.  Without the closing tag it is all
\* the rest.
Tagged(t) == IsPrefix(OpenTag, t)
From(t, i) == SubSeq(t, i, Len(t))
Closings(t) == {i \in Len(OpenTag) + 1..Len(t) : IsPrefix(CloseTag, From(t, i))}
Cut(t) == IF Closings(t) = {} THEN Len(t) + 1 ELSE Min(Closings(t))

\* What frame makes of a text, and of its event's reasoning.
Plain(t) == IF Tagged(t) THEN From(t, Cut(t) + Len(CloseTag)) ELSE t
Thought(t, reason) == IF Tagged(t) THEN SubSeq(t, Len(OpenTag) + 1, Cut(t) - 1) ELSE reason

\* mergeSnapshot's first result: the merged text.
Merged(old, next) ==
    IF IsPrefix(next, old) THEN old
    ELSE IF IsPrefix(old, next) THEN next ELSE old \o next

\* (Mutation: a snapshot is sent as it is.)
AddedWhole(old, next) == IF IsPrefix(next, old) THEN <<>> ELSE next

\* Its second: what is added.
Added(old, next) ==
    IF IsPrefix(next, old) THEN <<>>
    ELSE IF IsPrefix(old, next) THEN Suffix(next, old) ELSE next

\* What the upstream has said, tags included.  Thinking in tags comes in snapshots, and
\* with no other reasoning.
MeanText(e) ==
    LET text == Means(meant.text, e.how, e.text)
        reason == Means(meant.reasoning, e.how, e.reason) IN
    IF /\ Sensible(meant.text, e.how, e.text) /\ Sensible(meant.reasoning, e.how, e.reason)
       /\ Tagged(text) \/ Tagged(e.text) => e.how = "snapshot" /\ reason = <<>>
    THEN /\ meant' = [meant EXCEPT !.text = text, !.reasoning = reason]
         /\ UNCHANGED form
    ELSE form' = "any" /\ UNCHANGED meant

\* extractCalls: in a list of several, the place stands in for a missing index.
Placed(ms) ==
    [i \in DOMAIN ms |-> [id |-> ms[i].id, index |-> ms[i].index, name |-> ms[i].name,
                          how |-> ms[i].how, args |-> ms[i].args,
                          place |-> IF Len(ms) > 1 THEN i - 1 ELSE NoIndex]]

\* frame, up to the calls.  After the terminal event, events follow only if no blank
\* line divides them from it.
Frame(e) ==
    /\ status = "reading" /\ todo = <<>> /\ left > 0
    /\ left' = left - 1
    /\ content' = Merged(content, Plain(e.text))
    /\ reasoning' = Merged(reasoning, Thought(e.text, e.reason))
    /\ told' = [told EXCEPT !.text = @ \o Added(content, Plain(e.text)),
                            !.reasoning = @ \o Added(reasoning, Thought(e.text, e.reason))]
    /\ finish' = IF e.finish = "stop" THEN finish ELSE e.finish
    /\ todo' = Placed(e.calls)
    /\ terminal' = (terminal \/ e.last)
    /\ MeanText(e)
    /\ UNCHANGED <<requestVars, status, callVars, answer>>

-------------------------------------------------------------------------------
(* The tool calls *)

\* A tool of the upstream's own, which ends the answer.
Ignored(m) == m.name \in EndNames \ Tools

Index(m) == IF m.index # NoIndex THEN m.index ELSE m.place
ByID(m) ==
    IF m.id # NoId /\ \E s \in DOMAIN calls : calls[s].id = m.id
    THEN CHOOSE s \in DOMAIN calls : calls[s].id = m.id ELSE 0
ByIndex(m) == IF Index(m) # NoIndex THEN byIndex[Index(m)] ELSE 0

\* The id and the index name different calls, or the call of this index has another id.
Misaddressed(m) ==
    /\ ByIndex(m) # 0
    /\ IF ByID(m) # 0 THEN ByID(m) # ByIndex(m) ELSE m.id # NoId

\* (Mutation: a record without an id is about the last call.)
SlotLast(m) ==
    IF ByID(m) # 0 THEN ByID(m)
    ELSE IF ByIndex(m) # 0 THEN ByIndex(m)
    ELSE IF m.id = NoId THEN lastCall ELSE 0

\* The call a record is about; 0 is a new one.  Without an address it is the last one.
Slot(m) ==
    IF ByID(m) # 0 THEN ByID(m)
    ELSE IF ByIndex(m) # 0 THEN ByIndex(m)
    ELSE IF m.id = NoId /\ Index(m) = NoIndex THEN lastCall ELSE 0

\* (Mutation: a missing id is made from the place in the answer.)
NewCallCounted(m) ==
    [id |-> IF m.id = NoId THEN -(Len(calls) + 1) ELSE m.id, name |-> NoName,
     args |-> <<>>, sent |-> FALSE, sentArgs |-> <<>>]

NewCall(m) ==
    [id |-> IF m.id = NoId THEN -(minted + 1) ELSE m.id, name |-> NoName,
     args |-> <<>>, sent |-> FALSE, sentArgs |-> <<>>]
Old(m) == IF Slot(m) = 0 THEN NewCall(m) ELSE calls[Slot(m)]

Arguments(old, m) ==
    CASE m.how = "none" -> old
      [] m.how = "piece" -> old \o m.args
      [] m.how = "whole" -> m.args
      [] m.how = "snapshot" -> Merged(old, m.args)

Updated(m) ==
    [Old(m) EXCEPT !.name = IF m.name = NoName THEN @ ELSE m.name,
                   !.args = Arguments(@, m)]

\* (Mutation: of the choices only "none" is looked at.)
AvailableAny(name) == name \in Tools /\ choice # "none"

Available(name) ==
    /\ name \in Tools /\ choice # "none"
    /\ choice \in {"auto", "required", name}

\* Everything addCall accepts.  The client hears of a call once it has a name.
Acceptable(m) ==
    LET c == Updated(m) IN
    /\ ~Misaddressed(m)
    /\ Slot(m) = 0 => Len(calls) < MaxCalls
    /\ m.name # NoName => Old(m).name \in {NoName, m.name}
    /\ c.name # NoName =>
        /\ Available(c.name)
        /\ parallel \/ Len(calls) + (IF Slot(m) = 0 THEN 1 ELSE 0) <= 1
        /\ IsPrefix(c.sentArgs, c.args)

\* The call with this in its slot, or appended.
Put(s, c) == [j \in DOMAIN calls \cup {s} |-> IF j = s THEN c ELSE calls[j]]

Sent(c) == [c EXCEPT !.sent = TRUE, !.sentArgs = c.args]

\* The client's view after the delta for call c in slot s.
Heard(s, c) ==
    [j \in DOMAIN told.calls \cup {s} |->
        IF j # s THEN told.calls[j]
        ELSE IF c.sent
             THEN [told.calls[j] EXCEPT !.args = @ \o Suffix(c.args, c.sentArgs)]
             ELSE [id |-> c.id, name |-> c.name, args |-> c.args]]

AddCall ==
    /\ status = "reading" /\ todo # <<>>
    /\ LET m == Head(todo)
           s == IF Slot(m) = 0 THEN Len(calls) + 1 ELSE Slot(m)
           c == Updated(m) IN
        /\ ~Ignored(m) /\ Acceptable(m)
        /\ calls' = Put(s, IF c.name = NoName THEN c ELSE Sent(c))
        /\ byIndex' = IF Index(m) = NoIndex THEN byIndex ELSE [byIndex EXCEPT ![Index(m)] = s]
        /\ lastCall' = s
        /\ minted' = IF Slot(m) = 0 /\ m.id = NoId THEN minted + 1 ELSE minted
        /\ told' = IF c.name = NoName THEN told ELSE [told EXCEPT !.calls = Heard(s, c)]
        /\ MeanCall(m)
    /\ todo' = Tail(todo)
    /\ UNCHANGED <<requestVars, status, terminal, resultVars, left>>

IgnoreCall ==
    /\ status = "reading" /\ todo # <<>>
    /\ Ignored(Head(todo))
    /\ todo' = Tail(todo)
    /\ UNCHANGED <<requestVars, status, terminal, callVars, resultVars, told, form, meant, left>>

-------------------------------------------------------------------------------
(* The end *)

Close ==
    /\ status = "reading" /\ todo = <<>> /\ terminal
    /\ status' = "closing"
    /\ UNCHANGED <<requestVars, todo, terminal, callVars, resultVars, told, form, meant, left>>

\* Each call must have a name and arguments; none at all are the empty object.
CloseCall ==
    /\ status = "closing" /\ Len(answer) < Len(calls)
    /\ LET s == Len(answer) + 1
           c == calls[s]
           args == IF c.args = <<>> THEN EmptyObject ELSE c.args IN
        /\ c.sent /\ args \in Documents
        /\ answer' = Append(answer, [id |-> c.id, name |-> c.name, args |-> args])
        /\ told' = IF c.args # <<>> THEN told
                   ELSE [told EXCEPT !.calls[s].args = @ \o EmptyObject]
    /\ UNCHANGED <<requestVars, status, todo, terminal, callVars, content, reasoning, finish,
                   form, meant, left>>

\* A choice other than these two asks for a call.
Required == choice \notin {"auto", "none"}

Complete ==
    /\ status = "closing" /\ Len(answer) = Len(calls)
    /\ calls = <<>> => ~Required
    /\ content # <<>> \/ reasoning # <<>> \/ calls # <<>>
    /\ finish' = IF calls # <<>> THEN "tool_calls" ELSE finish
    /\ status' = "ok"
    /\ UNCHANGED <<requestVars, todo, terminal, callVars, content, reasoning, answer, told,
                   form, meant, left>>

\* An error event or code, a read or parse error, a record or call that is not
\* accepted, a stream without a terminal event, a client that is gone, or a limit:
\* the accumulator is dropped.
Fails ==
    /\ status \in {"reading", "closing"}
    /\ status' = "failed" /\ form' = "any"
    /\ Reset
    /\ UNCHANGED requestVars

StreamNext ==
    \/ \E e \in Events : Frame(e)
    \/ AddCall \/ IgnoreCall
    \/ Close \/ CloseCall \/ Complete
    \/ Fails

Spec == Init /\ [][StreamNext]_vars

-------------------------------------------------------------------------------
(* Properties *)

Call == [id : Int, name : STRING, args : Seq(STRING), sent : BOOLEAN, sentArgs : Seq(STRING)]
AnswerCall == [id : Int, name : STRING, args : Documents]

TypeOK ==
    /\ choice \in ChoiceValues /\ parallel \in BOOLEAN
    /\ status \in {"reading", "closing", "ok", "failed"}
    /\ todo \in Seq(PlacedRecord) /\ terminal \in BOOLEAN
    /\ calls \in Seq(Call)
    /\ lastCall \in 0..Len(calls) /\ byIndex \in [Indices -> 0..Len(calls)]
    /\ minted \in Nat /\ left \in 0..MaxEvents
    /\ content \in Seq(STRING) /\ reasoning \in Seq(STRING)
    /\ finish \in {"stop", "length", "content_filter", "tool_calls"}
    /\ answer \in Seq(AnswerCall)
    /\ Len(answer) <= Len(calls) /\ Len(calls) <= MaxCalls

\* A client that puts the deltas together has the same text and reasoning at every
\* moment, and in the end the same calls, as a client that did not ask for a stream.
DeltasAddUp ==
    /\ told.text = content /\ told.reasoning = reasoning
    /\ status = "ok" => told.calls = answer

\* What is accepted as an answer is one the request allows, can be executed, and can
\* be told apart: tools, arguments, ids, number of calls and reason to finish.  (A choice
\* that names a tool "auto" is taken for the mode.)
AnswerAsAsked ==
    status = "ok" =>
        /\ \A k \in DOMAIN answer : answer[k].name \in Tools /\ answer[k].args \in Documents
        /\ \A j, k \in DOMAIN answer : answer[j].id = answer[k].id => j = k
        /\ choice \notin Modes => \A k \in DOMAIN answer : answer[k].name = choice
        /\ choice = "none" => answer = <<>>
        /\ Required => answer # <<>>
        /\ ~parallel => Len(answer) <= 1
        /\ finish = "tool_calls" <=> answer # <<>>

\* If the upstream keeps to one way of addressing its calls, the answer is what it
\* meant: the text without the thinking in tags, the reasoning, and every call once, in
\* order, with its own name and arguments.
AnswerIsMeant ==
    status = "ok" /\ form # "any" =>
        /\ content = Plain(meant.text) /\ reasoning = Thought(meant.text, meant.reasoning)
        /\ Len(answer) = Len(meant.calls)
        /\ \A k \in DOMAIN answer :
            /\ answer[k].name = meant.calls[k].name
            /\ answer[k].args = IF meant.calls[k].args = <<>> THEN EmptyObject
                                ELSE meant.calls[k].args
===============================================================================
