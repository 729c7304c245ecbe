---------------------------- MODULE IDEStreamProofs ----------------------------
(* Theorems about IDEStream, for any events, any tools and any number of calls. *)
EXTENDS IDEStream, SequenceTheorems, NaturalsInduction, WellFoundedInduction, TLAPS

-------------------------------------------------------------------------------
(* Merging text *)

LEMMA SuffixType ==
    ASSUME NEW s \in Seq(STRING), NEW t \in Seq(STRING)
    PROVE  Suffix(s, t) \in Seq(STRING)
<1>1. \A i \in Len(t) + 1..Len(s) : s[i] \in STRING
  BY LenProperties, ElementOfSeq
<1> QED
  BY <1>1, LenProperties, SubSeqProperties DEF Suffix

\* What is left of a text, put behind a beginning of it, gives the text.
LEMMA SuffixCompletes ==
    ASSUME NEW s \in Seq(STRING), NEW t \in Seq(STRING), IsPrefix(t, s)
    PROVE  t \o Suffix(s, t) = s
<1>1. Len(s) \in Nat /\ Len(t) \in Nat /\ Len(t) <= Len(s)
  BY LenProperties DEF IsPrefix
<1>2. t = SubSeq(s, 1, Len(t))
  BY SubSeqFull DEF IsPrefix
<1>3. SubSeq(s, 1, Len(t)) \o SubSeq(s, Len(t) + 1, Len(s)) = SubSeq(s, 1, Len(s))
  <2>1. 1 \in 1..Len(s) + 1 /\ Len(t) \in 1 - 1..Len(s) /\ Len(s) \in Len(t)..Len(s)
    BY <1>1
  <2> QED
    BY <2>1, ConcatAdjacentSubSeq
<1> QED
  BY <1>2, <1>3, SubSeqFull DEF Suffix

LEMMA MergeAdds ==
    ASSUME NEW old \in Seq(STRING), NEW next \in Seq(STRING)
    PROVE  /\ Merged(old, next) \in Seq(STRING)
           /\ old \o Added(old, next) = Merged(old, next)
<1>1. CASE IsPrefix(next, old)
  BY <1>1, ConcatEmptySeq DEF Merged, Added
<1>2. CASE ~IsPrefix(next, old) /\ IsPrefix(old, next)
  BY <1>2, SuffixCompletes DEF Merged, Added
<1>3. CASE ~IsPrefix(next, old) /\ ~IsPrefix(old, next)
  BY <1>3, ConcatProperties DEF Merged, Added
<1> QED
  BY <1>1, <1>2, <1>3

-------------------------------------------------------------------------------
(* Thinking in tags *)

LEMMA LeastNumber ==
    ASSUME NEW S \in SUBSET Nat, S # {}
    PROVE  \E i \in S : \A j \in S : i <= j
<1>1. PICK i \in S : \A j \in S : <<j, i>> \notin OpToRel(<, Nat)
  BY NatLessThanWellFounded, WFMin
<1>2. \A j \in S : ~(j < i)
  BY <1>1 DEF OpToRel
<1> QED
  BY <1>2

\* A piece of a text, letter by letter.
LEMMA PieceIs ==
    ASSUME NEW s \in Seq(STRING), NEW m \in Nat \ {0}, NEW n \in Int, n <= Len(s)
    PROVE  /\ SubSeq(s, m, n) \in Seq(STRING)
           /\ Len(SubSeq(s, m, n)) = IF m <= n THEN n - m + 1 ELSE 0
           /\ \A i \in 1..n - m + 1 : SubSeq(s, m, n)[i] = s[m + i - 1]
<1>1. Len(s) \in Nat
  BY LenProperties
<1>2. \A i \in m..n : s[i] \in STRING
  BY <1>1, ElementOfSeq
<1> QED
  BY <1>2, SubSeqProperties

LEMMA PrefixIs ==
    ASSUME NEW s \in Seq(STRING), NEW t \in Seq(STRING)
    PROVE  IsPrefix(s, t) <=> Len(s) <= Len(t) /\ \A i \in 1..Len(s) : s[i] = t[i]
<1> SUFFICES ASSUME Len(s) <= Len(t)
             PROVE  s = SubSeq(t, 1, Len(s)) <=> \A i \in 1..Len(s) : s[i] = t[i]
  BY SubSeqFull DEF IsPrefix
<1>1. Len(s) \in Nat /\ Len(t) \in Nat
  BY LenProperties
<1> DEFINE p == SubSeq(t, 1, Len(s))
<1>2. /\ p \in Seq(STRING) /\ Len(p) = Len(s)
      /\ \A i \in 1..Len(s) : p[i] = t[i]
  BY <1>1, PieceIs
<1> HIDE DEF p
<1>3. (\A i \in 1..Len(s) : s[i] = p[i]) => s = p
  BY <1>2, SeqEqual
<1> QED
  BY <1>2, <1>3 DEF p

\* A text stands in another at i.
LEMMA StandsAt ==
    ASSUME NEW s \in Seq(STRING), NEW t \in Seq(STRING), NEW i \in 1..Len(t)
    PROVE  IsPrefix(s, From(t, i)) <=>
             i + Len(s) - 1 <= Len(t) /\ \A k \in 1..Len(s) : s[k] = t[i + k - 1]
<1>1. Len(s) \in Nat /\ Len(t) \in Nat
  BY LenProperties
<1>2. /\ From(t, i) \in Seq(STRING) /\ Len(From(t, i)) = Len(t) - i + 1
      /\ \A k \in 1..Len(t) - i + 1 : From(t, i)[k] = t[i + k - 1]
  BY <1>1, PieceIs DEF From
<1> QED
  BY <1>1, <1>2, PrefixIs

\* The first closing tag, or the end of the text.
LEMMA CutIs ==
    ASSUME NEW t \in Seq(STRING)
    PROVE  /\ Cut(t) \in Nat \ {0} /\ Cut(t) <= Len(t) + 1
           /\ Closings(t) = {} => Cut(t) = Len(t) + 1
           /\ Closings(t) # {} => /\ Cut(t) \in Closings(t)
                                 /\ \A i \in Closings(t) : Cut(t) <= i
<1>1. Len(t) \in Nat /\ Len(OpenTag) \in Nat
  BY LenProperties, StreamAssumption
<1>2. \A i \in Closings(t) : i \in Nat \ {0} /\ i <= Len(t)
  BY <1>1 DEF Closings
<1>3. CASE Closings(t) = {}
  BY <1>1, <1>3 DEF Cut
<1>4. CASE Closings(t) # {}
  <2>3. Closings(t) \in SUBSET Nat
    BY <1>2
  <2>1. PICK i \in Closings(t) : \A j \in Closings(t) : i <= j
    BY <1>4, <2>3, LeastNumber
  <2>2. Cut(t) \in Closings(t) /\ \A j \in Closings(t) : Cut(t) <= j
    BY <1>4, <2>1 DEF Cut, Min
  <2> QED
    BY <1>1, <1>2, <1>4, <2>2
<1> QED
  BY <1>3, <1>4

LEMMA PartsType ==
    ASSUME NEW t \in Seq(STRING), NEW reason \in Seq(STRING)
    PROVE  Plain(t) \in Seq(STRING) /\ Thought(t, reason) \in Seq(STRING)
<1>1. /\ Cut(t) \in Nat \ {0} /\ Cut(t) - 1 \in Int /\ Cut(t) - 1 <= Len(t)
      /\ Len(t) \in Nat /\ Len(OpenTag) + 1 \in Nat \ {0}
      /\ Cut(t) + Len(CloseTag) \in Nat \ {0}
  <2>1. Len(t) \in Nat /\ Len(OpenTag) \in Nat /\ Len(CloseTag) \in Nat
    BY LenProperties, StreamAssumption
  <2>2. Cut(t) \in Nat \ {0} /\ Cut(t) <= Len(t) + 1
    BY CutIs
  <2> QED
    BY <2>1, <2>2
<1>2. /\ SubSeq(t, Cut(t) + Len(CloseTag), Len(t)) \in Seq(STRING)
      /\ SubSeq(t, Len(OpenTag) + 1, Cut(t) - 1) \in Seq(STRING)
  BY <1>1, PieceIs
<1> QED
  BY <1>2 DEF Plain, Thought, From

-------------------------------------------------------------------------------
(* The inductive invariant, in parts *)

\* What the client will have as the arguments of call k in the end.
Final(k) == IF calls[k].args = <<>> THEN EmptyObject ELSE calls[k].args

\* The client has the text, and of every call that has been sent all there is.
ToldInv ==
    told = [text |-> content, reasoning |-> reasoning,
            calls |-> [s \in {t \in DOMAIN calls : calls[t].sent} |->
                          [id |-> calls[s].id, name |-> calls[s].name,
                           args |-> IF s <= Len(answer) THEN Final(s) ELSE calls[s].args]]]

\* A call is sent with its name, which has been checked.
CallsInv ==
    \A s \in DOMAIN calls :
        /\ calls[s].sent <=> calls[s].name # NoName
        /\ calls[s].sent => calls[s].sentArgs = calls[s].args /\ Available(calls[s].name)
        /\ calls[s].sent /\ ~parallel => s = 1

\* The ids made here are negative and those of the upstream are not.
IdsInv ==
    /\ \A s \in DOMAIN calls : calls[s].id >= -minted
    /\ \A s, t \in DOMAIN calls : calls[s].id = calls[t].id => s = t

AnswerInv ==
    \A k \in DOMAIN answer :
        /\ calls[k].sent
        /\ answer[k] = [id |-> calls[k].id, name |-> calls[k].name, args |-> Final(k)]

EndInv ==
    /\ status \in {"reading", "failed"} => answer = <<>>
    /\ status # "ok" => finish # "tool_calls"
    /\ status = "ok" =>
        /\ Len(answer) = Len(calls)
        /\ calls = <<>> => ~Required
        /\ finish = "tool_calls" <=> calls # <<>>

IInv == TypeOK /\ ToldInv /\ CallsInv /\ IdsInv /\ AnswerInv /\ EndInv

-------------------------------------------------------------------------------
(* The start, and the steps without a call *)

LEMMA EmptyType ==
    /\ <<>> \in Seq(PlacedRecord) /\ <<>> \in Seq(Call) /\ <<>> \in Seq(AnswerCall)
    /\ <<>> \in Seq(STRING) /\ Len(<<>>) = 0
    /\ [i \in Indices |-> 0] \in [Indices -> 0..0]
<1>1. [i \in Indices |-> 0] \in [Indices -> 0..0]
  OBVIOUS
<1> QED
  BY <1>1, EmptySeq

\* A new accumulator satisfies the invariant, in whatever state the request is.
LEMMA ResetInv ==
    ASSUME choice' \in ChoiceValues, parallel' \in BOOLEAN,
           status' \in {"reading", "failed"}, minted \in Nat, left \in 0..MaxEvents, Reset
    PROVE  IInv'
<1>1. calls' = <<>> /\ answer' = <<>> /\ DOMAIN calls' = {} /\ DOMAIN answer' = {}
  BY DEF Reset
<1>2. TypeOK'
  <2>1. todo' \in Seq(PlacedRecord) /\ calls' \in Seq(Call) /\ answer' \in Seq(AnswerCall)
        /\ content' \in Seq(STRING) /\ reasoning' \in Seq(STRING)
    BY EmptyType DEF Reset
  <2>2. Len(calls') = 0 /\ Len(answer') = 0
    BY <1>1, EmptyType
  <2>3. lastCall' \in 0..Len(calls') /\ byIndex' \in [Indices -> 0..Len(calls')]
    BY <2>2, EmptyType DEF Reset
  <2>4. minted' \in Nat /\ left' \in 0..MaxEvents /\ Len(calls') <= MaxCalls
    BY <2>2, StreamAssumption DEF Reset
  <2>5. terminal' \in BOOLEAN /\ finish' \in {"stop", "length", "content_filter", "tool_calls"}
    BY DEF Reset
  <2>6. choice' \in ChoiceValues /\ parallel' \in BOOLEAN
        /\ status' \in {"reading", "closing", "ok", "failed"}
    BY DEF Reset
  <2> QED
    BY <2>1, <2>2, <2>3, <2>4, <2>5, <2>6 DEF TypeOK
<1>3. ToldInv'
  BY <1>1 DEF Reset, ToldInv, Nothing
<1> QED
  BY <1>1, <1>2, <1>3 DEF Reset, IInv, CallsInv, IdsInv, AnswerInv, EndInv

LEMMA InitInv == Init => IInv
<1> SUFFICES ASSUME Init PROVE IInv
  OBVIOUS
<1>1. calls = <<>> /\ answer = <<>> /\ DOMAIN calls = {} /\ DOMAIN answer = {}
  BY DEF Init
<1>2. TypeOK
  <2>1. todo \in Seq(PlacedRecord) /\ calls \in Seq(Call) /\ answer \in Seq(AnswerCall)
        /\ content \in Seq(STRING) /\ reasoning \in Seq(STRING)
    BY EmptyType DEF Init
  <2>2. Len(calls) = 0 /\ Len(answer) = 0
    BY <1>1, EmptyType
  <2>3. lastCall \in 0..Len(calls) /\ byIndex \in [Indices -> 0..Len(calls)]
    BY <2>2, EmptyType DEF Init
  <2>4. minted \in Nat /\ left \in 0..MaxEvents /\ Len(calls) <= MaxCalls
    BY <2>2, StreamAssumption DEF Init
  <2>5. terminal \in BOOLEAN /\ finish \in {"stop", "length", "content_filter", "tool_calls"}
    BY DEF Init
  <2>6. choice \in ChoiceValues /\ parallel \in BOOLEAN
        /\ status \in {"reading", "closing", "ok", "failed"}
    BY DEF Init
  <2> QED
    BY <2>1, <2>2, <2>3, <2>4, <2>5, <2>6 DEF TypeOK
<1>3. ToldInv
  BY <1>1 DEF Init, ToldInv, Nothing
<1> QED
  BY <1>1, <1>2, <1>3 DEF Init, IInv, CallsInv, IdsInv, AnswerInv, EndInv

LEMMA PlacedType ==
    ASSUME NEW e \in Events
    PROVE  Placed(e.calls) \in Seq(PlacedRecord)
<1> DEFINE n == Len(e.calls)
           r(i) == Placed(e.calls)[i]
<1>1. n \in Nat /\ DOMAIN e.calls = 1..n /\ \A i \in 1..n : e.calls[i] \in Record
  BY EventAssumption, LenProperties, ElementOfSeq
<1>2. ASSUME NEW i \in 1..n PROVE Placed(e.calls)[i] \in PlacedRecord
  <2>1. ASSUME n > 1 PROVE i - 1 \in Indices
    <3>1. i - 1 \in 0..n - 1 /\ 0..n - 1 \subseteq Indices
      BY <1>1, <2>1, EventAssumption
    <3> QED
      BY <3>1
  <2> QED
    BY <1>1, <2>1 DEF Placed, Record, PlacedRecord
<1>3. Placed(e.calls) \in [1..n -> PlacedRecord]
  BY <1>1, <1>2 DEF Placed
<1> QED
  BY <1>1, <1>3, SeqDef

LEMMA FrameInv ==
    ASSUME IInv, NEW e \in Events, Frame(e)
    PROVE  IInv'
<1> DEFINE text == Plain(e.text)
           reason == Thought(e.text, e.reason)
<1>1. /\ content' \in Seq(STRING) /\ content \o Added(content, text) = content'
      /\ reasoning' \in Seq(STRING) /\ reasoning \o Added(reasoning, reason) = reasoning'
  <2>1. text \in Seq(STRING) /\ reason \in Seq(STRING)
    BY EventAssumption, PartsType
  <2> QED
    BY <2>1, MergeAdds DEF IInv, TypeOK, Frame
<1>2. UNCHANGED <<choice, parallel, status, calls, byIndex, lastCall, minted, answer>>
  BY DEF Frame, requestVars, callVars
<1>3. todo' \in Seq(PlacedRecord)
  BY PlacedType DEF Frame
<1>4. finish' \in {"stop", "length", "content_filter", finish} /\ terminal' \in BOOLEAN
      /\ left' \in 0..MaxEvents /\ status = "reading"
  BY SMTT(30), EventAssumption, StreamAssumption DEF Frame, IInv, TypeOK
<1>5. TypeOK'
  BY <1>1, <1>2, <1>3, <1>4 DEF IInv, TypeOK
<1>6. ToldInv'
  <2>1. told' = [told EXCEPT !.text = @ \o Added(content, text),
                             !.reasoning = @ \o Added(reasoning, reason)]
    BY DEF Frame
  <2> QED
    BY <1>1, <1>2, <2>1 DEF IInv, ToldInv, Final
<1>7. CallsInv' /\ IdsInv' /\ AnswerInv'
  BY <1>2 DEF IInv, CallsInv, IdsInv, AnswerInv, Final, Available
<1>8. EndInv'
  BY <1>2, <1>4 DEF IInv, EndInv
<1> QED
  BY <1>5, <1>6, <1>7, <1>8 DEF IInv

-------------------------------------------------------------------------------
(* A record about a call *)

LEMMA HeadType ==
    ASSUME TypeOK, todo # <<>>
    PROVE  Head(todo) \in PlacedRecord /\ Tail(todo) \in Seq(PlacedRecord)
BY HeadTailProperties DEF TypeOK

LEMMA CallsDomain ==
    ASSUME TypeOK
    PROVE  /\ Len(calls) \in Nat /\ DOMAIN calls = 1..Len(calls)
           /\ calls \in [1..Len(calls) -> Call]
BY LenProperties DEF TypeOK

\* A record is about a call there is, or about a new one, whose id is not in use.
LEMMA SlotType ==
    ASSUME TypeOK, NEW m \in PlacedRecord
    PROVE  /\ Index(m) \in Indices \cup {NoIndex}
           /\ Slot(m) \in 0..Len(calls)
           /\ Slot(m) = 0 /\ m.id # NoId => \A s \in DOMAIN calls : calls[s].id # m.id
<1>1. Index(m) \in Indices \cup {NoIndex}
  BY DEF Index, PlacedRecord
<1>2. /\ ByID(m) \in 0..Len(calls)
      /\ ByID(m) = 0 /\ m.id # NoId => \A s \in DOMAIN calls : calls[s].id # m.id
  <2>1. CASE m.id # NoId /\ \E s \in DOMAIN calls : calls[s].id = m.id
    <3>1. ByID(m) \in DOMAIN calls
      BY <2>1 DEF ByID
    <3> QED
      BY <3>1, CallsDomain
  <2>2. CASE ~(m.id # NoId /\ \E s \in DOMAIN calls : calls[s].id = m.id)
    BY <2>2, CallsDomain DEF ByID
  <2> QED
    BY <2>1, <2>2
<1>3. ByIndex(m) \in 0..Len(calls)
  BY <1>1, CallsDomain DEF ByIndex, TypeOK
<1>4. lastCall \in 0..Len(calls) /\ 0 \in 0..Len(calls)
  BY CallsDomain DEF TypeOK
<1> QED
  BY <1>1, <1>2, <1>3, <1>4 DEF Slot

LEMMA OldType ==
    ASSUME TypeOK, NEW m \in PlacedRecord
    PROVE  Old(m) \in Call
<1>1. CASE Slot(m) = 0
  <2>1. NewCall(m) \in Call
    BY EmptyType, StreamAssumption DEF NewCall, Call, PlacedRecord, TypeOK
  <2> QED
    BY <1>1, <2>1 DEF Old
<1>2. CASE Slot(m) # 0
  <2>1. Slot(m) \in 1..Len(calls)
    BY <1>2, SlotType, CallsDomain
  <2> QED
    BY <1>2, <2>1, CallsDomain DEF Old
<1> QED
  BY <1>1, <1>2

LEMMA UpdatedType ==
    ASSUME TypeOK, NEW m \in PlacedRecord
    PROVE  LET o == Old(m)
               c == Updated(m) IN
           /\ c \in Call
           /\ c.id = o.id /\ c.sent = o.sent /\ c.sentArgs = o.sentArgs
           /\ c.name = IF m.name = NoName THEN o.name ELSE m.name
<1>1. Old(m) \in Call
  BY OldType
<1>2. /\ m.args \in Seq(STRING) /\ m.name \in STRING
      /\ m.how \in {"none", "piece", "whole", "snapshot"}
  BY DEF PlacedRecord
<1>3. ASSUME NEW old \in Seq(STRING) PROVE Arguments(old, m) \in Seq(STRING)
  <2>1. old \o m.args \in Seq(STRING)
    BY <1>2, ConcatProperties
  <2>2. Merged(old, m.args) \in Seq(STRING)
    BY <1>2, MergeAdds
  <2> QED
    BY <1>2, <2>1, <2>2 DEF Arguments
<1>4. Arguments(Old(m).args, m) \in Seq(STRING)
  BY <1>1, <1>3 DEF Call
<1> QED
  BY <1>1, <1>2, <1>4 DEF Updated, Call

LEMMA PutType ==
    ASSUME TypeOK, NEW s \in 1..Len(calls) + 1, NEW c \in Call
    PROVE  /\ Put(s, c) \in Seq(Call)
           /\ Len(Put(s, c)) = IF s = Len(calls) + 1 THEN s ELSE Len(calls)
           /\ DOMAIN Put(s, c) = DOMAIN calls \cup {s}
           /\ \A j \in DOMAIN calls \cup {s} :
                Put(s, c)[j] = IF j = s THEN c ELSE calls[j]
<1> DEFINE n == IF s = Len(calls) + 1 THEN s ELSE Len(calls)
<1>1. Len(calls) \in Nat /\ DOMAIN calls = 1..Len(calls)
      /\ \A j \in 1..Len(calls) : calls[j] \in Call
  BY CallsDomain
<1>2. n \in Nat /\ DOMAIN calls \cup {s} = 1..n
  BY <1>1
<1>3. Put(s, c) \in [1..n -> Call]
  BY <1>1, <1>2 DEF Put
<1>4. Put(s, c) \in Seq(Call)
  BY <1>2, <1>3, SeqDef
<1>5. Len(Put(s, c)) = n
  <2>1. Len(Put(s, c)) \in Nat /\ 1..Len(Put(s, c)) = 1..n
    BY <1>3, <1>4, LenProperties
  <2> QED
    BY <1>2, <2>1
<1> QED
  BY <1>2, <1>4, <1>5 DEF Put

\* What AddCall does, with the call before (o), after (c) and in its slot (d).
LEMMA AddCallEffect ==
    ASSUME IInv, AddCall
    PROVE  \E m \in PlacedRecord, s \in 1..Len(calls) + 1, c, d \in Call :
             /\ s = IF Slot(m) = 0 THEN Len(calls) + 1 ELSE Slot(m)
             /\ c = Updated(m) /\ d = IF c.name = NoName THEN c ELSE Sent(c)
             /\ Acceptable(m) /\ MeanCall(m)
             /\ calls' = Put(s, d) /\ lastCall' = s
             /\ byIndex' = IF Index(m) = NoIndex THEN byIndex ELSE [byIndex EXCEPT ![Index(m)] = s]
             /\ minted' = IF Slot(m) = 0 /\ m.id = NoId THEN minted + 1 ELSE minted
             /\ told' = IF c.name = NoName THEN told ELSE [told EXCEPT !.calls = Heard(s, c)]
             /\ todo' \in Seq(PlacedRecord)
<1> DEFINE m == Head(todo)
           s == IF Slot(m) = 0 THEN Len(calls) + 1 ELSE Slot(m)
           c == Updated(m)
           d == IF c.name = NoName THEN c ELSE Sent(c)
<1>1. m \in PlacedRecord /\ Tail(todo) \in Seq(PlacedRecord)
  BY HeadType DEF AddCall, IInv
<1>2. s \in 1..Len(calls) + 1
  BY <1>1, SlotType, CallsDomain DEF IInv
<1>3. c \in Call
  BY <1>1, UpdatedType DEF IInv
<1>4. d \in Call
  BY <1>3 DEF Sent, Call
<1>5. /\ Acceptable(m) /\ MeanCall(m)
      /\ calls' = Put(s, d) /\ lastCall' = s
      /\ byIndex' = IF Index(m) = NoIndex THEN byIndex ELSE [byIndex EXCEPT ![Index(m)] = s]
      /\ minted' = IF Slot(m) = 0 /\ m.id = NoId THEN minted + 1 ELSE minted
      /\ told' = IF c.name = NoName THEN told ELSE [told EXCEPT !.calls = Heard(s, c)]
      /\ todo' = Tail(todo)
  BY DEF AddCall
<1> HIDE DEF m, s, c, d
<1> QED
  BY <1>1, <1>2, <1>3, <1>4, <1>5 DEF s, c, d

LEMMA AddCallInv ==
    ASSUME IInv, AddCall
    PROVE  IInv'
<1>1. PICK m \in PlacedRecord, s \in 1..Len(calls) + 1, c \in Call, d \in Call :
        /\ s = IF Slot(m) = 0 THEN Len(calls) + 1 ELSE Slot(m)
        /\ c = Updated(m) /\ d = IF c.name = NoName THEN c ELSE Sent(c)
        /\ Acceptable(m)
        /\ calls' = Put(s, d) /\ lastCall' = s
        /\ byIndex' = IF Index(m) = NoIndex THEN byIndex ELSE [byIndex EXCEPT ![Index(m)] = s]
        /\ minted' = IF Slot(m) = 0 /\ m.id = NoId THEN minted + 1 ELSE minted
        /\ told' = IF c.name = NoName THEN told ELSE [told EXCEPT !.calls = Heard(s, c)]
        /\ todo' \in Seq(PlacedRecord)
  BY AddCallEffect
<1>2. /\ UNCHANGED <<choice, parallel, status, terminal, content, reasoning, finish, answer, left>>
      /\ status = "reading"
  BY DEF AddCall, requestVars, resultVars
<1>3. /\ answer = <<>> /\ Len(answer) = 0 /\ DOMAIN answer = {}
      /\ Len(calls) \in Nat /\ DOMAIN calls = 1..Len(calls)
      /\ \A j \in DOMAIN calls : calls[j] \in Call
  BY <1>2, EmptyType, CallsDomain DEF IInv, EndInv
<1>4. /\ calls' \in Seq(Call) /\ DOMAIN calls' = DOMAIN calls \cup {s}
      /\ Len(calls') = IF s = Len(calls) + 1 THEN s ELSE Len(calls)
      /\ \A j \in DOMAIN calls' : calls'[j] = IF j = s THEN d ELSE calls[j]
  <2>1. calls' = Put(s, d) /\ TypeOK
    BY <1>1 DEF IInv
  <2>2. /\ Put(s, d) \in Seq(Call) /\ DOMAIN Put(s, d) = DOMAIN calls \cup {s}
        /\ Len(Put(s, d)) = IF s = Len(calls) + 1 THEN s ELSE Len(calls)
        /\ \A j \in DOMAIN calls \cup {s} : Put(s, d)[j] = IF j = s THEN d ELSE calls[j]
    BY <2>1, PutType
  <2> QED
    BY <2>1, <2>2
\* The call of the slot, before and after.
<1>5. /\ c.id = Old(m).id /\ c.sent = Old(m).sent /\ c.sentArgs = Old(m).sentArgs
      /\ c.name = IF m.name = NoName THEN Old(m).name ELSE m.name
  BY <1>1, UpdatedType DEF IInv
<1>6. Slot(m) = 0 => s = Len(calls) + 1 /\ Old(m) = NewCall(m) /\ ~c.sent
  BY <1>1, <1>5 DEF Old, NewCall
<1>7. Slot(m) # 0 => s \in DOMAIN calls /\ Old(m) = calls[s]
  BY <1>1, <1>3, SlotType DEF Old, IInv
<1>8. c.sent => /\ s \in DOMAIN calls /\ calls[s].sent /\ c.name = calls[s].name
                /\ c.sentArgs = calls[s].args /\ c.name # NoName
  <2> SUFFICES ASSUME c.sent
               PROVE  /\ s \in DOMAIN calls /\ calls[s].sent /\ c.name = calls[s].name
                      /\ c.sentArgs = calls[s].args /\ c.name # NoName
    OBVIOUS
  <2>1. s \in DOMAIN calls /\ Old(m) = calls[s] /\ calls[s].sent
    BY <1>5, <1>6, <1>7
  <2>2. calls[s].name # NoName /\ calls[s].sentArgs = calls[s].args
    BY <2>1 DEF IInv, CallsInv
  <2>3. m.name # NoName => Old(m).name \in {NoName, m.name}
    BY <1>1 DEF Acceptable
  <2> QED
    BY <1>5, <2>1, <2>2, <2>3
<1>9. s \in DOMAIN calls => c.id = calls[s].id /\ c.sent = calls[s].sent
  BY <1>3, <1>5, <1>6, <1>7
<1>10. /\ d.id = c.id /\ d.name = c.name /\ d.args = c.args
       /\ d.sent <=> c.name # NoName
       /\ d.sent => d.sentArgs = c.args
  BY <1>1, <1>8 DEF Sent, Call
<1>11. TypeOK'
  <2>1. Len(calls') \in Nat /\ s \in 0..Len(calls') /\ Len(calls) <= Len(calls')
        /\ Len(calls') <= MaxCalls
    <3>1. Slot(m) = 0 => Len(calls) < MaxCalls
      BY <1>1 DEF Acceptable
    <3>2. Len(calls) <= MaxCalls /\ MaxCalls \in Nat
      BY StreamAssumption DEF IInv, TypeOK
    <3> QED
      BY <1>3, <1>4, <1>6, <1>7, <3>1, <3>2
  <2>2. byIndex' \in [Indices -> 0..Len(calls')]
    <3>1. byIndex \in [Indices -> 0..Len(calls')]
      BY <1>3, <2>1 DEF IInv, TypeOK
    <3>2. Index(m) \in Indices \cup {NoIndex}
      BY SlotType DEF IInv
    <3> QED
      BY <1>1, <2>1, <3>1, <3>2
  <2>3. minted' \in Nat
    BY <1>1 DEF IInv, TypeOK
  <2>4. Len(answer') <= Len(calls')
    BY <1>2, <1>3, <2>1
  <2> QED
    BY <1>1, <1>2, <1>4, <2>1, <2>2, <2>3, <2>4 DEF IInv, TypeOK
<1>12. ToldInv'
  <2> DEFINE Heard_(cs) == {t \in DOMAIN cs : cs[t].sent}
             View(cs) == [j \in Heard_(cs) |-> [id |-> cs[j].id, name |-> cs[j].name,
                                                args |-> cs[j].args]]
  <2>1. told = [text |-> content, reasoning |-> reasoning, calls |-> View(calls)]
    <3>1. \A j \in DOMAIN calls : ~(j <= Len(answer))
      BY <1>3
    <3> QED
      BY <3>1 DEF IInv, ToldInv
  <2>2. told' = [text |-> content, reasoning |-> reasoning, calls |-> View(calls')] => ToldInv'
    BY SMTT(30), <1>2, <1>3, <1>4 DEF ToldInv
  <2>3. CASE c.name = NoName
    <3>1. ~c.sent /\ ~d.sent
      BY <1>8, <1>10, <2>3
    <3>2. Heard_(calls') = Heard_(calls) /\ s \notin Heard_(calls)
      BY <1>4, <1>9, <3>1
    <3>3. \A j \in Heard_(calls) : calls'[j] = calls[j]
      BY <1>4, <3>2
    <3>4. View(calls') = View(calls)
      BY <3>2, <3>3
    <3> QED
      BY <1>1, <2>1, <2>2, <2>3, <3>4
  <2>4. CASE c.name # NoName
    <3>1. d.sent /\ Heard_(calls') = Heard_(calls) \cup {s}
      BY <1>4, <1>10, <2>4
    <3>2. told.calls = View(calls) /\ DOMAIN told.calls = Heard_(calls)
      BY <2>1
    <3>3. ASSUME c.sent
          PROVE  [told.calls[s] EXCEPT !.args = @ \o Suffix(c.args, c.sentArgs)] =
                 [id |-> c.id, name |-> c.name, args |-> c.args]
      <4>1. told.calls[s] = [id |-> c.id, name |-> c.name, args |-> c.sentArgs]
        BY <1>8, <1>9, <3>2, <3>3
      <4>2. c.sentArgs \o Suffix(c.args, c.sentArgs) = c.args
        <5>1. IsPrefix(c.sentArgs, c.args)
          BY <1>1, <2>4 DEF Acceptable
        <5> QED
          BY <5>1, SuffixCompletes DEF Call
      <4>3. \A x : [told.calls[s] EXCEPT !.args = x] =
                  [id |-> c.id, name |-> c.name, args |-> x]
        BY <4>1
      <4>4. told.calls[s].args = c.sentArgs
        BY <4>1
      <4>5. told.calls[s].args \o Suffix(c.args, c.sentArgs) = c.args
        BY <4>2, <4>4, Zenon
      <4> QED
        BY <4>3, <4>5, Zenon
    <3>4. Heard(s, c) = View(calls')
      <4>1. DOMAIN Heard(s, c) = Heard_(calls')
        BY <3>1, <3>2 DEF Heard
      <4>2. ASSUME NEW j \in Heard_(calls')
            PROVE  Heard(s, c)[j] = View(calls')[j]
        <5>1. CASE j = s
          BY <1>4, <1>10, <3>1, <3>2, <3>3, <5>1 DEF Heard
        <5>2. CASE j # s
          <6>1. j \in Heard_(calls) /\ calls'[j] = calls[j]
            BY <1>4, <3>1, <4>2, <5>2
          <6>2. View(calls')[j] = View(calls)[j]
            BY <4>2, <6>1
          <6>3. Heard(s, c)[j] = told.calls[j]
            BY <3>2, <5>2, <6>1 DEF Heard
          <6> QED
            BY <3>2, <6>2, <6>3
        <5> QED
          BY <5>1, <5>2
      <4> QED
        BY <4>1, <4>2 DEF Heard
    <3> QED
      BY <1>1, <2>1, <2>2, <2>4, <3>4
  <2> QED
    BY <2>3, <2>4
<1>13. CallsInv'
  <2>1. ASSUME NEW j \in DOMAIN calls', j # s
        PROVE  /\ calls'[j].sent <=> calls'[j].name # NoName
               /\ calls'[j].sent =>
                    calls'[j].sentArgs = calls'[j].args /\ Available(calls'[j].name)
               /\ calls'[j].sent /\ ~parallel => j = 1
    <3>1. j \in DOMAIN calls /\ calls'[j] = calls[j]
      BY <1>4, <2>1
    <3> QED
      BY <3>1 DEF IInv, CallsInv
  <2>2. /\ d.sent <=> d.name # NoName
        /\ d.sent => d.sentArgs = d.args /\ Available(d.name)
        /\ d.sent /\ ~parallel => s = 1
    <3>1. d.sent => Available(c.name)
      BY <1>1, <1>10 DEF Acceptable
    <3>2. ASSUME d.sent, ~parallel PROVE s = 1
      <4>1. Len(calls) + (IF Slot(m) = 0 THEN 1 ELSE 0) <= 1
        BY <1>1, <1>10, <3>2 DEF Acceptable
      <4> QED
        BY <1>3, <1>6, <1>7, <4>1
    <3> QED
      BY <1>10, <3>1, <3>2
  <2> QED
    BY <1>2, <1>4, <2>1, <2>2 DEF CallsInv, Available
<1>14. IdsInv'
  <2>1. minted \in Nat /\ minted' \in Nat /\ minted <= minted'
    BY <1>1 DEF IInv, TypeOK
  <2>2. \A j \in DOMAIN calls : calls[j].id \in Int /\ calls[j].id >= -minted
    BY <1>3 DEF IInv, IdsInv, Call
  <2>3. CASE s \in DOMAIN calls
    <3>1. DOMAIN calls' = DOMAIN calls /\ \A j \in DOMAIN calls : calls'[j].id = calls[j].id
      BY <1>4, <1>9, <1>10, <2>3
    <3> QED
      BY <2>1, <2>2, <3>1 DEF IInv, IdsInv
  <2>4. CASE s \notin DOMAIN calls
    <3>1. Slot(m) = 0 /\ d.id = NewCall(m).id
      BY <1>5, <1>6, <1>7, <1>10, <2>4
    <3>2. d.id \in Int /\ d.id >= -minted' /\ \A j \in DOMAIN calls : calls[j].id # d.id
      <4>1. CASE m.id = NoId
        <5>1. d.id = -(minted + 1) /\ minted' = minted + 1
          BY <1>1, <3>1, <4>1 DEF NewCall
        <5> QED
          BY <2>1, <2>2, <5>1
      <4>2. CASE m.id # NoId
        <5>1. d.id = m.id /\ m.id \in Nat
          BY <3>1, <4>2 DEF NewCall, PlacedRecord
        <5>2. \A j \in DOMAIN calls : calls[j].id # m.id
          BY <3>1, <4>2, SlotType DEF IInv
        <5> QED
          BY <2>1, <5>1, <5>2
      <4> QED
        BY <4>1, <4>2
    <3>3. \A j \in DOMAIN calls : calls'[j].id = calls[j].id
      BY <1>4, <2>4
    <3> QED
      BY <1>4, <2>1, <2>2, <3>2, <3>3 DEF IInv, IdsInv
  <2> QED
    BY <2>3, <2>4
<1>15. AnswerInv' /\ EndInv'
  BY <1>2, <1>3 DEF IInv, AnswerInv, EndInv
<1> QED
  BY <1>11, <1>12, <1>13, <1>14, <1>15 DEF IInv

-------------------------------------------------------------------------------
(* The other steps, and the theorems *)

LEMMA CloseCallInv ==
    ASSUME IInv, CloseCall
    PROVE  IInv'
<1> DEFINE k == Len(answer) + 1
           a == [id |-> calls[k].id, name |-> calls[k].name, args |-> Final(k)]
<1>1. /\ UNCHANGED <<choice, parallel, status, todo, terminal, content, reasoning, finish, left>>
      /\ UNCHANGED <<calls, byIndex, lastCall, minted>>
      /\ status = "closing"
  BY DEF CloseCall, requestVars, callVars
<1>2. /\ Len(answer) \in Nat /\ DOMAIN answer = 1..Len(answer)
      /\ Len(calls) \in Nat /\ DOMAIN calls = 1..Len(calls)
      /\ k \in DOMAIN calls /\ calls[k] \in Call
  BY CallsDomain, LenProperties DEF IInv, TypeOK, CloseCall
<1>3. calls[k].sent /\ Final(k) \in Documents /\ answer' = Append(answer, a)
  BY DEF CloseCall, Final
<1>4. a \in AnswerCall
  BY <1>2, <1>3 DEF AnswerCall, Call
<1>5. /\ answer' \in Seq(AnswerCall) /\ Len(answer') = k
      /\ DOMAIN answer' = 1..k
      /\ \A j \in 1..Len(answer) : answer'[j] = answer[j]
      /\ answer'[k] = a
  <2>1. answer \in Seq(AnswerCall)
    BY DEF IInv, TypeOK
  <2> HIDE DEF a
  <2>2. /\ Append(answer, a) \in Seq(AnswerCall) /\ Len(Append(answer, a)) = k
        /\ \A j \in 1..Len(answer) : Append(answer, a)[j] = answer[j]
        /\ Append(answer, a)[k] = a
    BY <1>4, <2>1, AppendProperties
  <2>3. DOMAIN Append(answer, a) = 1..Len(Append(answer, a))
    BY <2>2, LenProperties
  <2> QED
    BY <1>3, <2>2, <2>3
<1>6. TypeOK'
  BY <1>1, <1>2, <1>5 DEF IInv, TypeOK
<1>7. ToldInv'
  <2> DEFINE D == {t \in DOMAIN calls : calls[t].sent}
             view == [s \in D |-> [id |-> calls[s].id, name |-> calls[s].name,
                                   args |-> IF s <= Len(answer) THEN Final(s) ELSE calls[s].args]]
             new == [s \in D |-> [id |-> calls[s].id, name |-> calls[s].name,
                                  args |-> IF s <= k THEN Final(s) ELSE calls[s].args]]
  <2>1. told = [text |-> content, reasoning |-> reasoning, calls |-> view]
    BY DEF IInv, ToldInv
  <2>2. told' = [text |-> content, reasoning |-> reasoning, calls |-> new] => ToldInv'
    BY <1>1, <1>5 DEF ToldInv, Final
  <2>3. \A s \in D : s # k => new[s] = view[s]
    BY <1>2
  <2>4. k \in D /\ view[k] = [id |-> calls[k].id, name |-> calls[k].name, args |-> calls[k].args]
        /\ new[k] = a
    BY <1>2, <1>3
  <2>5. CASE calls[k].args # <<>>
    <3>1. told' = told
      BY <2>5 DEF CloseCall
    <3>2. view[k] = new[k]
      BY <2>4, <2>5 DEF Final
    <3>3. view = new
      BY <2>3, <3>2
    <3> QED
      BY <2>1, <2>2, <3>1, <3>3
  <2>6. CASE calls[k].args = <<>>
    <3>1. told' = [told EXCEPT !.calls[k].args = @ \o EmptyObject]
      BY <2>6 DEF CloseCall
    <3>2. told.calls = view /\ told.calls[k].args = <<>>
      BY <2>1, <2>4, <2>6
    <3>3. <<>> \o EmptyObject = EmptyObject
      BY StreamAssumption, ConcatEmptySeq
    <3>4. told.calls[k].args \o EmptyObject = Final(k)
      BY <2>6, <3>2, <3>3 DEF Final
    <3>5. told'.calls = [view EXCEPT ![k].args = Final(k)]
          /\ told' = [text |-> content, reasoning |-> reasoning, calls |-> told'.calls]
      BY <2>1, <3>1, <3>4
    <3>6. \A x : [view[k] EXCEPT !.args = x] =
                 [id |-> calls[k].id, name |-> calls[k].name, args |-> x]
      <4> DEFINE v == view[k]
      <4>1. v = [id |-> calls[k].id, name |-> calls[k].name, args |-> calls[k].args]
        BY <2>4
      <4> HIDE DEF v
      <4>2. \A x : [v EXCEPT !.args = x] =
                   [id |-> calls[k].id, name |-> calls[k].name, args |-> x]
        BY <4>1
      <4> QED
        BY <4>2 DEF v
    <3>7. [view EXCEPT ![k].args = Final(k)] = [view EXCEPT ![k] = a]
      BY <2>4, <3>6
    <3>8. [view EXCEPT ![k] = a] = new
      BY <2>3, <2>4
    <3> QED
      BY <2>2, <3>5, <3>7, <3>8
  <2> QED
    BY <2>5, <2>6
<1>8. CallsInv' /\ IdsInv'
  BY <1>1 DEF IInv, CallsInv, IdsInv, Available
<1>9. AnswerInv'
  <2>1. \A j \in 1..Len(answer) :
          /\ calls[j].sent
          /\ answer'[j] = [id |-> calls[j].id, name |-> calls[j].name, args |-> Final(j)]
    BY <1>2, <1>5 DEF IInv, AnswerInv
  <2>2. \A j \in DOMAIN answer' : j \in 1..Len(answer) \/ j = k
    BY <1>2, <1>5
  <2> QED
    BY <1>1, <1>3, <1>5, <2>1, <2>2 DEF AnswerInv, Final
<1>10. EndInv'
  BY <1>1 DEF IInv, EndInv
<1> QED
  BY <1>6, <1>7, <1>8, <1>9, <1>10 DEF IInv

\* Steps that leave the calls and what the client knows of them alone.
LEMMA QuietInv ==
    ASSUME IInv, IgnoreCall \/ Close \/ Complete \/ UNCHANGED vars
    PROVE  IInv'
<1>1. UNCHANGED <<choice, parallel, calls, byIndex, lastCall, minted, content, reasoning,
                  answer, told, left>>
  BY DEF IgnoreCall, Close, Complete, vars, streamVars, requestVars, callVars, resultVars
<1>2. ToldInv' /\ CallsInv' /\ IdsInv' /\ AnswerInv'
  BY <1>1 DEF IInv, ToldInv, CallsInv, IdsInv, AnswerInv, Final, Available
<1>3. CASE IgnoreCall
  BY <1>1, <1>2, <1>3, HeadType DEF IgnoreCall, IInv, TypeOK, EndInv, resultVars
<1>4. CASE Close
  BY <1>1, <1>2, <1>4 DEF Close, IInv, TypeOK, EndInv, resultVars
<1>5. CASE Complete
  <2>1. (calls = <<>>)' <=> calls = <<>>
    BY <1>1
  <2>2. EndInv'
    BY <1>1, <1>5 DEF Complete, IInv, EndInv, Required
  <2> QED
    BY <1>1, <1>2, <1>5, <2>2 DEF Complete, IInv, TypeOK
<1>6. CASE UNCHANGED vars
  BY <1>1, <1>2, <1>6 DEF IInv, TypeOK, EndInv, vars, streamVars, resultVars, Required
<1> QED
  BY <1>3, <1>4, <1>5, <1>6

LEMMA FailsInv ==
    ASSUME IInv, Fails
    PROVE  IInv'
BY ResetInv DEF Fails, IInv, TypeOK, requestVars

LEMMA StepInv ==
    ASSUME IInv, [StreamNext]_vars
    PROVE  IInv'
BY FrameInv, AddCallInv, CloseCallInv, QuietInv, FailsInv DEF StreamNext

LEMMA IInvImplies ==
    ASSUME IInv
    PROVE  DeltasAddUp /\ AnswerAsAsked
<1>1. /\ Len(answer) \in Nat /\ DOMAIN answer = 1..Len(answer)
      /\ Len(calls) \in Nat /\ DOMAIN calls = 1..Len(calls)
  BY CallsDomain, LenProperties DEF IInv, TypeOK
<1>2. ASSUME status = "ok" PROVE told.calls = answer
  <2>1. Len(answer) = Len(calls) /\ DOMAIN answer = DOMAIN calls
    BY <1>1, <1>2 DEF IInv, EndInv
  <2>2. {t \in DOMAIN calls : calls[t].sent} = DOMAIN answer
    BY <2>1 DEF IInv, AnswerInv
  <2>3. told.calls = [s \in DOMAIN answer |->
                        [id |-> calls[s].id, name |-> calls[s].name,
                         args |-> IF s <= Len(answer) THEN Final(s) ELSE calls[s].args]]
    BY <2>2 DEF IInv, ToldInv
  <2>4. \A s \in DOMAIN answer : told.calls[s] = answer[s]
    BY <1>1, <2>3 DEF IInv, AnswerInv
  <2>5. answer = [s \in DOMAIN answer |-> answer[s]]
    BY LenProperties DEF IInv, TypeOK
  <2> QED
    BY <2>3, <2>4, <2>5
<1>3. DeltasAddUp
  BY <1>2 DEF DeltasAddUp, IInv, ToldInv
<1>4. ASSUME status = "ok" PROVE AnswerAsAsked
  <2>1. Len(answer) = Len(calls)
    BY <1>4 DEF IInv, EndInv
  <2>2. ASSUME NEW k \in DOMAIN answer
        PROVE  /\ k \in DOMAIN calls /\ calls[k].sent /\ answer[k].id = calls[k].id
               /\ answer[k].name = calls[k].name /\ Available(answer[k].name)
               /\ answer[k].args \in Documents
    <3>1. /\ k \in DOMAIN calls /\ calls[k].sent
          /\ answer[k].id = calls[k].id /\ answer[k].name = calls[k].name
      BY <1>1, <2>1 DEF IInv, AnswerInv
    <3>2. answer[k] \in AnswerCall
      BY <1>1, ElementOfSeq DEF IInv, TypeOK
    <3> QED
      BY <3>1, <3>2 DEF AnswerCall, IInv, CallsInv
  <2>3. \A k \in DOMAIN answer : answer[k].name \in Tools /\ answer[k].args \in Documents
    BY <2>2 DEF Available
  <2>4. \A j, k \in DOMAIN answer : answer[j].id = answer[k].id => j = k
    BY <2>2 DEF IInv, IdsInv
  <2>5. choice \notin Modes => \A k \in DOMAIN answer : answer[k].name = choice
    BY <2>2 DEF Available, Modes
  <2>6. answer = <<>> <=> Len(answer) = 0
    BY EmptySeq, EmptyType DEF IInv, TypeOK
  <2>7. calls = <<>> <=> Len(calls) = 0
    BY EmptySeq, EmptyType DEF IInv, TypeOK
  <2>8. choice = "none" => answer = <<>>
    <3>1. choice = "none" => DOMAIN answer = {}
      BY <2>2 DEF Available
    <3> QED
      BY <1>1, <2>6, <3>1
  <2>9. ~parallel => Len(answer) <= 1
    <3>1. ~parallel => \A k \in DOMAIN answer : k = 1
      BY <2>2 DEF IInv, CallsInv
    <3>2. Len(answer) > 1 => 2 \in DOMAIN answer
      BY <1>1
    <3> QED
      BY <1>1, <3>1, <3>2
  <2>10. (Required => answer # <<>>) /\ (finish = "tool_calls" <=> answer # <<>>)
    BY <1>4, <2>1, <2>6, <2>7 DEF IInv, EndInv
  <2> QED
    BY <2>3, <2>4, <2>5, <2>8, <2>9, <2>10 DEF AnswerAsAsked
<1> QED
  BY <1>3, <1>4 DEF AnswerAsAsked

-------------------------------------------------------------------------------
(* The answer is what is meant.  The hypothesis leaves out text in fragments,  *)
(* which mergeSnapshot may take for an older snapshot.                         *)

SnapshotsOnly == \A e \in Events : e.how = "snapshot"

\* A text that is not cut inside a tag: it is no beginning of the opening tag, and without
\* a closing tag it does not end with the beginning of one.
Whole(t) ==
    /\ IsPrefix(t, OpenTag) => t \in {<<>>, OpenTag}
    /\ Tagged(t) /\ Closings(t) = {} =>
         \A i \in Len(OpenTag) + 1..Len(t) : ~IsPrefix(From(t, i), CloseTag)

WholeTags == \A e \in Events : Whole(e.text)

MeantCall == [key : Nat, name : STRING, args : Seq(STRING)]

\* A call that is meant and the call in its slot have the same contents.
SameCalls ==
    /\ Len(meant.calls) = Len(calls)
    /\ \A k \in DOMAIN calls : /\ calls[k].name = meant.calls[k].name
                               /\ calls[k].args = meant.calls[k].args

\* The key of a call is where the accumulator looks for it.
KeysFound ==
    /\ form = "id" => \A k \in DOMAIN calls :
         meant.calls[k].key = calls[k].id /\ calls[k].id # NoId
    /\ form \in {"index", "place"} =>
         /\ \A k \in DOMAIN calls :
              meant.calls[k].key \in Indices /\ byIndex[meant.calls[k].key] = k
         /\ \A i \in Indices : byIndex[i] # 0 => meant.calls[byIndex[i]].key = i
    /\ form = "index" => \A k \in DOMAIN calls :
         calls[k].id < 0 \/ calls[k].id = meant.calls[k].key + 1
    /\ form = "single" => /\ lastCall = Len(calls) /\ Len(calls) <= 1
                          /\ \A k \in DOMAIN calls : meant.calls[k].key = 0

MeantInv ==
    /\ form \in Forms \cup {"any"}
    /\ form # "any" =>
        /\ meant \in [text : Seq(STRING), reasoning : Seq(STRING), calls : Seq(MeantCall)]
        /\ content = Plain(meant.text) /\ reasoning = Thought(meant.text, meant.reasoning)
        /\ Whole(meant.text) /\ (Tagged(meant.text) => meant.reasoning = <<>>)
        /\ SameCalls /\ KeysFound

\* A text that goes on after a whole one has its first closing tag where that had it, or
\* behind it.
LEMMA CutStays ==
    ASSUME NEW t \in Seq(STRING), NEW u \in Seq(STRING), IsPrefix(t, u), Tagged(t), Whole(t)
    PROVE  /\ Cut(t) <= Cut(u) /\ Cut(t) >= Len(OpenTag) + 1
           /\ Closings(t) # {} => Cut(u) = Cut(t)
<1> DEFINE n == Len(CloseTag)
<1>1. /\ Len(t) \in Nat /\ Len(u) \in Nat /\ Len(t) <= Len(u)
      /\ \A i \in 1..Len(t) : t[i] = u[i]
  BY LenProperties, PrefixIs
<1>2. n \in Nat \ {0} /\ Len(OpenTag) \in Nat /\ Len(OpenTag) <= Len(t)
  BY LenProperties, EmptySeq, StreamAssumption DEF Tagged, IsPrefix
<1>3. /\ CloseTag \in Seq(STRING) /\ Cut(t) \in Nat /\ Cut(u) \in Nat
  BY CutIs, StreamAssumption
<1> HIDE DEF n
<1>4. ASSUME NEW i \in Closings(u), i + n - 1 <= Len(t)
      PROVE  i \in Closings(t)
  <2>1. i \in Len(OpenTag) + 1..Len(u) /\ i \in 1..Len(t) /\ i \in 1..Len(u)
    BY <1>1, <1>2, <1>4 DEF Closings
  <2>2. \A k \in 1..n : CloseTag[k] = u[i + k - 1]
    BY <1>3, <2>1, StandsAt DEF Closings, n
  <2>3. \A k \in 1..n : i + k - 1 \in 1..Len(t)
    BY <1>1, <1>2, <1>4, <2>1
  <2>4. \A k \in 1..n : CloseTag[k] = t[i + k - 1]
    BY <1>1, <2>2, <2>3
  <2>5. IsPrefix(CloseTag, From(t, i))
    BY <1>3, <1>4, <2>1, <2>4, StandsAt DEF n
  <2> QED
    BY <1>1, <1>2, <2>1, <2>5 DEF Closings
<1>5. CASE Closings(t) # {}
  <2>1. /\ Cut(t) \in Closings(t) /\ \A i \in Closings(t) : Cut(t) <= i
    BY <1>5, CutIs
  <2>2. Cut(t) \in Len(OpenTag) + 1..Len(t) /\ Cut(t) \in 1..Len(t) /\ Cut(t) \in 1..Len(u)
    BY <1>1, <1>2, <2>1 DEF Closings
  <2>3. Cut(t) + n - 1 <= Len(t) /\ \A k \in 1..n : CloseTag[k] = t[Cut(t) + k - 1]
    BY <1>3, <2>1, <2>2, StandsAt DEF Closings, n
  <2>4. \A k \in 1..n : CloseTag[k] = u[Cut(t) + k - 1]
    <3>1. \A k \in 1..n : Cut(t) + k - 1 \in 1..Len(t)
      BY <1>1, <1>2, <2>2, <2>3
    <3> QED
      BY <1>1, <2>3, <3>1
  <2>5. Cut(t) + n - 1 <= Len(u)
    BY <1>1, <1>2, <2>2, <2>3
  <2>6. IsPrefix(CloseTag, From(u, Cut(t)))
    BY <1>3, <2>2, <2>4, <2>5, StandsAt DEF n
  <2>7. Cut(t) \in Closings(u)
    BY <1>1, <1>2, <2>2, <2>6 DEF Closings
  <2>8. Cut(u) \in Closings(u) /\ Cut(u) <= Cut(t)
    BY <2>7, CutIs
  <2>9. Cut(u) \in Closings(t)
    BY <1>1, <1>2, <1>3, <1>4, <2>2, <2>3, <2>8
  <2> QED
    BY <1>2, <1>3, <2>1, <2>2, <2>8, <2>9
<1>6. CASE Closings(t) = {}
  <2>1. Cut(t) = Len(t) + 1
    BY <1>6, CutIs
  <2>2. ASSUME Cut(u) <= Len(t)
        PROVE  FALSE
    <3>1. Closings(u) # {} /\ Cut(u) \in Closings(u)
      BY <1>1, <2>2, CutIs
    <3>2. Cut(u) \in Len(OpenTag) + 1..Len(t) /\ Cut(u) \in 1..Len(u) /\ Cut(u) \in 1..Len(t)
      BY <1>1, <1>2, <2>2, <3>1 DEF Closings
    <3>3. Cut(u) + n - 1 > Len(t)
      BY <1>1, <1>2, <1>4, <1>6, <3>1, <3>2
    <3>4. \A k \in 1..n : CloseTag[k] = u[Cut(u) + k - 1]
      BY <1>3, <3>1, <3>2, StandsAt DEF Closings, n
    <3> DEFINE r == From(t, Cut(u))
    <3>5. /\ r \in Seq(STRING) /\ Len(r) = Len(t) - Cut(u) + 1
          /\ \A k \in 1..Len(t) - Cut(u) + 1 : r[k] = t[Cut(u) + k - 1]
      BY <1>1, <3>2, PieceIs DEF From
    <3> HIDE DEF r
    <3>6. \A k \in 1..Len(r) : k \in 1..n /\ Cut(u) + k - 1 \in 1..Len(t)
      BY <1>1, <1>2, <3>2, <3>3, <3>5
    <3>7. \A k \in 1..Len(r) : r[k] = CloseTag[k]
      BY <1>1, <3>4, <3>5, <3>6
    <3>8. Len(r) <= n
      BY <1>1, <1>2, <3>2, <3>3, <3>5
    <3>9. IsPrefix(r, CloseTag)
      BY <1>3, <3>5, <3>7, <3>8, PrefixIs DEF n
    <3> QED
      BY <1>6, <3>2, <3>9 DEF Whole, r
  <2> QED
    BY <1>1, <1>2, <1>3, <1>6, <2>1, <2>2
<1> QED
  BY <1>5, <1>6

\* Of two pieces that begin at the same letter of a text and its continuation, the shorter
\* is a beginning of the longer.
LEMMA PieceGrows ==
    ASSUME NEW t \in Seq(STRING), NEW u \in Seq(STRING), IsPrefix(t, u),
           NEW m \in Nat \ {0}, NEW i \in Int, NEW j \in Int,
           i <= Len(t), j <= Len(u), i <= j
    PROVE  IsPrefix(SubSeq(t, m, i), SubSeq(u, m, j))
<1> DEFINE p == SubSeq(t, m, i)
           q == SubSeq(u, m, j)
<1>1. /\ Len(t) \in Nat /\ Len(u) \in Nat
      /\ \A k \in 1..Len(t) : t[k] = u[k]
  BY LenProperties, PrefixIs
<1>2. /\ p \in Seq(STRING) /\ Len(p) = IF m <= i THEN i - m + 1 ELSE 0
      /\ \A k \in 1..i - m + 1 : p[k] = t[m + k - 1]
  BY PieceIs
<1>3. /\ q \in Seq(STRING) /\ Len(q) = IF m <= j THEN j - m + 1 ELSE 0
      /\ \A k \in 1..j - m + 1 : q[k] = u[m + k - 1]
  BY PieceIs
<1> HIDE DEF p, q
<1>4. \A k \in 1..Len(p) :
        k \in 1..i - m + 1 /\ k \in 1..j - m + 1 /\ m + k - 1 \in 1..Len(t)
  BY <1>1, <1>2
<1>5. \A k \in 1..Len(p) : p[k] = q[k]
  BY <1>1, <1>2, <1>3, <1>4
<1>6. Len(p) <= Len(q)
  BY <1>2, <1>3
<1> QED
  BY <1>2, <1>3, <1>5, <1>6, PrefixIs DEF p, q

\* What is between the tags of a whole text, or behind them, only grows when the text does.
LEMMA PartsGrow ==
    ASSUME NEW t \in Seq(STRING), NEW u \in Seq(STRING), IsPrefix(t, u), Whole(t)
    PROVE  /\ IsPrefix(Plain(t), Plain(u))
           /\ Tagged(u) => IsPrefix(Thought(t, <<>>), Thought(u, <<>>))
<1>0. /\ OpenTag \in Seq(STRING) /\ CloseTag \in Seq(STRING) /\ Len(OpenTag) \in Nat
      /\ Len(CloseTag) \in Nat /\ Len(t) \in Nat /\ Len(u) \in Nat
  BY LenProperties, StreamAssumption
<1>1. /\ Len(t) <= Len(u) /\ \A i \in 1..Len(t) : t[i] = u[i]
  BY PrefixIs
<1>2. \A s \in Seq(STRING) : IsPrefix(<<>>, s)
  <2> TAKE s \in Seq(STRING)
  <2>1. Len(<<>>) = 0 /\ 0 <= Len(s)
    BY EmptySeq, LenProperties
  <2>2. SubSeq(<<>>, 1, 0) = <<>> /\ SubSeq(s, 1, 0) = <<>>
    BY SubSeqEmpty
  <2> QED
    BY <2>1, <2>2 DEF IsPrefix
<1>3. CASE Tagged(t)
  <2>1. Tagged(u)
    BY <1>0, <1>1, <1>3, PrefixIs DEF Tagged
  <2>2. /\ Cut(t) \in Nat \ {0} /\ Cut(t) <= Len(t) + 1 /\ Cut(u) \in Nat \ {0}
        /\ Cut(u) <= Len(u) + 1 /\ Cut(t) <= Cut(u)
        /\ Closings(t) # {} => Cut(u) = Cut(t)
        /\ Closings(t) = {} => Cut(t) = Len(t) + 1
    BY <1>3, CutIs, CutStays
  <2>3. IsPrefix(Thought(t, <<>>), Thought(u, <<>>))
    <3>1. /\ Len(OpenTag) + 1 \in Nat \ {0} /\ Cut(t) - 1 \in Int /\ Cut(u) - 1 \in Int
          /\ Cut(t) - 1 <= Len(t) /\ Cut(u) - 1 <= Len(u) /\ Cut(t) - 1 <= Cut(u) - 1
      BY <1>0, <2>2
    <3> QED
      BY <1>3, <2>1, <3>1, PieceGrows DEF Thought
  <2>4. CASE Closings(t) # {}
    <3>1. Cut(t) + Len(CloseTag) \in Nat \ {0} /\ Cut(u) = Cut(t)
      BY <1>0, <2>2, <2>4
    <3>2. IsPrefix(From(t, Cut(t) + Len(CloseTag)), From(u, Cut(t) + Len(CloseTag)))
      BY <1>0, <1>1, <3>1, PieceGrows DEF From
    <3> QED
      BY <1>3, <2>1, <2>3, <3>1, <3>2 DEF Plain
  <2>5. CASE Closings(t) = {}
    <3>1. Cut(t) + Len(CloseTag) \in Int /\ Len(t) < Cut(t) + Len(CloseTag)
      BY <1>0, <2>2, <2>5
    <3>2. Plain(t) = <<>>
      BY <1>0, <1>3, <3>1, SubSeqEmpty DEF Plain, From
    <3>3. Plain(u) \in Seq(STRING)
      BY PartsType, EmptySeq
    <3> QED
      BY <1>2, <2>3, <3>2, <3>3
  <2> QED
    BY <2>4, <2>5
<1>4. CASE ~Tagged(t) /\ Tagged(u)
  <2>1. Len(t) <= Len(OpenTag)
    BY <1>0, <1>1, <1>4, PrefixIs DEF Tagged
  <2>2. IsPrefix(t, OpenTag)
    BY <1>0, <1>1, <1>4, <2>1, PrefixIs DEF Tagged
  <2>3. IsPrefix(OpenTag, OpenTag)
    BY <1>0, PrefixIs
  <2>4. t = <<>>
    BY <1>4, <2>2, <2>3 DEF Whole, Tagged
  <2>5. Plain(t) = <<>> /\ Thought(t, <<>>) = <<>>
    BY <1>4, <2>4 DEF Plain, Thought
  <2>6. Plain(u) \in Seq(STRING) /\ Thought(u, <<>>) \in Seq(STRING)
    BY PartsType, EmptySeq
  <2> QED
    BY <1>2, <2>5, <2>6
<1>5. CASE ~Tagged(t) /\ ~Tagged(u)
  BY <1>5 DEF Plain
<1> QED
  BY <1>3, <1>4, <1>5

\* For a snapshot of what has been received, merging takes the longer text.
LEMMA MergedIsLonger ==
    ASSUME NEW old \in Seq(STRING), NEW next \in Seq(STRING), Comparable(old, next)
    PROVE  Merged(old, next) = Longer(old, next)
<1>1. Len(old) \in Nat /\ Len(next) \in Nat
  BY LenProperties
<1>2. CASE IsPrefix(next, old)
  BY <1>1, <1>2 DEF Merged, Longer, IsPrefix
<1>3. CASE ~IsPrefix(next, old) /\ IsPrefix(old, next)
  <2>1. Len(old) < Len(next)
    BY <1>1, <1>3 DEF IsPrefix
  <2> QED
    BY <1>3, <2>1 DEF Merged, Longer
<1> QED
  BY <1>2, <1>3 DEF Comparable

LEMMA MergedOnto ==
    ASSUME NEW old \in Seq(STRING), NEW next \in Seq(STRING)
    PROVE  /\ IsPrefix(next, old) => Merged(old, next) = old
           /\ IsPrefix(old, next) => Merged(old, next) = next
<1>1. IsPrefix(next, old) /\ IsPrefix(old, next) => old = next
  <2>1. Len(old) \in Nat /\ Len(next) \in Nat
    BY LenProperties
  <2> QED
    BY <2>1, SubSeqFull DEF IsPrefix
<1> QED
  BY <1>1 DEF Merged

LEMMA NoneLonger ==
    ASSUME NEW s \in Seq(STRING), NEW t \in Seq(STRING), Longer(s, t) = <<>>
    PROVE  s = <<>> /\ t = <<>>
<1>1. Len(s) \in Nat /\ Len(t) \in Nat /\ Len(<<>>) = 0
  BY LenProperties, EmptySeq
<1>2. Len(s) = 0 /\ Len(t) = 0
  BY <1>1 DEF Longer
<1> QED
  BY <1>2, EmptySeq

\* The longer of two comparable texts has the tag that one of them has.
LEMMA TagsStay ==
    ASSUME NEW s \in Seq(STRING), NEW t \in Seq(STRING), Comparable(s, t),
           Tagged(s) \/ Tagged(t)
    PROVE  Tagged(Longer(s, t))
<1>1. Len(s) \in Nat /\ Len(t) \in Nat /\ Len(OpenTag) \in Nat /\ OpenTag \in Seq(STRING)
  BY LenProperties, StreamAssumption
<1>2. ASSUME NEW x \in Seq(STRING), NEW y \in Seq(STRING), IsPrefix(x, y), Tagged(x)
      PROVE  Tagged(y)
  <2>1. Len(x) \in Nat /\ Len(y) \in Nat /\ Len(x) <= Len(y) /\ Len(OpenTag) <= Len(x)
    BY <1>1, <1>2, LenProperties, PrefixIs DEF Tagged
  <2>2. \A i \in 1..Len(OpenTag) : OpenTag[i] = x[i] /\ x[i] = y[i]
    <3>1. \A i \in 1..Len(OpenTag) : i \in 1..Len(x) /\ OpenTag[i] = x[i]
      BY <1>1, <1>2, <2>1, PrefixIs DEF Tagged
    <3>2. \A i \in 1..Len(x) : x[i] = y[i]
      BY <1>2, PrefixIs
    <3> QED
      BY <3>1, <3>2
  <2>3. Len(OpenTag) <= Len(y) /\ \A i \in 1..Len(OpenTag) : OpenTag[i] = y[i]
    BY <1>1, <2>1, <2>2
  <2> QED
    BY <1>1, <2>3, PrefixIs DEF Tagged
<1>3. CASE IsPrefix(s, t)
  <2>1. Longer(s, t) = t
    BY <1>1, <1>3, SubSeqFull DEF Longer, IsPrefix
  <2> QED
    BY <1>2, <1>3, <2>1
<1>4. CASE IsPrefix(t, s)
  <2>1. Longer(s, t) = s
    BY <1>1, <1>4 DEF Longer, IsPrefix
  <2> QED
    BY <1>2, <1>4, <2>1
<1> QED
  BY <1>3, <1>4 DEF Comparable

LEMMA MeansType ==
    ASSUME NEW old \in Seq(STRING), NEW next \in Seq(STRING),
           NEW how \in {"none", "piece", "whole", "snapshot"}
    PROVE  Means(old, how, next) \in Seq(STRING)
BY ConcatProperties DEF Means, Longer

LEMMA ArgumentsMeant ==
    ASSUME NEW m \in PlacedRecord, NEW old \in Seq(STRING), Sensible(old, m.how, m.args)
    PROVE  Arguments(old, m) = Means(old, m.how, m.args)
<1>1. m.args \in Seq(STRING) /\ m.how \in {"none", "piece", "whole", "snapshot"}
  BY DEF PlacedRecord
<1>2. CASE m.how = "snapshot"
  BY <1>1, <1>2, MergedIsLonger DEF Arguments, Means, Sensible
<1> QED
  BY <1>1, <1>2 DEF Arguments, Means

LEMMA NoTags == Plain(<<>>) = <<>> /\ Thought(<<>>, <<>>) = <<>> /\ Whole(<<>>)
<1>1. Len(<<>>) = 0 /\ Len(OpenTag) \in Nat \ {0}
  BY EmptySeq, LenProperties, StreamAssumption
<1>2. ~Tagged(<<>>)
  BY <1>1 DEF Tagged, IsPrefix
<1> QED
  BY <1>2 DEF Plain, Thought, Whole

LEMMA ResetMeant ==
    ASSUME Reset, form' \in Forms \cup {"any"}
    PROVE  MeantInv'
<1>1. /\ meant' = [text |-> <<>>, reasoning |-> <<>>, calls |-> <<>>]
      /\ content' = <<>> /\ reasoning' = <<>> /\ calls' = <<>> /\ lastCall' = 0
      /\ byIndex' = [i \in Indices |-> 0]
  BY DEF Reset, Nothing
<1>2. Len(<<>>) = 0 /\ <<>> \in Seq(STRING) /\ <<>> \in Seq(MeantCall)
  BY EmptySeq
<1>3. DOMAIN <<>> = {}
  OBVIOUS
<1>4. Plain(<<>>) = <<>> /\ Thought(<<>>, <<>>) = <<>> /\ Whole(<<>>)
  BY NoTags
<1> QED
  BY <1>1, <1>2, <1>3, <1>4 DEF MeantInv, SameCalls, KeysFound

LEMMA InitMeant ==
    ASSUME Init
    PROVE  MeantInv
<1>1. /\ meant = [text |-> <<>>, reasoning |-> <<>>, calls |-> <<>>]
      /\ content = <<>> /\ reasoning = <<>> /\ calls = <<>> /\ lastCall = 0
      /\ byIndex = [i \in Indices |-> 0] /\ form \in Forms
  BY DEF Init, Nothing
<1>2. Len(<<>>) = 0 /\ <<>> \in Seq(STRING) /\ <<>> \in Seq(MeantCall)
  BY EmptySeq
<1>3. DOMAIN <<>> = {}
  OBVIOUS
<1>4. Plain(<<>>) = <<>> /\ Thought(<<>>, <<>>) = <<>> /\ Whole(<<>>)
  BY NoTags
<1> QED
  BY <1>1, <1>2, <1>3, <1>4 DEF MeantInv, SameCalls, KeysFound

\* Of two whole texts, one a beginning of the other, merging takes what is in the longer.
LEMMA PlainMerged ==
    ASSUME NEW t \in Seq(STRING), NEW u \in Seq(STRING), Comparable(t, u), Whole(t), Whole(u)
    PROVE  /\ Merged(Plain(t), Plain(u)) = Plain(Longer(t, u))
           /\ Tagged(Longer(t, u)) =>
                Merged(Thought(t, <<>>), Thought(u, <<>>)) = Thought(Longer(t, u), <<>>)
<1>1. Len(t) \in Nat /\ Len(u) \in Nat
  BY LenProperties
<1>2. /\ Plain(t) \in Seq(STRING) /\ Plain(u) \in Seq(STRING)
      /\ Thought(t, <<>>) \in Seq(STRING) /\ Thought(u, <<>>) \in Seq(STRING)
  BY PartsType, EmptySeq
<1>3. CASE IsPrefix(u, t)
  <2>1. Longer(t, u) = t
    BY <1>1, <1>3 DEF Longer, IsPrefix
  <2> QED
    BY <1>2, <1>3, <2>1, PartsGrow, MergedOnto
<1>4. CASE IsPrefix(t, u)
  <2>1. Longer(t, u) = u
    <3>1. Len(t) = Len(u) => t = u
      BY <1>4, SubSeqFull DEF IsPrefix
    <3>2. Len(t) <= Len(u)
      BY <1>4 DEF IsPrefix
    <3> QED
      BY <1>1, <3>1, <3>2 DEF Longer
  <2> QED
    BY <1>2, <1>4, <2>1, PartsGrow, MergedOnto
<1> QED
  BY <1>3, <1>4 DEF Comparable

LEMMA FrameMeant ==
    ASSUME IInv, MeantInv, SnapshotsOnly, WholeTags, NEW e \in Events, Frame(e)
    PROVE  MeantInv'
<1>1. /\ calls' = calls /\ byIndex' = byIndex /\ lastCall' = lastCall
      /\ content' = Merged(content, Plain(e.text))
      /\ reasoning' = Merged(reasoning, Thought(e.text, e.reason))
  BY DEF Frame, callVars
<1>2. /\ e.how = "snapshot" /\ e.text \in Seq(STRING) /\ e.reason \in Seq(STRING)
      /\ Whole(e.text)
  BY EventAssumption DEF SnapshotsOnly, WholeTags
<1>3. CASE form' = "any"
  BY <1>3 DEF MeantInv
<1>4. CASE form' # "any"
  <2> DEFINE text == Longer(meant.text, e.text)
             reason == Longer(meant.reasoning, e.reason)
  <2>1. /\ form' = form /\ form # "any"
        /\ Comparable(meant.text, e.text) /\ Comparable(meant.reasoning, e.reason)
        /\ meant' = [meant EXCEPT !.text = text, !.reasoning = reason]
        /\ Tagged(text) => reason = <<>>
    BY <1>2, <1>4 DEF Frame, MeanText, Sensible, Means
  <2>2. /\ meant \in [text : Seq(STRING), reasoning : Seq(STRING), calls : Seq(MeantCall)]
        /\ content = Plain(meant.text) /\ reasoning = Thought(meant.text, meant.reasoning)
        /\ Whole(meant.text) /\ (Tagged(meant.text) => meant.reasoning = <<>>)
    BY <2>1 DEF MeantInv
  <2>3. meant.text \in Seq(STRING) /\ meant.reasoning \in Seq(STRING)
    BY <2>2
  <2>4. text \in {meant.text, e.text} /\ reason \in {meant.reasoning, e.reason}
    BY DEF Longer
  <2> HIDE DEF text, reason
  <2>5. content' = Plain(text)
    BY <1>1, <1>2, <2>1, <2>2, <2>3, PlainMerged DEF text
  <2>6. reasoning' = Thought(text, reason)
    <3>1. CASE Tagged(text)
      <4>1. meant.reasoning = <<>> /\ e.reason = <<>>
        BY <1>2, <2>1, <2>3, <3>1, NoneLonger DEF reason
      <4> QED
        BY <1>1, <1>2, <2>1, <2>2, <2>3, <3>1, <4>1, PlainMerged DEF text
    <3>2. CASE ~Tagged(text)
      <4>1. ~Tagged(meant.text) /\ ~Tagged(e.text)
        BY <1>2, <2>1, <2>3, <3>2, TagsStay DEF text
      <4>2. reasoning' = Merged(meant.reasoning, e.reason)
        BY <1>1, <2>2, <4>1 DEF Thought
      <4> QED
        BY <1>2, <2>1, <2>3, <3>2, <4>2, MergedIsLonger DEF Thought, reason
    <3> QED
      BY <3>1, <3>2
  <2>7. /\ meant' \in [text : Seq(STRING), reasoning : Seq(STRING), calls : Seq(MeantCall)]
        /\ meant'.text = text /\ meant'.reasoning = reason /\ meant'.calls = meant.calls
    BY <1>2, <2>1, <2>2, <2>3, <2>4
  <2>8. Whole(text)
    BY <1>2, <2>2, <2>4
  <2> QED
    BY <1>1, <2>1, <2>5, <2>6, <2>7, <2>8 DEF MeantInv, SameCalls, KeysFound
<1> QED
  BY <1>3, <1>4

\* The accumulator puts a record into the slot of the call that it is meant for.
LEMMA SlotIsMeant ==
    ASSUME IInv, MeantInv, form # "any", NEW m \in PlacedRecord, Follows(m), Acceptable(m)
    PROVE  /\ Slot(m) = 0 => /\ \A k \in DOMAIN calls : meant.calls[k].key # Key(m)
                             /\ MeantBy(m) = Len(calls) + 1
           /\ Slot(m) # 0 => Slot(m) \in DOMAIN calls /\ MeantBy(m) = Slot(m)
<1>1. /\ Len(calls) \in Nat /\ DOMAIN calls = 1..Len(calls)
      /\ \A k \in DOMAIN calls : calls[k].id \in Int
  BY CallsDomain DEF IInv, Call
<1>2. DOMAIN meant.calls = DOMAIN calls /\ Len(meant.calls) = Len(calls)
  BY <1>1, LenProperties DEF MeantInv, SameCalls
<1>3. m.id \in Nat /\ m.index \in Indices \cup {-1} /\ m.place \in Indices \cup {-1}
      /\ NoIndex = -1 /\ NoId = 0 /\ Indices \subseteq Nat
  BY StreamAssumption DEF PlacedRecord
<1>4. /\ Slot(m) \in 0..Len(calls)
      /\ Slot(m) = 0 /\ m.id # NoId => \A k \in DOMAIN calls : calls[k].id # m.id
  BY SlotType DEF IInv
<1>5. /\ ByID(m) # 0 => ByID(m) \in DOMAIN calls /\ calls[ByID(m)].id = m.id
      /\ ByID(m) = 0 => m.id = NoId \/ \A k \in DOMAIN calls : calls[k].id # m.id
  <2>1. CASE m.id # NoId /\ \E k \in DOMAIN calls : calls[k].id = m.id
    <3>1. ByID(m) = CHOOSE k \in DOMAIN calls : calls[k].id = m.id
      BY <2>1 DEF ByID
    <3>2. ByID(m) \in DOMAIN calls /\ calls[ByID(m)].id = m.id
      BY <2>1, <3>1, Zenon
    <3>3. ByID(m) # 0
      BY <1>1, <3>2
    <3> QED
      BY <3>2, <3>3
  <2>2. CASE ~(m.id # NoId /\ \E k \in DOMAIN calls : calls[k].id = m.id)
    <3>1. ByID(m) = 0
      BY <2>2 DEF ByID
    <3> QED
      BY <2>2, <3>1
  <2> QED
    BY <2>1, <2>2
\* What is to be shown of each form.
<1>6. SUFFICES
        /\ Slot(m) = 0 => \A k \in DOMAIN calls : meant.calls[k].key # Key(m)
        /\ Slot(m) # 0 => \A k \in DOMAIN calls : meant.calls[k].key = Key(m) <=> k = Slot(m)
  <2>1. CASE Slot(m) = 0
    BY <1>2, <1>6, <2>1 DEF MeantBy
  <2>2. CASE Slot(m) # 0
    <3>1. Slot(m) \in DOMAIN calls
      BY <1>1, <1>4, <2>2
    <3>2. \A k \in DOMAIN meant.calls : meant.calls[k].key = Key(m) <=> k = Slot(m)
      BY <1>2, <1>6, <2>2
    <3>3. MeantBy(m) = CHOOSE k \in DOMAIN meant.calls : meant.calls[k].key = Key(m)
      BY <1>2, <3>1, <3>2 DEF MeantBy
    <3>4. MeantBy(m) = Slot(m)
      BY <1>2, <3>1, <3>2, <3>3
    <3> QED
      BY <2>2, <3>1, <3>4
  <2> QED
    BY <2>1, <2>2
<1>7. CASE form = "id"
  <2>1. m.id # NoId /\ Key(m) = m.id
    BY <1>7 DEF Follows, Key
  <2>2. Slot(m) = ByID(m)
    BY <2>1 DEF Slot, Acceptable, Misaddressed
  <2>3. \A k \in DOMAIN calls : meant.calls[k].key = calls[k].id
    BY <1>7 DEF MeantInv, KeysFound
  <2> QED
    BY <1>5, <2>1, <2>2, <2>3 DEF IInv, IdsInv
<1>8. CASE form \in {"index", "place"}
  <2>1. Index(m) = Key(m) /\ Key(m) \in Indices /\ Index(m) # NoIndex
    BY <1>3, <1>8 DEF Follows, Key, Index
  <2>2. /\ \A k \in DOMAIN calls : meant.calls[k].key \in Indices /\ byIndex[meant.calls[k].key] = k
        /\ \A i \in Indices : byIndex[i] # 0 => meant.calls[byIndex[i]].key = i
    BY <1>8 DEF MeantInv, KeysFound
  <2>3. ByID(m) # 0 => ByID(m) = ByIndex(m)
    <3> SUFFICES ASSUME ByID(m) # 0 PROVE ByID(m) = ByIndex(m)
      OBVIOUS
    <3>1. calls[ByID(m)].id = m.id /\ m.id # NoId /\ ByID(m) \in DOMAIN calls
      BY <1>5 DEF ByID
    <3>2. form = "index" /\ m.id = Key(m) + 1
      BY <1>8, <3>1 DEF Follows, Key
    <3>3. calls[ByID(m)].id < 0 \/ calls[ByID(m)].id = meant.calls[ByID(m)].key + 1
      BY <3>1, <3>2 DEF MeantInv, KeysFound
    <3>4. meant.calls[ByID(m)].key \in Nat
      BY <1>3, <2>2, <3>1
    <3>5. meant.calls[ByID(m)].key = Key(m)
      <4> DEFINE n == meant.calls[ByID(m)].key
                 i == calls[ByID(m)].id
      <4>1. Key(m) \in Nat /\ n \in Nat /\ i = Key(m) + 1 /\ (i < 0 \/ i = n + 1)
        BY <1>3, <2>1, <3>1, <3>2, <3>3, <3>4
      <4> HIDE DEF n, i
      <4>2. n = Key(m)
        BY <4>1
      <4> QED
        BY <4>2 DEF n
    <3> QED
      BY <2>1, <2>2, <3>1, <3>5 DEF ByIndex
  <2>4. Slot(m) = byIndex[Key(m)]
    BY <2>1, <2>3 DEF Slot, ByIndex
  <2> QED
    BY <1>1, <1>4, <2>1, <2>2, <2>4
<1>9. CASE form = "single"
  <2>1. m.id = NoId /\ m.index = NoIndex /\ m.place = NoIndex /\ Key(m) = 0
    BY <1>9 DEF Follows, Key
  <2>2. Slot(m) = lastCall
    BY <2>1, <1>5 DEF Slot, Index, ByID, ByIndex
  <2>3. lastCall = Len(calls) /\ Len(calls) <= 1 /\ \A k \in DOMAIN calls : meant.calls[k].key = 0
    BY <1>9 DEF MeantInv, KeysFound
  <2> QED
    BY <1>1, <2>1, <2>2, <2>3
<1> QED
  BY <1>7, <1>8, <1>9 DEF MeantInv, Forms

LEMMA AddCallMeant ==
    ASSUME IInv, MeantInv, AddCall
    PROVE  MeantInv'
<1>1. PICK m \in PlacedRecord, s \in 1..Len(calls) + 1, c \in Call, d \in Call :
        /\ s = IF Slot(m) = 0 THEN Len(calls) + 1 ELSE Slot(m)
        /\ c = Updated(m) /\ d = IF c.name = NoName THEN c ELSE Sent(c)
        /\ Acceptable(m) /\ MeanCall(m)
        /\ calls' = Put(s, d) /\ lastCall' = s
        /\ byIndex' = IF Index(m) = NoIndex THEN byIndex ELSE [byIndex EXCEPT ![Index(m)] = s]
  BY AddCallEffect
<1>2. CASE form' = "any"
  BY <1>2 DEF MeantInv
<1>3. CASE form' # "any"
  <2> DEFINE k == MeantBy(m)
             old == IF k \in DOMAIN meant.calls THEN meant.calls[k]
                    ELSE [key |-> Key(m), name |-> NoName, args |-> <<>>]
             new == [old EXCEPT !.name = IF m.name = NoName THEN @ ELSE m.name,
                                !.args = Means(@, m.how, m.args)]
  <2>1. /\ Follows(m) /\ Sensible(old.args, m.how, m.args) /\ form' = form /\ form # "any"
        /\ meant' = [meant EXCEPT !.calls = [j \in DOMAIN @ \cup {k} |->
                                                IF j = k THEN new ELSE @[j]]]
    BY <1>1, <1>3 DEF MeanCall
  <2>2. /\ content' = content /\ reasoning' = reasoning
        /\ Len(calls) \in Nat /\ DOMAIN calls = 1..Len(calls)
        /\ \A j \in DOMAIN calls : calls[j] \in Call
    BY CallsDomain DEF IInv, AddCall, resultVars
  <2>3. /\ meant.calls \in Seq(MeantCall) /\ DOMAIN meant.calls = DOMAIN calls
        /\ Len(meant.calls) = Len(calls)
        /\ \A j \in DOMAIN calls : meant.calls[j] \in MeantCall
        /\ meant \in [text : Seq(STRING), reasoning : Seq(STRING), calls : Seq(MeantCall)]
    BY <2>1, <2>2, LenProperties, ElementOfSeq DEF MeantInv, SameCalls
  <2>4. /\ calls' \in Seq(Call) /\ DOMAIN calls' = DOMAIN calls \cup {s}
        /\ Len(calls') = IF s = Len(calls) + 1 THEN s ELSE Len(calls)
        /\ \A j \in DOMAIN calls' : calls'[j] = IF j = s THEN d ELSE calls[j]
    <3>1. calls' = Put(s, d) /\ TypeOK
      BY <1>1 DEF IInv
    <3>2. /\ Put(s, d) \in Seq(Call) /\ DOMAIN Put(s, d) = DOMAIN calls \cup {s}
          /\ Len(Put(s, d)) = IF s = Len(calls) + 1 THEN s ELSE Len(calls)
          /\ \A j \in DOMAIN calls \cup {s} : Put(s, d)[j] = IF j = s THEN d ELSE calls[j]
      BY <3>1, PutType
    <3> QED
      BY <3>1, <3>2
  <2>5. /\ Slot(m) = 0 => /\ \A j \in DOMAIN calls : meant.calls[j].key # Key(m)
                          /\ k = Len(calls) + 1
        /\ Slot(m) # 0 => Slot(m) \in DOMAIN calls /\ k = Slot(m)
    BY <1>1, <2>1, SlotIsMeant
  <2>6. k = s
    BY <1>1, <2>5
  <2>7. /\ old.key = Key(m) /\ Key(m) \in Nat
        /\ old.name = Old(m).name /\ old.args = Old(m).args
    <3>1. Key(m) \in Nat
      BY <2>1, StreamAssumption DEF Follows, Key, PlacedRecord
    <3>2. CASE Slot(m) = 0
      BY <2>2, <2>3, <2>5, <3>1, <3>2 DEF Old, NewCall
    <3>3. CASE Slot(m) # 0
      <4>1. k \in DOMAIN calls /\ old = meant.calls[k] /\ Old(m) = calls[k]
        BY <2>3, <2>5, <3>3 DEF Old
      <4>2. meant.calls[k].key = Key(m)
        BY <2>3, <2>5, <3>3, <4>1 DEF MeantBy
      <4> QED
        BY <2>1, <3>1, <4>1, <4>2 DEF MeantInv, SameCalls
    <3> QED
      BY <3>2, <3>3
  <2>8. /\ new \in MeantCall /\ new.key = Key(m) /\ new.name = d.name /\ new.args = d.args
    <3>1. Old(m) \in Call
      BY OldType DEF IInv
    <3>2. old \in MeantCall
      BY <2>3, <2>7, EmptySeq, StreamAssumption DEF MeantCall
    <3>3. Means(old.args, m.how, m.args) = Arguments(Old(m).args, m)
      BY <2>1, <2>7, <3>1, ArgumentsMeant DEF Call
    <3>4. m.name \in STRING /\ Means(old.args, m.how, m.args) \in Seq(STRING)
      BY <3>2, MeansType DEF PlacedRecord, MeantCall
    <3>5. c.name = (IF m.name = NoName THEN old.name ELSE m.name)
          /\ c.args = Means(old.args, m.how, m.args)
      BY <1>1, <2>7, <3>1, <3>3 DEF Updated, Call
    <3>6. d.name = c.name /\ d.args = c.args
      BY <1>1 DEF Sent, Call
    <3> HIDE DEF old
    <3> QED
      BY <2>7, <3>2, <3>4, <3>5, <3>6 DEF MeantCall
  <2> HIDE DEF old, new
  <2>9. /\ meant' \in [text : Seq(STRING), reasoning : Seq(STRING), calls : Seq(MeantCall)]
        /\ meant'.text = meant.text /\ meant'.reasoning = meant.reasoning
        /\ Len(meant'.calls) = Len(calls') /\ DOMAIN meant'.calls = DOMAIN calls'
        /\ \A j \in DOMAIN calls' : meant'.calls[j] = IF j = s THEN new ELSE meant.calls[j]
    <3> DEFINE mc == [j \in DOMAIN meant.calls \cup {s} |-> IF j = s THEN new ELSE meant.calls[j]]
    <3>1. Len(calls') \in Nat /\ DOMAIN calls' = 1..Len(calls')
      BY <2>4, LenProperties
    <3>2. mc \in [1..Len(calls') -> MeantCall]
      BY <2>3, <2>4, <2>8, <3>1
    <3>3. mc \in Seq(MeantCall)
      BY <3>1, <3>2, SeqDef
    <3>4. Len(mc) = Len(calls')
      <4>1. Len(mc) \in Nat /\ 1..Len(mc) = 1..Len(calls')
        BY <3>2, <3>3, LenProperties
      <4> QED
        BY <3>1, <4>1
    <3>5. meant' = [meant EXCEPT !.calls = mc]
      BY <2>1, <2>6
    <3>6. \A j \in DOMAIN calls' : mc[j] = IF j = s THEN new ELSE meant.calls[j]
      BY <2>3, <2>4
    <3> HIDE DEF mc
    <3> QED
      BY <2>3, <2>4, <3>1, <3>2, <3>3, <3>4, <3>5, <3>6
  <2>10. SameCalls'
    <3>1. \A j \in DOMAIN calls : /\ calls[j].name = meant.calls[j].name
                                  /\ calls[j].args = meant.calls[j].args
      BY <2>1 DEF MeantInv, SameCalls
    <3> QED
      BY <2>4, <2>8, <2>9, <3>1 DEF SameCalls
  <2>11. KeysFound'
    <3>1. KeysFound
      BY <2>1 DEF MeantInv
    <3>2. Slot(m) = 0 => s \notin DOMAIN calls /\ s = Len(calls) + 1 /\ d.id = NewCall(m).id
      <4>1. d.id = Old(m).id
        BY <1>1, UpdatedType DEF Sent, Call, IInv
      <4> QED
        BY <1>1, <2>2, <4>1 DEF Old
    <3>3. Slot(m) # 0 => /\ s \in DOMAIN calls /\ s = Slot(m) /\ d.id = calls[s].id
                         /\ meant.calls[s].key = Key(m)
      <4>1. d.id = Old(m).id
        BY <1>1, UpdatedType DEF Sent, Call, IInv
      <4>2. Slot(m) # 0 => old = meant.calls[s] /\ s \in DOMAIN calls
        BY <1>1, <2>3, <2>5 DEF old
      <4> QED
        BY <1>1, <2>7, <4>1, <4>2 DEF Old
    <3>4. NewCall(m).id = IF m.id = NoId THEN -(minted + 1) ELSE m.id
      BY DEF NewCall
    <3>5. minted \in Nat /\ m.id \in Nat /\ NoId = 0 /\ NoIndex = -1 /\ Indices \subseteq Nat
      BY StreamAssumption DEF IInv, TypeOK, PlacedRecord
    <3>6. CASE form = "id"
      <4>1. m.id # NoId /\ Key(m) = m.id
        BY <2>1, <3>6 DEF Follows, Key
      <4>2. \A j \in DOMAIN calls : meant.calls[j].key = calls[j].id /\ calls[j].id # NoId
        BY <3>1, <3>6 DEF KeysFound
      <4>3. d.id = Key(m) /\ d.id # NoId
        BY <3>2, <3>3, <3>4, <4>1, <4>2
      <4>4. \A j \in DOMAIN calls' : meant'.calls[j].key = calls'[j].id /\ calls'[j].id # NoId
        BY <2>4, <2>8, <2>9, <4>2, <4>3
      <4> QED
        BY <2>1, <3>6, <4>4 DEF KeysFound
    <3>7. CASE form \in {"index", "place"}
      <4>1. Index(m) = Key(m) /\ Key(m) \in Indices /\ Index(m) # NoIndex
        BY <2>1, <3>5, <3>7 DEF Follows, Key, Index, PlacedRecord
      <4>2. byIndex' = [byIndex EXCEPT ![Key(m)] = s] /\ DOMAIN byIndex = Indices
        BY <1>1, <4>1 DEF IInv, TypeOK
      <4>3. /\ \A j \in DOMAIN calls : /\ meant.calls[j].key \in Indices
                                       /\ byIndex[meant.calls[j].key] = j
            /\ \A i \in Indices : byIndex[i] # 0 =>
                 meant.calls[byIndex[i]].key = i /\ byIndex[i] \in DOMAIN calls
        <5>1. \A i \in Indices : byIndex[i] \in 0..Len(calls)
          BY DEF IInv, TypeOK
        <5> QED
          BY <2>2, <3>1, <3>7, <5>1 DEF KeysFound
      <4>4. \A j \in DOMAIN calls : meant.calls[j].key = Key(m) => j = s
        BY <2>5, <3>3, <4>3
      <4>5. \A j \in DOMAIN calls' : /\ meant'.calls[j].key \in Indices
                                     /\ byIndex'[meant'.calls[j].key] = j
        <5>1. ASSUME NEW j \in DOMAIN calls', j # s
              PROVE  /\ meant'.calls[j].key \in Indices /\ byIndex'[meant'.calls[j].key] = j
          <6>1. j \in DOMAIN calls /\ meant'.calls[j] = meant.calls[j]
            BY <2>4, <2>9, <5>1
          <6> QED
            BY <4>2, <4>3, <4>4, <5>1, <6>1
        <5>2. meant'.calls[s].key = Key(m)
          BY <2>4, <2>8, <2>9
        <5> QED
          BY <4>1, <4>2, <5>1, <5>2
      <4>6. \A i \in Indices : byIndex'[i] # 0 => meant'.calls[byIndex'[i]].key = i
        <5>1. ASSUME NEW i \in Indices, i # Key(m), byIndex'[i] # 0
              PROVE  meant'.calls[byIndex'[i]].key = i
          <6>1. byIndex'[i] = byIndex[i]
            BY <4>2, <5>1
          <6>2. byIndex[i] \in DOMAIN calls /\ meant.calls[byIndex[i]].key = i
            BY <4>3, <5>1, <6>1
          <6>3. byIndex[i] # s
            BY <3>2, <3>3, <5>1, <6>2
          <6> QED
            BY <2>4, <2>9, <6>1, <6>2, <6>3
        <5>2. byIndex'[Key(m)] = s /\ meant'.calls[s].key = Key(m)
          BY <2>4, <2>8, <2>9, <4>1, <4>2
        <5> QED
          BY <5>1, <5>2
      <4>7. ASSUME form = "index", NEW j \in DOMAIN calls'
            PROVE  calls'[j].id < 0 \/ calls'[j].id = meant'.calls[j].key + 1
        <5>1. \A i \in DOMAIN calls : calls[i].id < 0 \/ calls[i].id = meant.calls[i].key + 1
          BY <3>1, <4>7 DEF KeysFound
        <5>2. m.id \in {NoId, m.index + 1} /\ Key(m) = m.index
          BY <2>1, <4>7 DEF Follows, Key
        <5>3. d.id < 0 \/ d.id = Key(m) + 1
          BY <3>2, <3>3, <3>4, <3>5, <5>1, <5>2
        <5> QED
          BY <2>4, <2>8, <2>9, <5>1, <5>3
      <4> QED
        BY <2>1, <3>7, <4>5, <4>6, <4>7 DEF KeysFound
    <3>8. CASE form = "single"
      <4>1. Key(m) = 0 /\ lastCall = Len(calls) /\ Len(calls) <= 1
            /\ \A j \in DOMAIN calls : meant.calls[j].key = 0
        BY <3>1, <3>8 DEF Key, KeysFound
      <4>2. s = 1
        BY <2>2, <2>5, <3>2, <3>3, <4>1
      <4>3. \A j \in DOMAIN calls' : meant'.calls[j].key = 0
        BY <2>4, <2>8, <2>9, <4>1
      <4>4. lastCall' = 1
        BY <1>1, <4>2
      <4>5. Len(calls') = 1
        BY <2>2, <2>4, <4>1, <4>2
      <4>6. form' = "single"
        BY <2>1, <3>8
      <4> QED
        BY <4>3, <4>4, <4>5, <4>6 DEF KeysFound
    <3> QED
      BY <2>1, <3>6, <3>7, <3>8 DEF MeantInv, Forms
  <2>12. /\ content = Plain(meant.text) /\ reasoning = Thought(meant.text, meant.reasoning)
         /\ Whole(meant.text) /\ (Tagged(meant.text) => meant.reasoning = <<>>)
         /\ form \in Forms
    BY <2>1 DEF MeantInv
  <2> QED
    BY <2>1, <2>2, <2>9, <2>10, <2>11, <2>12 DEF MeantInv
<1> QED
  BY <1>2, <1>3

LEMMA StepMeant ==
    ASSUME IInv, MeantInv, SnapshotsOnly, WholeTags, [StreamNext]_vars
    PROVE  MeantInv'
<1>1. CASE IgnoreCall \/ Close \/ CloseCall \/ Complete \/ UNCHANGED vars
  <2>1. UNCHANGED <<calls, byIndex, lastCall, content, reasoning, form, meant>>
    BY <1>1 DEF IgnoreCall, Close, CloseCall, Complete, vars, streamVars, callVars, resultVars
  <2> QED
    BY <2>1 DEF MeantInv, SameCalls, KeysFound
<1>2. CASE Fails
  BY <1>2, ResetMeant DEF Fails
<1> QED
  BY <1>1, <1>2, FrameMeant, AddCallMeant DEF StreamNext

LEMMA MeantImplies ==
    ASSUME IInv, MeantInv
    PROVE  AnswerIsMeant
<1> SUFFICES ASSUME status = "ok", form # "any"
             PROVE  /\ content = Plain(meant.text)
                    /\ reasoning = Thought(meant.text, meant.reasoning)
                    /\ Len(answer) = Len(meant.calls)
                    /\ \A k \in DOMAIN answer :
                        /\ answer[k].name = meant.calls[k].name
                        /\ answer[k].args = IF meant.calls[k].args = <<>> THEN EmptyObject
                                            ELSE meant.calls[k].args
  BY DEF AnswerIsMeant
<1>1. Len(answer) = Len(calls) /\ DOMAIN answer = DOMAIN calls
  BY CallsDomain, LenProperties DEF IInv, TypeOK, EndInv
<1>2. /\ SameCalls /\ content = Plain(meant.text)
      /\ reasoning = Thought(meant.text, meant.reasoning)
  BY DEF MeantInv
<1> QED
  BY <1>1, <1>2 DEF SameCalls, IInv, AnswerInv, Final

-------------------------------------------------------------------------------
(* The theorems *)

LEMMA Inductive == Spec => []IInv
BY InitInv, StepInv, PTL DEF Spec

\* Every step of the accumulator keeps its slots, indices and answer well formed: an
\* index names a call there is, and an answer never has more calls than were read.
THEOREM TypeCorrect == Spec => []TypeOK
<1>1. IInv => TypeOK
  BY DEF IInv
<1> QED
  BY <1>1, Inductive, PTL

\* What onDelta has told the client adds up to the accumulator's content and reasoning
\* after every event, and to the calls of the completion when the stream is accepted,
\* whatever mix of snapshots and fragments the upstream sends.
THEOREM DeltasComplete == Spec => []DeltasAddUp
BY Inductive, IInvImplies, PTL

\* A completion that finish returns without an error has only tools the request offers
\* and its tool_choice admits, JSON arguments, distinct ids, at most one call unless
\* several were allowed, and the finish reason that goes with them.
THEOREM AnswersAllowed == Spec => []AnswerAsAsked
BY Inductive, IInvImplies, PTL

LEMMA InductiveMeant == SnapshotsOnly /\ WholeTags => (Spec => []MeantInv)
<1> SUFFICES ASSUME SnapshotsOnly, WholeTags PROVE Spec => []MeantInv
  OBVIOUS
<1>1. Init => MeantInv
  BY InitMeant
<1>2. IInv /\ MeantInv /\ [StreamNext]_vars => MeantInv'
  BY StepMeant
<1> QED
  BY <1>1, <1>2, Inductive, PTL DEF Spec

\* If every event brings all the text so far, none of them cut inside a tag, and the
\* upstream keeps to one way of addressing its calls, then frame, addCall and mergeSnapshot
\* make of the stream the answer that the upstream means: the text behind the thinking, the
\* thinking, and each call once, in order, with its own name and arguments.
THEOREM AnswerMeant == SnapshotsOnly /\ WholeTags => (Spec => []AnswerIsMeant)
<1> SUFFICES ASSUME SnapshotsOnly, WholeTags PROVE Spec => []AnswerIsMeant
  OBVIOUS
<1>1. IInv /\ MeantInv => AnswerIsMeant
  BY MeantImplies
<1>2. Spec => []MeantInv
  BY InductiveMeant
<1> QED
  BY <1>1, <1>2, Inductive, PTL
===============================================================================
