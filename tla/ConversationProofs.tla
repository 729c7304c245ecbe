-------------------------- MODULE ConversationProofs ---------------------------
(* What IDEStreamProofs shows of one stream holds in every request of a        *)
(* conversation, by the same invariant: each request starts with a new         *)
(* accumulator, and what the client does between requests does not touch it.   *)
EXTENDS Conversation, IDEStreamProofs, FiniteSetTheorems

LEMMA ChatInitInv == ChatInit => IInv
BY InitInv DEF ChatInit

\* A request begins or is over.
LEMMA TurnInv ==
    ASSUME IInv, Submit \/ Receive
    PROVE  IInv'
<1>1. minted \in Nat /\ left \in 0..MaxEvents
  BY DEF IInv, TypeOK
<1>2. CASE Submit
  BY <1>1, <1>2, ResetInv DEF Submit
<1>3. CASE Receive
  <2>1. choice' \in ChoiceValues /\ parallel' \in BOOLEAN /\ status' = "reading"
    BY <1>3 DEF Receive, NoRequest, ChoiceValues
  <2> QED
    BY <1>1, <1>3, <2>1, ResetInv DEF Receive
<1> QED
  BY <1>2, <1>3

LEMMA ChatStepInv ==
    ASSUME IInv, [ChatNext]_allVars
    PROVE  IInv'
<1>1. CASE GoOn \/ Invent
  <2>1. UNCHANGED vars
    BY <1>1 DEF GoOn, Invent, Extend
  <2> QED
    BY <2>1, StepInv
<1>2. CASE Submit \/ Receive
  BY <1>2, TurnInv
<1>3. CASE Streaming
  BY <1>3, StepInv DEF Streaming
<1>4. CASE UNCHANGED allVars
  BY <1>4, StepInv DEF allVars
<1> QED
  BY <1>1, <1>2, <1>3, <1>4 DEF ChatNext

LEMMA ChatInductive == ChatSpec => []IInv
BY ChatInitInv, ChatStepInv, PTL DEF ChatSpec

-------------------------------------------------------------------------------
(* The verdict on a history, message by message *)

\* f lists the loop's states before the messages of ms, up to the n-th.
Judges(f, ms, n) ==
    f = [i \in 0..n |-> IF i = 0 THEN Clean ELSE Judge(f[i - 1], ms[i])]

LEMMA JudgesExists ==
    ASSUME NEW ms, NEW n \in Nat
    PROVE  \E f : Judges(f, ms, n)
<1> DEFINE Bad == {i \in Nat : ~\E f : Judges(f, ms, i)}
<1> SUFFICES ASSUME Bad # {} PROVE FALSE
  OBVIOUS
<1>1. PICK k \in Bad : \A j \in Bad : k <= j
  BY LeastNumber
<1>2. CASE k = 0
  <2> DEFINE f == [i \in {0} |-> Clean]
  <2>1. Judges(f, ms, 0)
    BY DEF Judges
  <2> QED
    BY <1>2, <2>1
<1>3. CASE k # 0
  <2>1. k - 1 \in Nat /\ k \in Nat /\ k - 1 \notin Bad
    BY <1>1, <1>3
  <2>2. PICK f : Judges(f, ms, k - 1)
    BY <2>1
  <2> DEFINE g == [i \in 0..k |-> IF i = k THEN Judge(f[k - 1], ms[k]) ELSE f[i]]
  <2>3. \A i \in 0..k : g[i] = IF i = 0 THEN Clean ELSE Judge(g[i - 1], ms[i])
    <3>1. \A i \in 0..k - 1 : f[i] = IF i = 0 THEN Clean ELSE Judge(f[i - 1], ms[i])
      BY <2>2 DEF Judges
    <3>2. \A i \in 0..k : i # k => i \in 0..k - 1
      BY <2>1
    <3>3. \A i \in 0..k : i # 0 => i - 1 \in 0..k /\ i - 1 # k
      BY <2>1
    <3> QED
      BY <1>3, <2>1, <3>1, <3>2, <3>3
  <2>4. Judges(g, ms, k)
    BY <2>3 DEF Judges
  <2> QED
    BY <2>4
<1> QED
  BY <1>2, <1>3

\* What the loop makes of a message depends only on the messages up to it.
LEMMA JudgesAgree ==
    ASSUME NEW ms, NEW ns, NEW n \in Nat, NEW k \in Nat, n <= k, NEW f, NEW g,
           Judges(f, ms, n), Judges(g, ns, k), \A i \in 1..n : ms[i] = ns[i]
    PROVE  f[n] = g[n]
<1> DEFINE Bad == {i \in 0..n : f[i] # g[i]}
<1> SUFFICES ASSUME Bad # {} PROVE FALSE
  OBVIOUS
<1>1. PICK i \in Bad : \A j \in Bad : i <= j
  <2>1. Bad \in SUBSET Nat
    OBVIOUS
  <2> HIDE DEF Bad
  <2> QED
    BY <2>1, LeastNumber
<1>2. /\ f[i] = IF i = 0 THEN Clean ELSE Judge(f[i - 1], ms[i])
      /\ g[i] = IF i = 0 THEN Clean ELSE Judge(g[i - 1], ns[i])
  BY DEF Judges
<1>3. i # 0 => f[i - 1] = g[i - 1] /\ ms[i] = ns[i]
  BY <1>1
<1> QED
  BY <1>2, <1>3

LEMMA VerdictIs ==
    ASSUME NEW ms \in Seq(Message)
    PROVE  \E f : Judges(f, ms, Len(ms)) /\ Verdict(ms) = f[Len(ms)]
<1>1. \E f : Judges(f, ms, Len(ms))
  BY JudgesExists, LenProperties
<1> QED
  BY <1>1 DEF Verdict, Judges

LEMMA VerdictOfNone == Verdict(<<>>) = Clean
<1>1. <<>> \in Seq(Message) /\ Len(<<>>) = 0
  OBVIOUS
<1>2. PICK f : Judges(f, <<>>, 0) /\ Verdict(<<>>) = f[0]
  BY <1>1, VerdictIs
<1> QED
  BY <1>2 DEF Judges

\* One more message is one more turn of the loop.
LEMMA VerdictOfAppend ==
    ASSUME NEW ms \in Seq(Message), NEW m \in Message
    PROVE  Verdict(Append(ms, m)) = Judge(Verdict(ms), m)
<1> DEFINE ns == Append(ms, m)
           n == Len(ms)
<1>1. /\ n \in Nat /\ ns \in Seq(Message) /\ Len(ns) = n + 1
      /\ ns[n + 1] = m /\ \A i \in 1..n : ns[i] = ms[i]
  BY LenProperties, AppendProperties
<1>2. PICK f : Judges(f, ms, n) /\ Verdict(ms) = f[n]
  BY VerdictIs
<1>3. PICK g : Judges(g, ns, n + 1) /\ Verdict(ns) = g[n + 1]
  BY <1>1, VerdictIs
<1>4. f[n] = g[n]
  <2>1. n + 1 \in Nat /\ n <= n + 1 /\ Judges(f, ms, n) /\ Judges(g, ns, n + 1)
    BY <1>1, <1>2, <1>3
  <2> HIDE DEF n, ns
  <2> QED
    BY <1>1, <2>1, JudgesAgree
<1>5. g[n + 1] = Judge(g[n], m)
  BY <1>1, <1>3 DEF Judges
<1> QED
  BY <1>2, <1>3, <1>4, <1>5
-------------------------------------------------------------------------------
(* What the loop knows of a history *)

\* Only an assistant has calls.
Typed(ms) ==
    /\ ms \in Seq(Message)
    /\ \A i \in DOMAIN ms : ms[i].role # "assistant" => ms[i].calls = <<>>

IsResult(ms, i) == i \in DOMAIN ms /\ ms[i].role = "tool"
Answered(ms, id) == \E i \in DOMAIN ms : IsResult(ms, i) /\ ms[i].id = id

\* The message whose calls a result would answer now.
Open(ms) == Asking(ms, Len(ms) + 1)

OwnIds(ms) ==
    \A i, j \in DOMAIN ms : \A k \in DOMAIN ms[i].calls, n \in DOMAIN ms[j].calls :
        ms[i].calls[k].id = ms[j].calls[n].id => i = j /\ k = n

\* The result at i answers a call of the message it belongs to.
InPlace(ms, i) == Asking(ms, i) # 0 /\ ms[i].id \in Ids(ms[Asking(ms, i)])

\* Of a history without a mistake so far, with pending calls.
Fine(v, ms) ==
    /\ \A id : id \in v.seen <=> \E i \in DOMAIN ms : id \in Ids(ms[i])
    /\ \A id : id \in v.pending <=>
         Open(ms) # 0 /\ id \in Ids(ms[Open(ms)]) /\ ~Answered(ms, id)
    /\ OwnIds(ms)
    /\ \A i \in DOMAIN ms : IsResult(ms, i) => InPlace(ms, i)
    /\ \A i, j \in DOMAIN ms :
         IsResult(ms, i) /\ IsResult(ms, j) /\ ms[i].id = ms[j].id => i = j
    /\ \A i \in DOMAIN ms : \A id \in Ids(ms[i]) : i # Open(ms) => Answered(ms, id)

\* A mistake that no later message mends.
Spoiled(ms) ==
    \/ ~OwnIds(ms)
    \/ \E i \in DOMAIN ms : IsResult(ms, i) /\ ~InPlace(ms, i)
    \/ \E i, j \in DOMAIN ms :
         IsResult(ms, i) /\ IsResult(ms, j) /\ ms[i].id = ms[j].id /\ i # j
    \/ \E j \in DOMAIN ms : \E i \in 1..j - 1 : \E id \in Ids(ms[i]) :
         ms[j].role # "tool" /\ \A k \in 1..j : ~(IsResult(ms, k) /\ ms[k].id = id)

Judged(ms) == IF Verdict(ms).ok THEN Fine(Verdict(ms), ms) ELSE Spoiled(ms)

LEMMA HistoryDomain ==
    ASSUME NEW ms \in Seq(Message)
    PROVE  /\ Len(ms) \in Nat /\ DOMAIN ms = 1..Len(ms)
           /\ \A i \in DOMAIN ms : ms[i] \in Message
BY LenProperties, ElementOfSeq

\* The message a result belongs to exists, and there is no other.
LEMMA AskingIs ==
    ASSUME NEW ms, NEW i \in Nat \ {0}
    PROVE  LET Is(j) == /\ j = 0 \/ ms[j].role # "tool"
                        /\ \A k \in j + 1..i - 1 : ms[k].role = "tool"
           IN  /\ Asking(ms, i) \in 0..i - 1 /\ Is(Asking(ms, i))
               /\ \A j \in 0..i - 1 : Is(j) => j = Asking(ms, i)
<1> DEFINE Is(j) == /\ j = 0 \/ ms[j].role # "tool"
                    /\ \A k \in j + 1..i - 1 : ms[k].role = "tool"
           Far == {d \in 0..i - 1 : i - 1 - d = 0 \/ ms[i - 1 - d].role # "tool"}
<1>1. \E j \in 0..i - 1 : Is(j)
  <2>1. Far \in SUBSET Nat /\ i - 1 \in Far
    OBVIOUS
  <2>2. PICK d \in Far : \A e \in Far : d <= e
    <3> HIDE DEF Far
    <3> QED
      BY <2>1, LeastNumber
  <2> DEFINE j == i - 1 - d
  <2>3. j \in 0..i - 1 /\ (j = 0 \/ ms[j].role # "tool")
    BY <2>2
  <2>4. ASSUME NEW k \in j + 1..i - 1
        PROVE  ms[k].role = "tool"
    <3>1. i - 1 - k \in 0..i - 1 /\ i - 1 - k < d /\ i - 1 - (i - 1 - k) = k
      BY <2>2, <2>4
    <3>2. \A e \in 0..i - 1 : e < d => e \notin Far
      <4>1. d \in 0..i - 1
        OBVIOUS
      <4> HIDE DEF Far
      <4> QED
        BY <2>2, <4>1
    <3> QED
      BY <3>1, <3>2
  <2> QED
    BY <2>3, <2>4
<1>2. \A j, k \in 0..i - 1 : Is(j) /\ Is(k) => j = k
  <2>1. \A j, k \in 0..i - 1 : j < k => k \in j + 1..i - 1 /\ k # 0
    OBVIOUS
  <2>2. \A j, k \in 0..i - 1 : Is(j) /\ Is(k) => ~(j < k)
    BY <2>1
  <2> QED
    BY <2>2
<1>3. Asking(ms, i) = CHOOSE j \in 0..i - 1 : Is(j)
  BY DEF Asking
<1> QED
  BY <1>1, <1>2, <1>3

\* It depends only on the messages before.
LEMMA AskingSame ==
    ASSUME NEW ms, NEW ns, NEW i \in Nat \ {0}, \A k \in 1..i - 1 : ms[k] = ns[k]
    PROVE  Asking(ms, i) = Asking(ns, i)
<1> DEFINE j == Asking(ms, i)
<1>1. /\ j \in 0..i - 1 /\ (j = 0 \/ ms[j].role # "tool")
      /\ \A k \in j + 1..i - 1 : ms[k].role = "tool"
  BY AskingIs
<1>2. \A k \in j + 1..i - 1 : k \in 1..i - 1
  BY <1>1
<1>3. j # 0 => j \in 1..i - 1
  BY <1>1
<1>4. /\ j = 0 \/ ns[j].role # "tool"
      /\ \A k \in j + 1..i - 1 : ns[k].role = "tool"
  BY <1>1, <1>2, <1>3
<1> HIDE DEF j
<1>5. j = Asking(ns, i)
  BY <1>1, <1>4, AskingIs
<1> QED
  BY <1>5 DEF j

\* A message repeats an id if two of its calls have it.
LEMMA Distinct ==
    ASSUME NEW m \in Message
    PROVE  Cardinality(Ids(m)) < Len(m.calls)
             <=> \E k, n \in DOMAIN m.calls : k # n /\ m.calls[k].id = m.calls[n].id
<1> DEFINE f == [k \in 1..Len(m.calls) |-> m.calls[k].id]
<1>1. Len(m.calls) \in Nat /\ DOMAIN m.calls = 1..Len(m.calls)
  BY LenProperties DEF Message
<1>2. f \in Surjection(1..Len(m.calls), Ids(m))
  BY <1>1 DEF Surjection, Ids
<1>3. IsFiniteSet(1..Len(m.calls)) /\ Cardinality(1..Len(m.calls)) = Len(m.calls)
  BY <1>1, FS_Interval
<1>4. /\ IsFiniteSet(Ids(m)) /\ Cardinality(Ids(m)) <= Len(m.calls)
      /\ Cardinality(Ids(m)) = Len(m.calls) <=> f \in Injection(1..Len(m.calls), Ids(m))
  <2> HIDE DEF f
  <2> QED
    BY <1>2, <1>3, FS_Surjection
<1>5. f \in Injection(1..Len(m.calls), Ids(m))
        <=> \A k, n \in DOMAIN m.calls : m.calls[k].id = m.calls[n].id => k = n
  BY <1>1, <1>2 DEF Injection, IsInjective, Surjection
<1>6. Cardinality(Ids(m)) \in Nat
  BY <1>4, FS_CardinalityType
<1> QED
  BY <1>1, <1>4, <1>5, <1>6
-------------------------------------------------------------------------------
(* One more message *)

Extends(ns, ms, m) ==
    /\ Typed(ms) /\ m \in Message /\ (m.role # "assistant" => m.calls = <<>>)
    /\ ns = Append(ms, m)

LEMMA Extended ==
    ASSUME NEW ms, NEW ns, NEW m, Extends(ns, ms, m)
    PROVE  /\ Typed(ns) /\ Len(ms) \in Nat /\ Len(ns) = Len(ms) + 1
           /\ DOMAIN ms = 1..Len(ms) /\ DOMAIN ns = 1..Len(ms) + 1
           /\ ns[Len(ms) + 1] = m
           /\ \A i \in DOMAIN ms : i \in DOMAIN ns /\ ns[i] = ms[i]
           /\ \A i \in DOMAIN ns : i \in DOMAIN ms \/ i = Len(ms) + 1
           /\ \A i \in 1..Len(ms) + 1 : Asking(ns, i) = Asking(ms, i)
           /\ \A i \in DOMAIN ms : InPlace(ns, i) <=> InPlace(ms, i)
           /\ \A i \in DOMAIN ms : IsResult(ns, i) <=> IsResult(ms, i)
           /\ Asking(ns, Len(ns)) = Open(ms)
           /\ Open(ns) = IF m.role = "tool" THEN Open(ms) ELSE Len(ms) + 1
           /\ Open(ms) \in 0..Len(ms)
<1> DEFINE n == Len(ms)
<1>1. /\ ms \in Seq(Message) /\ m \in Message /\ n \in Nat /\ DOMAIN ms = 1..n
      /\ ns \in Seq(Message) /\ Len(ns) = n + 1 /\ DOMAIN ns = 1..n + 1
      /\ ns[n + 1] = m /\ \A i \in 1..n : ns[i] = ms[i]
  BY LenProperties, AppendProperties DEF Extends, Typed
<1>2. /\ \A i \in DOMAIN ms : i \in DOMAIN ns /\ ns[i] = ms[i]
      /\ \A i \in DOMAIN ns : i \in DOMAIN ms \/ i = n + 1
  BY <1>1
<1>3. Typed(ns)
  BY <1>1, <1>2 DEF Extends, Typed
<1>4. \A i \in 1..n + 1 : Asking(ns, i) = Asking(ms, i)
  <2>1. ASSUME NEW i \in 1..n + 1
        PROVE  Asking(ns, i) = Asking(ms, i)
    <3>1. i \in Nat \ {0} /\ \A k \in 1..i - 1 : k \in 1..n
      BY <1>1
    <3>2. \A k \in 1..i - 1 : ns[k] = ms[k]
      BY <1>1, <3>1
    <3> QED
      BY <3>1, <3>2, AskingSame
  <2> QED
    BY <2>1
<1>5. \A i \in DOMAIN ms : Asking(ms, i) \in 0..i - 1
  BY <1>1, AskingIs
<1>6. \A i \in DOMAIN ms : InPlace(ns, i) <=> InPlace(ms, i)
  <2>1. ASSUME NEW i \in DOMAIN ms
        PROVE  InPlace(ns, i) <=> InPlace(ms, i)
    <3>1. Asking(ns, i) = Asking(ms, i) /\ ns[i] = ms[i]
      BY <1>1, <1>4
    <3>2. Asking(ms, i) # 0 => ns[Asking(ms, i)] = ms[Asking(ms, i)]
      BY <1>1, <1>5
    <3> QED
      BY <3>1, <3>2 DEF InPlace
  <2> QED
    BY <2>1
<1>7. \A i \in DOMAIN ms : IsResult(ns, i) <=> IsResult(ms, i)
  BY <1>2 DEF IsResult
<1>8. Asking(ns, Len(ns)) = Open(ms) /\ Open(ms) \in 0..n
  <2>1. Asking(ns, n + 1) = Asking(ms, n + 1) /\ Asking(ms, n + 1) \in 0..n + 1 - 1
    BY <1>1, <1>4, AskingIs
  <2> QED
    BY <1>1, <2>1 DEF Open
<1>9. Open(ns) = IF m.role = "tool" THEN Open(ms) ELSE n + 1
  <2> DEFINE j == IF m.role = "tool" THEN Open(ms) ELSE n + 1
  <2>1. /\ Open(ms) = 0 \/ ms[Open(ms)].role # "tool"
        /\ \A k \in Open(ms) + 1..n : ms[k].role = "tool"
    <3>1. n + 1 \in Nat \ {0} /\ n + 1 - 1 = n
      BY <1>1
    <3> QED
      BY <3>1, AskingIs DEF Open
  <2>2. j \in 0..n + 2 - 1
    BY <1>1, <1>8
  <2>3. j = 0 \/ ns[j].role # "tool"
    BY <1>1, <1>8, <2>1
  <2>4. \A k \in j + 1..n + 2 - 1 : ns[k].role = "tool"
    BY <1>1, <1>8, <2>1
  <2>5. j = Asking(ns, n + 2)
    <3>1. n + 2 \in Nat \ {0}
      BY <1>1
    <3> HIDE DEF j
    <3> QED
      BY <2>2, <2>3, <2>4, <3>1, AskingIs
  <2>6. Len(ns) + 1 = n + 2
    BY <1>1
  <2> QED
    BY <2>5, <2>6 DEF Open
<1> QED
  BY <1>1, <1>2, <1>3, <1>4, <1>6, <1>7, <1>8, <1>9

\* A spoiled history stays so.
LEMMA SpoiledStays ==
    ASSUME NEW ms, NEW ns, NEW m, Extends(ns, ms, m), Spoiled(ms)
    PROVE  Spoiled(ns)
<1>1. CASE ~OwnIds(ms)
  BY <1>1, Extended DEF OwnIds, Spoiled
<1>2. CASE \E i \in DOMAIN ms : IsResult(ms, i) /\ ~InPlace(ms, i)
  BY <1>2, Extended DEF Spoiled
<1>3. CASE \E i, j \in DOMAIN ms :
             IsResult(ms, i) /\ IsResult(ms, j) /\ ms[i].id = ms[j].id /\ i # j
  BY <1>3, Extended DEF Spoiled
<1>4. CASE \E j \in DOMAIN ms : \E i \in 1..j - 1 : \E id \in Ids(ms[i]) :
             ms[j].role # "tool" /\ \A k \in 1..j : ~(IsResult(ms, k) /\ ms[k].id = id)
  <2>1. PICK j \in DOMAIN ms : \E i \in 1..j - 1 : \E id \in Ids(ms[i]) :
          ms[j].role # "tool" /\ \A k \in 1..j : ~(IsResult(ms, k) /\ ms[k].id = id)
    BY <1>4
  <2>4. PICK i \in 1..j - 1 : \E id \in Ids(ms[i]) :
          ms[j].role # "tool" /\ \A k \in 1..j : ~(IsResult(ms, k) /\ ms[k].id = id)
    BY <2>1
  <2>5. PICK id \in Ids(ms[i]) :
          ms[j].role # "tool" /\ \A k \in 1..j : ~(IsResult(ms, k) /\ ms[k].id = id)
    BY <2>4
  <2>2. 1..j \subseteq DOMAIN ms /\ i \in DOMAIN ms
    BY Extended
  <2>3. j \in DOMAIN ns /\ id \in Ids(ns[i]) /\ ns[j].role # "tool"
    BY <2>2, <2>5, Extended
  <2>6. ASSUME NEW k \in 1..j
        PROVE  ~(IsResult(ns, k) /\ ns[k].id = id)
    <3>1. k \in DOMAIN ms /\ ns[k] = ms[k] /\ (IsResult(ns, k) <=> IsResult(ms, k))
      BY <2>2, Extended
    <3> QED
      BY <2>5, <3>1
  <2> QED
    BY <2>3, <2>6 DEF Spoiled
<1> QED
  BY <1>1, <1>2, <1>3, <1>4 DEF Spoiled
Verdicts == [ok : BOOLEAN, pending : SUBSET Int, seen : SUBSET Int]

LEMMA IdsType ==
    ASSUME NEW m \in Message
    PROVE  Ids(m) \subseteq Int
BY LenProperties, ElementOfSeq DEF Ids, Message, HistoryCall, AnswerCall

LEMMA JudgeType ==
    ASSUME NEW v \in Verdicts, NEW m \in Message
    PROVE  Judge(v, m) \in Verdicts
BY IdsType DEF Judge, TakeResult, TakeOther, Verdicts

\* A result of a pending call leaves the history fine, any other result spoils it.
LEMMA ResultStep ==
    ASSUME NEW ms, NEW ns, NEW m, NEW v \in Verdicts,
           Extends(ns, ms, m), Fine(v, ms), v.ok, m.role = "tool"
    PROVE  IF Judge(v, m).ok THEN Fine(Judge(v, m), ns) ELSE Spoiled(ns)
<1> DEFINE n == Len(ms)
           w == Judge(v, m)
<1>1. w = IF m.id \in v.pending THEN [v EXCEPT !.pending = @ \ {m.id}] ELSE [v EXCEPT !.ok = FALSE]
  BY DEF Judge, TakeResult
<1>2. /\ n \in Nat /\ DOMAIN ms = 1..n /\ DOMAIN ns = 1..n + 1 /\ ns[n + 1] = m
      /\ \A i \in DOMAIN ms : i \in DOMAIN ns /\ ns[i] = ms[i]
      /\ \A i \in DOMAIN ns : i \in DOMAIN ms \/ i = n + 1
      /\ \A i \in DOMAIN ms : InPlace(ns, i) <=> InPlace(ms, i)
      /\ \A i \in DOMAIN ms : IsResult(ns, i) <=> IsResult(ms, i)
      /\ Asking(ns, n + 1) = Open(ms) /\ Open(ns) = Open(ms) /\ Open(ms) \in 0..n
  BY Extended
<1>3. DOMAIN m.calls = {} /\ Ids(m) = {}
  BY DEF Extends, Ids
<1>4. n + 1 \in DOMAIN ns /\ n + 1 \notin DOMAIN ms /\ IsResult(ns, n + 1)
  BY <1>2 DEF IsResult
<1>5. \A id : Answered(ns, id) <=> Answered(ms, id) \/ id = m.id
  BY <1>2, <1>4 DEF Answered
<1>6. InPlace(ns, n + 1) <=> Open(ms) # 0 /\ m.id \in Ids(ms[Open(ms)])
  BY <1>2 DEF InPlace
<1> HIDE DEF n
<1>7. CASE m.id \in v.pending
  <2>1. w = [ok |-> TRUE, pending |-> v.pending \ {m.id}, seen |-> v.seen]
    BY <1>1, <1>7 DEF Verdicts
  <2>2. Open(ms) # 0 /\ m.id \in Ids(ms[Open(ms)]) /\ ~Answered(ms, m.id)
    BY <1>7 DEF Fine
  <2> HIDE DEF w
  <2>3. \A id : id \in w.seen <=> \E i \in DOMAIN ns : id \in Ids(ns[i])
    BY <1>2, <1>3, <2>1 DEF Fine
  <2>4. \A id : id \in w.pending <=>
          Open(ns) # 0 /\ id \in Ids(ns[Open(ns)]) /\ ~Answered(ns, id)
    <3>1. \A id : id \in w.pending <=> id \in v.pending /\ id # m.id
      BY <2>1
    <3>2. ns[Open(ms)] = ms[Open(ms)]
      BY <1>2, <2>2
    <3> QED
      BY <1>2, <1>5, <3>1, <3>2 DEF Fine
  <2>5. OwnIds(ns)
    BY <1>2, <1>3 DEF Fine, OwnIds
  <2>6. \A i \in DOMAIN ns : IsResult(ns, i) => InPlace(ns, i)
    BY <1>2, <1>6, <2>2 DEF Fine
  <2>7. \A i, j \in DOMAIN ns :
          IsResult(ns, i) /\ IsResult(ns, j) /\ ns[i].id = ns[j].id => i = j
    <3>1. \A i \in DOMAIN ms : ~(IsResult(ms, i) /\ ms[i].id = m.id)
      BY <2>2 DEF Answered
    <3> QED
      BY <1>2, <3>1 DEF Fine
  <2>8. \A i \in DOMAIN ns : \A id \in Ids(ns[i]) : i # Open(ns) => Answered(ns, id)
    BY <1>2, <1>3, <1>5 DEF Fine
  <2> QED
    BY <2>1, <2>3, <2>4, <2>5, <2>6, <2>7, <2>8 DEF Fine, w
<1>8. CASE m.id \notin v.pending
  <2>1. ~w.ok
    BY <1>1, <1>8 DEF Verdicts
  <2>2. CASE ~InPlace(ns, n + 1)
    BY <1>4, <2>1, <2>2 DEF Spoiled
  <2>3. CASE InPlace(ns, n + 1)
    <3>1. Answered(ms, m.id)
      BY <1>6, <1>8, <2>3 DEF Fine
    <3>2. PICK i \in DOMAIN ms : IsResult(ms, i) /\ ms[i].id = m.id
      BY <3>1 DEF Answered
    <3>3. n + 1 # i /\ i \in DOMAIN ns /\ IsResult(ns, i) /\ ns[i].id = ns[n + 1].id
      BY <1>2, <1>4, <3>2
    <3>4. Spoiled(ns)
      BY <1>4, <3>3 DEF Spoiled
    <3> QED
      BY <2>1, <3>4
  <2> QED
    BY <2>1, <2>2, <2>3
<1> QED
  BY <1>7, <1>8

\* Another message spoils the history if there are calls without a result, or if it
\* repeats an id; otherwise its calls are now pending.
LEMMA OtherStep ==
    ASSUME NEW ms, NEW ns, NEW m, NEW v \in Verdicts,
           Extends(ns, ms, m), Fine(v, ms), v.ok, m.role # "tool"
    PROVE  IF Judge(v, m).ok THEN Fine(Judge(v, m), ns) ELSE Spoiled(ns)
<1> DEFINE n == Len(ms)
           w == Judge(v, m)
<1>1. w = IF v.pending # {} \/ Repeats(v, m) THEN [v EXCEPT !.ok = FALSE]
          ELSE [v EXCEPT !.pending = Ids(m), !.seen = @ \cup Ids(m)]
  BY DEF Judge, TakeOther
<1>2. /\ n \in Nat /\ DOMAIN ms = 1..n /\ DOMAIN ns = 1..n + 1 /\ ns[n + 1] = m
      /\ \A i \in DOMAIN ms : i \in DOMAIN ns /\ ns[i] = ms[i]
      /\ \A i \in DOMAIN ns : i \in DOMAIN ms \/ i = n + 1
      /\ \A i \in DOMAIN ms : InPlace(ns, i) <=> InPlace(ms, i)
      /\ \A i \in DOMAIN ms : IsResult(ns, i) <=> IsResult(ms, i)
      /\ Open(ns) = n + 1 /\ Open(ms) \in 0..n
  BY Extended
<1>3. n + 1 \in DOMAIN ns /\ n + 1 \notin DOMAIN ms /\ ~IsResult(ns, n + 1)
  BY <1>2 DEF IsResult
<1>4. \A id : Answered(ns, id) <=> Answered(ms, id)
  BY <1>2, <1>3 DEF Answered
<1>5. \A i \in DOMAIN ms : \A k \in DOMAIN ms[i].calls : ms[i].calls[k].id \in Ids(ms[i])
  BY DEF Ids
<1>6. m \in Message /\ \A k \in DOMAIN m.calls : m.calls[k].id \in Ids(m)
  BY DEF Ids, Extends
<1> HIDE DEF n
<1>7. CASE v.pending # {}
  <2>1. ~w.ok
    BY <1>1, <1>7 DEF Verdicts
  <2>2. PICK id : id \in v.pending
    BY <1>7
  <2>3. /\ Open(ms) # 0 /\ id \in Ids(ms[Open(ms)])
        /\ \A k \in DOMAIN ms : ~(IsResult(ms, k) /\ ms[k].id = id)
    BY <2>2 DEF Fine, Answered
  <2>4. PICK j \in DOMAIN ns : j = n + 1
    BY <1>3
  <2>5. Open(ms) \in 1..j - 1 /\ Open(ms) \in DOMAIN ms
    BY <1>2, <2>3, <2>4
  <2>6. ns[j].role # "tool" /\ id \in Ids(ns[Open(ms)])
        /\ \A k \in 1..j : ~(IsResult(ns, k) /\ ns[k].id = id)
    BY <1>2, <1>3, <2>3, <2>4, <2>5
  <2>7. Spoiled(ns)
    BY <2>5, <2>6 DEF Spoiled
  <2> QED
    BY <2>1, <2>7
<1>8. CASE v.pending = {} /\ Repeats(v, m)
  <2>1. ~w.ok
    BY <1>1, <1>8 DEF Verdicts
  <2>2. CASE Cardinality(Ids(m)) < Len(m.calls)
    <3>1. \E k, j \in DOMAIN m.calls : k # j /\ m.calls[k].id = m.calls[j].id
      BY <1>6, <2>2, Distinct
    <3>2. ~OwnIds(ns)
      BY <1>2, <1>3, <3>1 DEF OwnIds
    <3> QED
      BY <2>1, <3>2 DEF Spoiled
  <2>3. CASE Ids(m) \cap v.seen # {}
    <3>1. PICK id : id \in Ids(m) /\ id \in v.seen
      BY <2>3
    <3>2. PICK i \in DOMAIN ms : id \in Ids(ms[i])
      BY <3>1 DEF Fine
    <3>3. /\ \E k \in DOMAIN m.calls : m.calls[k].id = id
          /\ \E k \in DOMAIN ms[i].calls : ms[i].calls[k].id = id
      BY <3>1, <3>2 DEF Ids
    <3>4. i \in DOMAIN ns /\ ns[i] = ms[i] /\ i # n + 1
      BY <1>2, <1>3
    <3>5. ~OwnIds(ns)
      BY <1>2, <1>3, <3>3, <3>4 DEF OwnIds
    <3> QED
      BY <2>1, <3>5 DEF Spoiled
  <2> QED
    BY <1>8, <2>2, <2>3 DEF Repeats
<1>9. CASE v.pending = {} /\ ~Repeats(v, m)
  <2>1. w = [ok |-> TRUE, pending |-> Ids(m), seen |-> v.seen \cup Ids(m)]
    BY <1>1, <1>9 DEF Verdicts
  <2>2. /\ \A k, j \in DOMAIN m.calls : m.calls[k].id = m.calls[j].id => k = j
        /\ Ids(m) \cap v.seen = {}
    BY <1>6, <1>9, Distinct DEF Repeats
  <2> HIDE DEF w
  <2>3. \A id : id \in w.seen <=> \E i \in DOMAIN ns : id \in Ids(ns[i])
    BY <1>2, <1>3, <2>1 DEF Fine
  <2>4. \A id : id \in w.pending <=>
          Open(ns) # 0 /\ id \in Ids(ns[Open(ns)]) /\ ~Answered(ns, id)
    <3>1. ASSUME NEW id \in Ids(m), Answered(ms, id)
          PROVE  FALSE
      <4>1. PICK i \in DOMAIN ms : IsResult(ms, i) /\ ms[i].id = id
        BY <3>1 DEF Answered
      <4>2. Asking(ms, i) \in 0..i - 1 /\ Asking(ms, i) # 0 /\ id \in Ids(ms[Asking(ms, i)])
        BY <1>2, <4>1, AskingIs DEF Fine, InPlace
      <4>3. Asking(ms, i) \in DOMAIN ms
        BY <1>2, <4>2
      <4> QED
        BY <2>2, <4>2, <4>3 DEF Fine
    <3> QED
      BY <1>2, <1>4, <2>1, <3>1
  <2>5. OwnIds(ns)
    <3>1. \A i \in DOMAIN ms : Ids(ms[i]) \cap Ids(m) = {}
      BY <2>2 DEF Fine
    <3>2. \A i \in DOMAIN ms : \A k \in DOMAIN ms[i].calls, j \in DOMAIN m.calls :
            ms[i].calls[k].id # m.calls[j].id
      BY <1>5, <1>6, <3>1
    <3> QED
      BY <1>2, <2>2, <3>2 DEF Fine, OwnIds
  <2>6. \A i \in DOMAIN ns : IsResult(ns, i) => InPlace(ns, i)
    BY <1>2, <1>3 DEF Fine
  <2>7. \A i, j \in DOMAIN ns :
          IsResult(ns, i) /\ IsResult(ns, j) /\ ns[i].id = ns[j].id => i = j
    BY <1>2, <1>3 DEF Fine
  <2>8. \A i \in DOMAIN ns : \A id \in Ids(ns[i]) : i # Open(ns) => Answered(ns, id)
    <3>1. \A i \in DOMAIN ms : \A id \in Ids(ms[i]) : Answered(ms, id)
      BY <1>2, <1>9 DEF Fine
    <3> QED
      BY <1>2, <1>4, <3>1
  <2> QED
    BY <2>1, <2>3, <2>4, <2>5, <2>6, <2>7, <2>8 DEF Fine, w
<1> QED
  BY <1>7, <1>8, <1>9
LEMMA JudgedStep ==
    ASSUME NEW ms, NEW ns, NEW m, Extends(ns, ms, m), Verdict(ms) \in Verdicts, Judged(ms)
    PROVE  Verdict(ns) \in Verdicts /\ Judged(ns)
<1> DEFINE v == Verdict(ms)
<1>1. Verdict(ns) = Judge(v, m) /\ m \in Message
  BY VerdictOfAppend DEF Extends, Typed
<1>2. Verdict(ns) \in Verdicts
  BY <1>1, JudgeType
<1>3. CASE ~v.ok
  <2>1. Verdict(ns) = v
    BY <1>1, <1>3 DEF Judge
  <2>2. Spoiled(ms)
    BY <1>3 DEF Judged
  <2> QED
    BY <1>2, <1>3, <2>1, <2>2, SpoiledStays DEF Judged
<1>4. CASE v.ok
  <2>1. Fine(v, ms)
    BY <1>4 DEF Judged
  <2>2. IF Judge(v, m).ok THEN Fine(Judge(v, m), ns) ELSE Spoiled(ns)
    <3> HIDE DEF v
    <3>1. v \in Verdicts
      BY DEF v
    <3> QED
      BY <1>4, <2>1, <3>1, ResultStep, OtherStep
  <2> QED
    BY <1>1, <1>2, <2>2 DEF Judged
<1> QED
  BY <1>3, <1>4, <1>2 DEF Verdicts

LEMMA JudgedNone == Typed(<<>>) /\ Verdict(<<>>) \in Verdicts /\ Judged(<<>>)
<1>1. <<>> \in Seq(Message) /\ Len(<<>>) = 0 /\ DOMAIN <<>> = {}
  BY EmptySeq
<1>2. Verdict(<<>>) = Clean
  BY VerdictOfNone
<1>3. Clean \in Verdicts /\ Clean.ok /\ Clean.pending = {} /\ Clean.seen = {}
  BY DEF Clean, Verdicts
<1>4. Open(<<>>) = 0
  <2>1. 1 \in Nat \ {0} /\ Len(<<>>) + 1 = 1
    BY <1>1
  <2>2. Asking(<<>>, 1) \in 0..1 - 1
    BY <2>1, AskingIs
  <2> QED
    BY <2>1, <2>2 DEF Open
<1>5. Fine(Clean, <<>>)
  BY <1>1, <1>3, <1>4 DEF Fine, OwnIds
<1> QED
  BY <1>1, <1>2, <1>3, <1>5 DEF Typed, Judged

\* By the least length of a history for which it is not so.
LEMMA EveryHistory ==
    ASSUME NEW ms, Typed(ms)
    PROVE  Verdict(ms) \in Verdicts /\ Judged(ms)
<1> DEFINE Right(hs) == Verdict(hs) \in Verdicts /\ Judged(hs)
           Wrong == {n \in Nat : \E hs : Typed(hs) /\ Len(hs) = n /\ ~Right(hs)}
<1> SUFFICES Wrong = {}
  BY HistoryDomain DEF Typed
<1> SUFFICES ASSUME Wrong # {} PROVE FALSE
  OBVIOUS
<1>1. PICK n \in Wrong : \A k \in Wrong : n <= k
  <2>1. Wrong \in SUBSET Nat
    OBVIOUS
  <2> HIDE DEF Wrong
  <2> QED
    BY <2>1, LeastNumber
<1>2. PICK hs : Typed(hs) /\ Len(hs) = n /\ ~Right(hs)
  BY <1>1
<1>3. hs # <<>>
  BY <1>2, JudgedNone
<1>4. PICK gs \in Seq(Message), m \in Message : hs = Append(gs, m)
  BY ZenonT(30), <1>2, <1>3, SequenceEmptyOrAppend DEF Typed
<1>5. /\ Len(gs) \in Nat /\ Len(hs) = Len(gs) + 1 /\ DOMAIN gs = 1..Len(gs)
      /\ DOMAIN hs = 1..Len(gs) + 1 /\ hs[Len(gs) + 1] = m
      /\ \A i \in 1..Len(gs) : hs[i] = gs[i]
  BY <1>4, LenProperties, AppendProperties
<1>6. Typed(gs) /\ (m.role # "assistant" => m.calls = <<>>)
  <2>1. \A i \in DOMAIN gs : i \in DOMAIN hs /\ hs[i] = gs[i]
    BY <1>5
  <2>2. Len(gs) + 1 \in DOMAIN hs
    BY <1>5
  <2> QED
    BY <1>2, <1>4, <1>5, <2>1, <2>2 DEF Typed
<1>7. Right(gs)
  <2>1. Len(gs) < n /\ Len(gs) \in Nat
    BY <1>2, <1>5
  <2>2. Len(gs) \notin Wrong
    BY <1>1, <2>1
  <2> QED
    BY <1>6, <2>1, <2>2
<1>8. Right(hs)
  BY <1>4, <1>6, <1>7, JudgedStep DEF Extends
<1> QED
  BY <1>2, <1>8

\* A history that is fine and has no pending calls is well answered.
LEMMA FineEnds ==
    ASSUME NEW ms, NEW v, Typed(ms), Fine(v, ms), v.pending = {}
    PROVE  WellAnswered(ms)
<1>1. Len(ms) \in Nat /\ DOMAIN ms = 1..Len(ms)
  BY HistoryDomain DEF Typed
<1>2. \A i \in DOMAIN ms : \A id \in Ids(ms[i]) : Answered(ms, id)
  <2>1. \A id : ~(Open(ms) # 0 /\ id \in Ids(ms[Open(ms)]) /\ ~Answered(ms, id))
    BY DEF Fine
  <2>2. \A i \in DOMAIN ms : i # 0
    BY <1>1
  <2> QED
    BY <2>1, <2>2 DEF Fine
<1>3. ASSUME NEW i \in DOMAIN ms, NEW id \in Ids(ms[i])
      PROVE  Cardinality({j \in DOMAIN ms : ms[j].role = "tool" /\ ms[j].id = id}) = 1
  <2>1. PICK j \in DOMAIN ms : IsResult(ms, j) /\ ms[j].id = id
    BY <1>2, <1>3 DEF Answered
  <2>2. {k \in DOMAIN ms : ms[k].role = "tool" /\ ms[k].id = id} = {j}
    <3>1. \A k \in DOMAIN ms : ms[k].role = "tool" /\ ms[k].id = id => k = j
      BY <2>1 DEF Fine, IsResult
    <3> QED
      BY <2>1, <3>1 DEF IsResult
  <2> QED
    BY <2>2, FS_Singleton
<1>4. \A i \in DOMAIN ms : ms[i].role = "tool" =>
        Asking(ms, i) # 0 /\ ms[i].id \in Ids(ms[Asking(ms, i)])
  BY DEF Fine, IsResult, InPlace
<1> QED
  BY <1>3, <1>4 DEF Fine, OwnIds, WellAnswered

\* And a well answered history is not spoiled.
LEMMA AnsweredOnce ==
    ASSUME NEW ms, Typed(ms), WellAnswered(ms), NEW i \in DOMAIN ms, NEW id \in Ids(ms[i])
    PROVE  \E k \in DOMAIN ms :
             {j \in DOMAIN ms : ms[j].role = "tool" /\ ms[j].id = id} = {k}
<1> DEFINE S == {j \in DOMAIN ms : ms[j].role = "tool" /\ ms[j].id = id}
<1>1. Len(ms) \in Nat /\ DOMAIN ms = 1..Len(ms)
  BY HistoryDomain DEF Typed
<1>2. S \in SUBSET DOMAIN ms /\ IsFiniteSet(DOMAIN ms)
  BY <1>1, FS_Interval
<1>3. IsFiniteSet(S) /\ Cardinality(S) = 1
  BY <1>2, FS_Subset DEF WellAnswered
<1>4. PICK k : S = {k}
  <2> HIDE DEF S
  <2> QED
    BY <1>3, FS_Singleton
<1> QED
  BY <1>2, <1>4

LEMMA NotSpoiled ==
    ASSUME NEW ms, Typed(ms), WellAnswered(ms)
    PROVE  ~Spoiled(ms)
<1>1. Len(ms) \in Nat /\ DOMAIN ms = 1..Len(ms)
  BY HistoryDomain DEF Typed
<1>2. OwnIds(ms)
  BY DEF OwnIds, WellAnswered
<1>3. \A i \in DOMAIN ms : IsResult(ms, i) => InPlace(ms, i) /\ Asking(ms, i) \in DOMAIN ms
  <2>1. \A i \in DOMAIN ms : Asking(ms, i) \in 0..i - 1
    BY <1>1, AskingIs
  <2> QED
    BY <1>1, <2>1 DEF IsResult, InPlace, WellAnswered
<1>4. \A i, j \in DOMAIN ms :
        IsResult(ms, i) /\ IsResult(ms, j) /\ ms[i].id = ms[j].id => i = j
  <2>1. SUFFICES ASSUME NEW i \in DOMAIN ms, NEW j \in DOMAIN ms,
                        IsResult(ms, i), IsResult(ms, j), ms[i].id = ms[j].id
                 PROVE  i = j
    OBVIOUS
  <2>2. ms[i].id \in Ids(ms[Asking(ms, i)]) /\ Asking(ms, i) \in DOMAIN ms
    BY <1>3, <2>1 DEF InPlace
  <2>3. PICK k \in DOMAIN ms :
          {n \in DOMAIN ms : ms[n].role = "tool" /\ ms[n].id = ms[i].id} = {k}
    BY <2>2, AnsweredOnce
  <2> QED
    BY <2>1, <2>3 DEF IsResult
<1>5. ASSUME NEW j \in DOMAIN ms, NEW i \in 1..j - 1, NEW id \in Ids(ms[i]),
             ms[j].role # "tool", \A k \in 1..j : ~(IsResult(ms, k) /\ ms[k].id = id)
      PROVE  FALSE
  <2>1. i \in DOMAIN ms /\ i < j /\ j \in Nat
    BY <1>1
  <2>2. PICK k \in DOMAIN ms :
          {n \in DOMAIN ms : ms[n].role = "tool" /\ ms[n].id = id} = {k}
    BY <2>1, AnsweredOnce
  <2>3. IsResult(ms, k) /\ ms[k].id = id /\ ms[k].role = "tool"
    BY <2>2 DEF IsResult
  <2>4. k > j /\ k \in Nat
    BY <1>1, <1>5, <2>3
  <2>5. Asking(ms, k) \in DOMAIN ms /\ id \in Ids(ms[Asking(ms, k)])
    BY <1>3, <2>3 DEF InPlace
  <2>6. Asking(ms, k) >= j
    <3>1. \A n \in Asking(ms, k) + 1..k - 1 : ms[n].role = "tool"
      <4>1. k \in Nat \ {0}
        BY <1>1
      <4> QED
        BY <4>1, AskingIs
    <3>2. Asking(ms, k) < j => j \in Asking(ms, k) + 1..k - 1
      BY <1>1, <2>4, <2>5
    <3> QED
      BY <1>1, <1>5, <2>5, <3>1, <3>2
  <2>7. Asking(ms, k) = i
    <3>1. /\ \E n \in DOMAIN ms[i].calls : ms[i].calls[n].id = id
          /\ \E n \in DOMAIN ms[Asking(ms, k)].calls : ms[Asking(ms, k)].calls[n].id = id
      BY <2>5 DEF Ids
    <3> QED
      BY <1>2, <2>1, <2>5, <3>1 DEF OwnIds
  <2> QED
    BY <2>1, <2>6, <2>7
<1> QED
  BY <1>2, <1>3, <1>4, <1>5 DEF Spoiled

\* validateToolHistory accepts the well answered histories and no others, whoever has
\* made them and however long they are: every call has an id of its own and one result,
\* between its message and the next.
THEOREM HistoriesJudged ==
    ASSUME NEW ms, Typed(ms)
    PROVE  Accepted(ms) <=> WellAnswered(ms)
<1>1. Verdict(ms) \in Verdicts /\ Judged(ms)
  BY EveryHistory
<1>2. ASSUME Accepted(ms)
      PROVE  WellAnswered(ms)
  BY <1>1, <1>2, FineEnds DEF Accepted, Judged
<1>3. ASSUME WellAnswered(ms)
      PROVE  Accepted(ms)
  <2>1. Verdict(ms).ok /\ Fine(Verdict(ms), ms)
    BY <1>1, <1>3, NotSpoiled DEF Judged
  <2>2. ASSUME NEW id \in Verdict(ms).pending
        PROVE  FALSE
    <3>1. Open(ms) # 0 /\ id \in Ids(ms[Open(ms)]) /\ ~Answered(ms, id)
      BY <2>1 DEF Fine
    <3>2. Open(ms) \in DOMAIN ms
      <4>1. Len(ms) \in Nat /\ DOMAIN ms = 1..Len(ms)
        BY HistoryDomain DEF Typed
      <4>2. Len(ms) + 1 \in Nat \ {0}
        BY <4>1
      <4>3. Open(ms) \in 0..Len(ms) + 1 - 1
        BY <4>2, AskingIs DEF Open
      <4> QED
        BY <3>1, <4>1, <4>3
    <3>3. PICK k \in DOMAIN ms :
            {j \in DOMAIN ms : ms[j].role = "tool" /\ ms[j].id = id} = {k}
      BY <1>3, <3>1, <3>2, AnsweredOnce
    <3> QED
      BY <3>1, <3>3 DEF Answered, IsResult
  <2> QED
    BY <2>1, <2>2 DEF Accepted
<1> QED
  BY <1>2, <1>3
-------------------------------------------------------------------------------
(* The history of a conversation *)

LEMMA ExtendTyped ==
    ASSUME Typed(history), NEW m \in Message, m.role # "assistant" => m.calls = <<>>,
           history' = Append(history, m)
    PROVE  Extends(history', history, m) /\ Typed(history')
BY Extended DEF Extends

LEMMA AnswerTyped ==
    ASSUME IInv
    PROVE  Assistant(answer) \in Message
<1>1. answer \in Seq(HistoryCall)
  BY SeqMonotonic DEF IInv, TypeOK, HistoryCall
<1>2. NoId \in Int
  BY StreamAssumption
<1>3. NoName \in STRING
  BY StreamAssumption, Zenon
<1> QED
  BY <1>1, <1>2, <1>3 DEF Assistant, Message, Roles

LEMMA ClientTyped ==
    /\ User \in Message /\ User.calls = <<>>
    /\ \A id \in Int, name \in OwnNames :
         Result(id, name) \in Message /\ Result(id, name).calls = <<>>
<1>1. <<>> \in Seq(HistoryCall) /\ NoId \in Int
  BY StreamAssumption
<1>2. NoName \in STRING
  BY StreamAssumption, Zenon
<1>3. OwnNames \subseteq STRING
  BY NameAssumption
<1> QED
  BY <1>1, <1>2, <1>3 DEF User, Result, Message, Roles

LEMMA InitTyped == ChatInit => Typed(history)
<1>1. User \in Message /\ User.calls = <<>>
  BY ClientTyped
<1> QED
  BY <1>1 DEF ChatInit, Typed

\* The client's result or next message.
LEMMA GoOnExtends ==
    ASSUME Typed(history), GoOn
    PROVE  \E m \in Message : /\ Extends(history', history, m) /\ Typed(history') /\ m.calls = <<>>
                              /\ IF m.role = "tool" THEN m.id \in Verdict(history).pending
                                 ELSE Verdict(history).pending = {}
<1>1. Verdict(history).pending \subseteq Int
  BY EveryHistory DEF Verdicts
<1>2. CASE \E id \in Verdict(history).pending, name \in OwnNames : Extend(Result(id, name))
  <2>1. PICK id \in Verdict(history).pending, name \in OwnNames :
          history' = Append(history, Result(id, name))
    BY <1>2 DEF Extend
  <2>2. Result(id, name) \in Message /\ Result(id, name).calls = <<>>
    BY <1>1, ClientTyped
  <2>3. Result(id, name).role = "tool" /\ Result(id, name).id = id
    BY DEF Result
  <2> QED
    BY <2>1, <2>2, <2>3, ExtendTyped
<1>3. CASE Verdict(history).pending = {} /\ Extend(User)
  <2>1. User \in Message /\ User.calls = <<>> /\ User.role # "tool"
    BY ClientTyped DEF User
  <2>2. history' = Append(history, User)
    BY <1>3 DEF Extend
  <2> QED
    BY <1>3, <2>1, <2>2, ExtendTyped
<1> QED
  BY <1>2, <1>3 DEF GoOn

LEMMA StepTyped ==
    ASSUME IInv, Typed(history), [ChatNext]_allVars
    PROVE  Typed(history')
<1>1. CASE GoOn
  BY <1>1, GoOnExtends
<1>2. CASE Invent
  <2>1. PICK m \in Strange : history' = Append(history, m)
    BY <1>2 DEF Invent, Extend
  <2> QED
    BY <2>1, StrangeAssumption, ExtendTyped
<1>3. CASE Receive
  <2>1. CASE status = "ok"
    <3>1. history' = Append(history, Assistant(answer)) /\ Assistant(answer).role = "assistant"
      BY <1>3, <2>1 DEF Receive, Assistant
    <3> QED
      BY <3>1, AnswerTyped, ExtendTyped
  <2>2. CASE status # "ok"
    BY <1>3, <2>2 DEF Receive
  <2> QED
    BY <2>1, <2>2
<1>4. CASE UNCHANGED history
  BY <1>4
<1> QED
  BY <1>1, <1>2, <1>3, <1>4 DEF ChatNext, Submit, Streaming, chatVars, allVars

HistoryTyped == Typed(history)

LEMMA AlwaysTyped == ChatSpec => []HistoryTyped
<1>1. ChatInit => HistoryTyped
  BY InitTyped DEF HistoryTyped
<1>2. IInv /\ HistoryTyped /\ [ChatNext]_allVars => HistoryTyped'
  BY StepTyped DEF HistoryTyped
<1> QED
  BY <1>1, <1>2, ChatInductive, PTL DEF ChatSpec

\* In an accepted history, the name of a result's id is that of the call it answers.
LEMMA NamesFound ==
    ASSUME NEW ms, Typed(ms), Accepted(ms), NEW i \in DOMAIN ms, ms[i].role = "tool"
    PROVE  LET asked == ms[Asking(ms, i)].calls IN
           \E k \in DOMAIN asked : asked[k].id = ms[i].id /\ asked[k].name = CallName(ms, ms[i].id)
<1> DEFINE o == Asking(ms, i)
           id == ms[i].id
           named == {j \in DOMAIN ms : id \in Ids(ms[j])}
           places == {k \in DOMAIN ms[o].calls : ms[o].calls[k].id = id}
<1>1. OwnIds(ms) /\ o # 0 /\ id \in Ids(ms[o])
  BY HistoriesJudged DEF WellAnswered, OwnIds
<1>2. o \in DOMAIN ms
  <2>1. Len(ms) \in Nat /\ DOMAIN ms = 1..Len(ms)
    BY HistoryDomain DEF Typed
  <2>2. o \in 0..i - 1
    BY <2>1, AskingIs
  <2> QED
    BY <1>1, <2>1, <2>2
<1>3. PICK k \in DOMAIN ms[o].calls : ms[o].calls[k].id = id
  BY <1>1 DEF Ids
<1>4. named = {o}
  <2>1. \A j \in DOMAIN ms :
          id \in Ids(ms[j]) => \E n \in DOMAIN ms[j].calls : ms[j].calls[n].id = id
    BY DEF Ids
  <2>2. \A j \in DOMAIN ms : id \in Ids(ms[j]) => j = o
    BY <1>1, <1>2, <1>3, <2>1 DEF OwnIds
  <2> QED
    BY <1>1, <1>2, <2>2
<1>5. places = {k}
  BY <1>1, <1>2, <1>3 DEF OwnIds
<1>6. o \in Nat /\ k \in Nat
  <2>1. ms[o] \in Message /\ DOMAIN ms = 1..Len(ms)
    BY <1>2, HistoryDomain DEF Typed
  <2>2. DOMAIN ms[o].calls = 1..Len(ms[o].calls)
    BY <2>1, LenProperties DEF Message
  <2> QED
    BY <1>2, <1>3, <2>1, <2>2
<1>7. (CHOOSE j \in named : \A n \in named : n <= j) = o
  <2> HIDE DEF named
  <2> QED
    BY <1>4, <1>6
<1>8. (CHOOSE j \in places : \A n \in places : n <= j) = k
  <2> HIDE DEF places
  <2> QED
    BY <1>5, <1>6
<1>9. CallName(ms, id) = ms[o].calls[k].name
  BY <1>7, <1>8 DEF CallName
<1> QED
  BY <1>3, <1>9
-------------------------------------------------------------------------------
(* The gateway accepts what it has answered *)

\* Unless the upstream has used an id again, an honest history is without mistake; the
\* ids that are made are not in it, now and while the next answer is made.
RoundInv ==
    /\ Typed(history)
    /\ honest /\ IdsUsedOnce => Verdict(history).ok
    /\ phase = "stream" => honest /\ Accepted(history)
    /\ honest => \A i \in DOMAIN history : \A id \in Ids(history[i]) : id >= -minted
    /\ phase = "stream" =>
         \A s \in DOMAIN calls : calls[s].id < 0 =>
            \A i \in DOMAIN history : calls[s].id \notin Ids(history[i])

\* Ids that are used once in the longer history are so in the shorter.
LEMMA UsedOnceBefore ==
    ASSUME NEW m, Extends(history', history, m), IdsUsedOnce'
    PROVE  IdsUsedOnce
<1>1. \A i \in DOMAIN history : i \in DOMAIN history' /\ history'[i] = history[i]
  BY Extended
<1> QED
  BY <1>1 DEF IdsUsedOnce

LEMMA InitRound ==
    ASSUME ChatInit
    PROVE  RoundInv
<1>1. User \in Message /\ User.calls = <<>> /\ Ids(User) = {}
  <2>1. DOMAIN <<>> = {}
    OBVIOUS
  <2> QED
    BY <2>1, ClientTyped DEF Ids
<1>2. /\ history = Append(<<>>, User) /\ Len(history) = 1 /\ DOMAIN history = {1}
      /\ history[1] = User
  BY DEF ChatInit
<1>3. Verdict(history) = Judge(Clean, User)
  <2>1. <<>> \in Seq(Message)
    OBVIOUS
  <2> QED
    BY <1>1, <1>2, <2>1, VerdictOfAppend, VerdictOfNone
<1>4. Verdict(history).ok
  <2>1. Len(User.calls) = 0 /\ Cardinality(Ids(User)) = 0 /\ User.role # "tool"
    BY <1>1, FS_EmptySet DEF User
  <2> QED
    BY <1>1, <1>3, <2>1 DEF Judge, TakeOther, Repeats, Clean
<1>5. phase = "compose" /\ Typed(history)
  BY InitTyped DEF ChatInit
<1> QED
  BY <1>1, <1>2, <1>4, <1>5 DEF RoundInv

LEMMA GoOnRound ==
    ASSUME RoundInv, GoOn
    PROVE  RoundInv'
<1>1. PICK m \in Message :
        /\ Extends(history', history, m) /\ Typed(history') /\ m.calls = <<>>
        /\ IF m.role = "tool" THEN m.id \in Verdict(history).pending
           ELSE Verdict(history).pending = {}
  BY GoOnExtends DEF RoundInv
<1>2. honest' = honest /\ honest /\ phase' = phase /\ phase = "compose" /\ minted' = minted
  BY DEF GoOn, Extend, vars, streamVars, callVars
<1>3. DOMAIN m.calls = {} /\ Ids(m) = {}
  BY <1>1 DEF Ids
<1>4. ASSUME IdsUsedOnce'
      PROVE  Verdict(history').ok
  <2>1. Verdict(history).ok
    BY <1>1, <1>2, <1>4, UsedOnceBefore DEF RoundInv
  <2>2. Verdict(history') = Judge(Verdict(history), m) /\ Verdict(history) \in Verdicts
    BY <1>1, VerdictOfAppend, EveryHistory DEF RoundInv, Extends, Typed
  <2>3. CASE m.role = "tool"
    BY <1>1, <2>1, <2>2, <2>3 DEF Judge, TakeResult, Verdicts
  <2>4. CASE m.role # "tool"
    <3>1. Len(m.calls) = 0 /\ Cardinality(Ids(m)) = 0
      BY <1>1, <1>3, FS_EmptySet
    <3> QED
      BY <1>1, <1>3, <2>1, <2>2, <2>4, <3>1 DEF Judge, TakeOther, Repeats, Verdicts
  <2> QED
    BY <2>3, <2>4
<1>5. \A i \in DOMAIN history' : \A id \in Ids(history'[i]) : id >= -minted
  <2>1. /\ \A i \in DOMAIN history : history'[i] = history[i]
        /\ \A i \in DOMAIN history' : i \in DOMAIN history \/ history'[i] = m
    BY <1>1, Extended
  <2> QED
    BY <1>2, <1>3, <2>1 DEF RoundInv
<1> QED
  BY <1>1, <1>2, <1>4, <1>5 DEF RoundInv

\* The answer's ids are its own: those made here are new, and the others are new unless
\* the upstream has used them before.
LEMMA ReceiveRound ==
    ASSUME IInv, RoundInv, Receive
    PROVE  RoundInv'
<1>1. /\ phase = "stream" /\ phase' = "compose" /\ minted' = minted
      /\ honest' = honest /\ honest /\ Accepted(history)
  BY DEF Receive, RoundInv, Reset
<1>2. CASE status # "ok"
  <2>1. history' = history
    BY <1>2 DEF Receive
  <2> QED
    BY <1>1, <2>1 DEF RoundInv, Accepted
<1>3. CASE status = "ok"
  <2> DEFINE m == Assistant(answer)
  <2>1. /\ m \in Message /\ m.calls = answer /\ m.role = "assistant"
        /\ history' = Append(history, m)
    BY <1>3, AnswerTyped DEF Receive, Assistant
  <2>2. Extends(history', history, m) /\ Typed(history')
    BY <2>1, ExtendTyped DEF RoundInv
  <2>3. /\ DOMAIN answer = DOMAIN calls
        /\ \A k \in DOMAIN answer : answer[k].id = calls[k].id
    <3>1. Len(answer) = Len(calls)
      BY <1>3 DEF IInv, EndInv
    <3>2. DOMAIN answer = DOMAIN calls
      BY <3>1, LenProperties DEF IInv, TypeOK
    <3> QED
      BY <3>2 DEF IInv, AnswerInv
  <2>4. \A id \in Ids(m) : \E s \in DOMAIN calls : calls[s].id = id
    BY <2>1, <2>3 DEF Ids
  <2> HIDE DEF m
  <2>5. ASSUME IdsUsedOnce'
        PROVE  Verdict(history').ok
    <3>1. /\ Verdict(history') = Judge(Verdict(history), m) /\ Verdict(history) \in Verdicts
          /\ Verdict(history).ok /\ Verdict(history).pending = {}
          /\ Fine(Verdict(history), history)
      BY <1>1, <2>1, VerdictOfAppend, EveryHistory DEF RoundInv, Typed, Accepted, Judged
    <3>2. ~(Cardinality(Ids(m)) < Len(m.calls))
      BY <2>1, <2>3, Distinct DEF IInv, IdsInv
    <3>3. ASSUME NEW id \in Ids(m), id \in Verdict(history).seen
          PROVE  FALSE
      <4>1. PICK i \in DOMAIN history : id \in Ids(history[i])
        BY <3>1, <3>3 DEF Fine
      <4>2. PICK n \in DOMAIN history' : n # i /\ history'[n] = m
        BY <2>2, Extended
      <4>3. i \in DOMAIN history' /\ history'[i] = history[i]
        BY <2>2, Extended
      <4>4. id < 0
        BY <2>5, <3>3, <4>1, <4>2, <4>3 DEF IdsUsedOnce
      <4> QED
        BY <1>1, <2>4, <3>3, <4>1, <4>4 DEF RoundInv
    <3> QED
      BY <2>1, <3>1, <3>2, <3>3 DEF Judge, TakeOther, Repeats, Verdicts
  <2>6. \A i \in DOMAIN history' : \A id \in Ids(history'[i]) : id >= -minted
    <3>1. \A id \in Ids(m) : id >= -minted
      BY <2>4 DEF IInv, IdsInv
    <3>2. /\ \A i \in DOMAIN history : history'[i] = history[i]
          /\ \A i \in DOMAIN history' : i \in DOMAIN history \/ history'[i] = m
      BY <2>2, Extended
    <3> QED
      BY <1>1, <3>1, <3>2 DEF RoundInv
  <2> QED
    BY <1>1, <2>2, <2>5, <2>6 DEF RoundInv
<1> QED
  BY <1>2, <1>3

LEMMA StreamRound ==
    ASSUME IInv, RoundInv, phase = "stream", StreamNext, UNCHANGED chatVars
    PROVE  RoundInv'
<1>1. history' = history /\ honest' = honest /\ phase' = phase
  BY DEF chatVars
<1> SUFFICES /\ minted \in Nat /\ minted' \in Nat /\ minted <= minted'
             /\ \A s \in DOMAIN calls' : calls'[s].id < 0 =>
                  \A i \in DOMAIN history : calls'[s].id \notin Ids(history[i])
  <2>1. \A i \in DOMAIN history : Ids(history[i]) \subseteq Int
    BY HistoryDomain, IdsType DEF RoundInv, Typed
  <2>2. ASSUME minted \in Nat, minted' \in Nat, minted <= minted'
        PROVE  honest' => \A i \in DOMAIN history' : \A id \in Ids(history'[i]) : id >= -minted'
    <3>1. \A a, b \in Nat : a <= b => \A id \in Int : id >= -a => id >= -b
      OBVIOUS
    <3> QED
      BY <1>1, <2>1, <2>2, <3>1 DEF RoundInv
  <2>3. IdsUsedOnce' <=> IdsUsedOnce
    BY <1>1 DEF IdsUsedOnce
  <2> QED
    BY <1>1, <2>2, <2>3 DEF RoundInv
<1>2. minted \in Nat
  BY DEF IInv, TypeOK
<1>3. CASE AddCall
  <2>1. PICK m \in PlacedRecord, s \in 1..Len(calls) + 1, c \in Call, d \in Call :
          /\ c = Updated(m) /\ d = IF c.name = NoName THEN c ELSE Sent(c)
          /\ s = IF Slot(m) = 0 THEN Len(calls) + 1 ELSE Slot(m)
          /\ calls' = Put(s, d)
          /\ minted' = IF Slot(m) = 0 /\ m.id = NoId THEN minted + 1 ELSE minted
    BY <1>3, AddCallEffect
  <2>2. d.id = Old(m).id /\ TypeOK
    BY <2>1, UpdatedType DEF Sent, Call, IInv
  <2>3. /\ DOMAIN calls' = DOMAIN calls \cup {s}
        /\ \A j \in DOMAIN calls' : calls'[j] = IF j = s THEN d ELSE calls[j]
    BY <2>1 DEF Put
  <2>4. d.id < 0 => \A i \in DOMAIN history : d.id \notin Ids(history[i])
    <3>1. CASE Slot(m) = 0
      <4>1. d.id = IF m.id = NoId THEN -(minted + 1) ELSE m.id
        BY <2>2, <3>1 DEF Old, NewCall
      <4>2. m.id \in Nat
        BY DEF PlacedRecord
      <4>3. \A i \in DOMAIN history : \A id \in Ids(history[i]) : id >= -minted
        BY DEF RoundInv
      <4>4. \A i \in DOMAIN history : -(minted + 1) \notin Ids(history[i])
        BY <1>2, <4>3
      <4> QED
        BY <4>1, <4>2, <4>4
    <3>2. CASE Slot(m) # 0
      <4>1. d.id = calls[s].id /\ s \in DOMAIN calls
        BY <2>1, <2>2, <3>2, SlotType, CallsDomain DEF Old
      <4> QED
        BY <4>1 DEF RoundInv
    <3> QED
      BY <3>1, <3>2
  <2>5. minted' \in Nat /\ minted <= minted'
    BY <1>2, <2>1
  <2> QED
    BY <1>2, <2>3, <2>4, <2>5 DEF RoundInv
<1>4. CASE Fails
  <2>1. calls' = <<>> /\ minted' = minted /\ DOMAIN calls' = {}
    BY <1>4 DEF Fails, Reset
  <2> QED
    BY <1>2, <2>1
<1>5. CASE UNCHANGED callVars
  BY <1>2, <1>5 DEF callVars, RoundInv
<1> QED
  BY <1>3, <1>4, <1>5 DEF StreamNext, Frame, IgnoreCall, Close, CloseCall, Complete

LEMMA StepRound ==
    ASSUME IInv, RoundInv, [ChatNext]_allVars
    PROVE  RoundInv'
<1>1. CASE Invent
  <2>1. ~honest' /\ phase' = phase /\ phase = "compose"
    BY <1>1 DEF Invent, Extend
  <2>2. Typed(history')
    BY <1>1, StepTyped DEF RoundInv, ChatNext
  <2> QED
    BY <2>1, <2>2 DEF RoundInv
<1>2. CASE Submit
  <2>1. /\ calls' = <<>> /\ DOMAIN calls' = {} /\ minted' = minted
        /\ history' = history /\ honest' = honest /\ honest /\ Accepted(history)
    BY <1>2 DEF Submit, Reset
  <2>2. IdsUsedOnce' <=> IdsUsedOnce
    BY <2>1 DEF IdsUsedOnce
  <2> QED
    BY <2>1, <2>2 DEF RoundInv
<1>3. CASE UNCHANGED allVars
  <2>1. /\ calls' = calls /\ minted' = minted /\ history' = history
        /\ honest' = honest /\ phase' = phase
    BY <1>3 DEF allVars, chatVars, vars, streamVars, callVars
  <2>2. IdsUsedOnce' <=> IdsUsedOnce
    BY <2>1 DEF IdsUsedOnce
  <2> QED
    BY <2>1, <2>2 DEF RoundInv
<1> QED
  BY <1>1, <1>2, <1>3, GoOnRound, ReceiveRound, StreamRound DEF ChatNext, Streaming

LEMMA AlwaysRound == ChatSpec => []RoundInv
<1>1. ChatInit => RoundInv
  BY InitRound
<1>2. IInv /\ RoundInv /\ [ChatNext]_allVars => RoundInv'
  BY StepRound
<1> QED
  BY <1>1, <1>2, ChatInductive, PTL DEF ChatSpec

-------------------------------------------------------------------------------
(* The answers are what is meant *)

LEMMA MeantStep ==
    ASSUME IInv, MeantInv, SnapshotsOnly, WholeTags, [ChatNext]_allVars
    PROVE  MeantInv'
<1>1. CASE Submit \/ Receive
  <2>1. Reset /\ form' \in Forms \cup {"any"}
    BY <1>1 DEF Submit, Receive, NoRequest, Forms
  <2> QED
    BY <2>1, ResetMeant
<1>2. CASE GoOn \/ Invent \/ UNCHANGED allVars
  <2>1. UNCHANGED vars
    BY <1>2 DEF GoOn, Invent, Extend, allVars
  <2> QED
    BY <2>1, StepMeant
<1>3. CASE Streaming
  BY <1>3, StepMeant DEF Streaming
<1> QED
  BY <1>1, <1>2, <1>3 DEF ChatNext

LEMMA AlwaysMeant == SnapshotsOnly /\ WholeTags => (ChatSpec => []MeantInv)
<1> SUFFICES ASSUME SnapshotsOnly, WholeTags PROVE ChatSpec => []MeantInv
  OBVIOUS
<1>1. ChatInit => MeantInv
  BY InitMeant DEF ChatInit
<1>2. IInv /\ MeantInv /\ [ChatNext]_allVars => MeantInv'
  BY MeantStep
<1> QED
  BY <1>1, <1>2, ChatInductive, PTL DEF ChatSpec

-------------------------------------------------------------------------------
(* The theorems of a conversation *)

\* In every request of a conversation, what onDelta has told the client adds up to the
\* text and reasoning of the accumulator, and in the end to the calls of the completion.
THEOREM ConversationDeltasComplete == ChatSpec => []DeltasAddUp
BY ChatInductive, IInvImplies, PTL

\* Every completion of a conversation has only calls its own request allows, with JSON
\* arguments and ids that are distinct within the answer.
THEOREM ConversationAnswersAllowed == ChatSpec => []AnswerAsAsked
BY ChatInductive, IInvImplies, PTL

\* Every completion of a conversation whose events bring all the text so far, never cut
\* inside a tag, is the answer the upstream means, if it keeps to one way of addressing its
\* calls.
THEOREM ConversationAnswersMeant == SnapshotsOnly /\ WholeTags => (ChatSpec => []AnswerIsMeant)
<1> SUFFICES ASSUME SnapshotsOnly, WholeTags PROVE ChatSpec => []AnswerIsMeant
  OBVIOUS
<1>1. IInv /\ MeantInv => AnswerIsMeant
  BY MeantImplies
<1>2. ChatSpec => []MeantInv
  BY AlwaysMeant
<1> QED
  BY <1>1, <1>2, ChatInductive, PTL

\* Whatever is sent as a history, by a client of this gateway or by another, the
\* request passes validateToolHistory exactly if its calls are well answered.
THEOREM ConversationJudged == ChatSpec => []HistoryJudged
<1>1. HistoryTyped => HistoryJudged
  BY HistoriesJudged DEF HistoryTyped, HistoryJudged
<1> QED
  BY <1>1, AlwaysTyped, PTL

\* In a request that passes, buildRoutedIDEBody sends for every result the name that the
\* client gives it, or if it gives none, the name of the very call it answers, in histories
\* of any length and of any origin.
THEOREM ConversationNamed == ChatSpec => []ResultsNamed
<1>1. HistoryTyped => ResultsNamed
  <2> SUFFICES ASSUME Typed(history), Accepted(history), NEW i \in DOMAIN history,
                      history[i].role = "tool"
               PROVE  LET asked == history[Asking(history, i)].calls
                          told_ == NameOf(history, history[i]) IN
                      \E k \in DOMAIN asked :
                        /\ asked[k].id = history[i].id
                        /\ told_ = IF history[i].name = NoName THEN asked[k].name
                                   ELSE history[i].name
    BY DEF HistoryTyped, ResultsNamed
  <2> QED
    BY NamesFound DEF NameOf
<1> QED
  BY <1>1, AlwaysTyped, PTL

\* What the gateway answers it accepts as the history of the next request: the ids made
\* by newID are never used again, in any answer of any length.
THEOREM ConversationGoesOn == ChatSpec => []RoundTrip
<1>1. RoundInv => RoundTrip
  BY DEF RoundInv, RoundTrip
<1> QED
  BY <1>1, AlwaysRound, PTL
===============================================================================
