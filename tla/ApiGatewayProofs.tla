--------------------------- MODULE ApiGatewayProofs ----------------------------
(* Theorems about ApiGateway, for any set of requests and any capacity.        *)
(*                                                                             *)
(* The properties do not follow from themselves: which frame may come next     *)
(* depends on where the handler is, and whether a keepalive may be written on  *)
(* what the handler has done before.  Place ties the position of a handler to  *)
(* the state of its sink, and Beating the flags of the sink to its last frame. *)
EXTENDS ApiGateway, FiniteSetTheorems, SequenceTheorems, TLAPS

\* The frames of a response end with one of these; none at all only after a failed write.
Ends(r, frames) == IF wire[r] = <<>> THEN broken[r] ELSE Last(wire[r]) \in frames

\* Nothing has been written or tried.
Fresh(r) == wire[r] = <<>> /\ ~started[r] /\ ~finished[r] /\ ~broken[r]

\* In a stream that has not come to its end.
Speaking(r, frames) == stream[r] /\ started[r] /\ ~finished[r] /\ Ends(r, frames)

Place(r) ==
    /\ pc[r] = "new" => ~ended[r]
    /\ pc[r] \in {"new", "gate", "slot"} => Fresh(r)
    /\ pc[r] \in {"prompt", "finish"} =>
        IF stream[r] THEN Speaking(r, {"role", "delta"}) ELSE Fresh(r)
    /\ pc[r] = "error" => Fresh(r) \/ Speaking(r, {"role", "delta"})
    /\ pc[r] = "usage" => Speaking(r, {"finish"})
    /\ pc[r] = "done" =>
        \/ Speaking(r, {"finish", "usage", "error"})
        \/ Speaking(r, {"role", "delta"}) /\ (ended[r] \/ broken[r])
    /\ pc[r] = "seal" => Speaking(r, {"role", "delta", "autherror"})

\* When a keepalive may come, it comes after a frame of a running stream.
Beating(r) ==
    BeatAllowed(r) => wire[r] # <<>> /\ Last(wire[r]) \notin {"DONE", "json", "errjson"}

Inside(r) == pinged[r] \cap {"nothing", "end", "DONE", "json", "errjson"} = {}

Well(r) ==
    \A k \in DOMAIN wire[r] :
        LET before == IF k = 1 THEN "start" ELSE wire[r][k - 1]
        IN  before \in Before(wire[r][k]) \/ CutShort(r, before, wire[r][k])

Local(r) == Place(r) /\ Beating(r) /\ Inside(r) /\ Well(r)

SlotsInv == IsFiniteSet(Holding) /\ slots = Cardinality(Holding) /\ slots <= MaxConcurrent

IInv == TypeOK /\ SlotsInv /\ \A r \in Requests : Local(r)

-------------------------------------------------------------------------------
(* The response *)

LEMMA LastType ==
    ASSUME NEW S, NEW s \in Seq(S), s # <<>>
    PROVE  /\ Len(s) \in Nat \ {0} /\ DOMAIN s = 1..Len(s)
           /\ Last(s) = s[Len(s)] /\ Last(s) \in S
<1>1. Len(s) \in Nat /\ DOMAIN s = 1..Len(s) /\ Len(s) # 0
  BY LenProperties, EmptySeq
<1>2. Last(s) = s[Len(s)]
  BY DEF Last
<1>3. s[Len(s)] \in S
  BY <1>1, ElementOfSeq
<1> QED
  BY <1>1, <1>2, <1>3

\* What comes before the next frame of the response.
Prior(r) == IF wire[r] = <<>> THEN "start" ELSE Last(wire[r])

\* The frame may be put there.
MayFollow(r, frame) ==
    \/ Prior(r) \in Before(frame) \/ CutShort(r, Prior(r), frame)
    \/ frame = "delta" /\ Prior(r) = "delta"

\* A context that has ended stays so: what was in order remains in order.
LEMMA WellStays ==
    ASSUME NEW r \in Requests, Well(r), wire'[r] = wire[r], ended[r] => ended'[r]
    PROVE  Well(r)'
BY DEF Well, CutShort, Before

\* After Put the frame is the last one, and the response is well formed if the frame
\* may come here.
LEMMA PutEffect ==
    ASSUME TypeOK, NEW r \in Requests, NEW frame \in Frames, Put(r, frame),
           ended[r] => ended'[r]
    PROVE  /\ wire' \in [Requests -> Seq(Frames)]
           /\ wire'[r] # <<>> /\ Last(wire'[r]) = frame
           /\ \A q \in Requests \ {r} : wire'[q] = wire[q]
           /\ Well(r) /\ MayFollow(r, frame) => Well(r)'
<1> DEFINE s == wire[r]
<1>1. s \in Seq(Frames) /\ wire \in [Requests -> Seq(Frames)]
  BY DEF TypeOK
<1>2. /\ Append(s, frame) \in Seq(Frames) /\ Len(Append(s, frame)) = Len(s) + 1
      /\ \A i \in 1..Len(s) : Append(s, frame)[i] = s[i]
      /\ Append(s, frame)[Len(s) + 1] = frame
      /\ Len(s) \in Nat /\ DOMAIN s = 1..Len(s)
  BY <1>1, AppendProperties, LenProperties
<1>3. Append(s, frame) # <<>>
  BY <1>2, EmptySeq
<1>4. DOMAIN Append(s, frame) = 1..Len(s) + 1
  BY <1>2, LenProperties
<1>5. CASE frame = "delta" /\ s # <<>> /\ Last(s) = "delta"
  <2>1. wire' = [wire EXCEPT ![r] = s]
    BY <1>5 DEF Put
  <2>2. wire' = wire
    BY <1>1, <2>1
  <2> QED
    BY <1>1, <1>5, <2>2, WellStays
<1>6. CASE ~(frame = "delta" /\ s # <<>> /\ Last(s) = "delta")
  <2>1. wire' = [wire EXCEPT ![r] = Append(s, frame)]
    BY <1>6 DEF Put
  <2>2. wire'[r] = Append(s, frame) /\ \A q \in Requests \ {r} : wire'[q] = wire[q]
    BY <1>1, <2>1
  <2>3. wire' \in [Requests -> Seq(Frames)]
    BY <1>1, <1>2, <2>1
  <2>4. Last(wire'[r]) = frame
    BY <1>2, <1>3, <2>2, LastType
  <2>5. ASSUME Well(r), MayFollow(r, frame)
        PROVE  Well(r)'
    <3>1. Prior(r) \in Before(frame) \/ CutShort(r, Prior(r), frame)
      BY <1>6, <2>5 DEF MayFollow, Prior
    <3>2. Prior(r) = IF Len(s) = 0 THEN "start" ELSE s[Len(s)]
      BY <1>1, <1>2, LastType, EmptySeq DEF Prior
    <3> DEFINE before(k) == IF k = 1 THEN "start" ELSE wire'[r][k - 1]
    <3>3. ASSUME NEW k \in 1..Len(s) + 1
          PROVE  \/ before(k) \in Before(wire'[r][k])
                 \/ ended'[r] /\ wire'[r][k] = "DONE" /\ before(k) \in {"role", "delta"}
      <4>1. CASE k = Len(s) + 1
        <5>1. wire'[r][k] = frame /\ (k = 1 <=> Len(s) = 0)
          BY <1>2, <2>2, <4>1
        <5>2. k # 1 => wire'[r][k - 1] = s[Len(s)]
          BY <1>2, <2>2, <4>1
        <5>3. before(k) = Prior(r)
          BY <3>2, <5>1, <5>2
        <5> QED
          BY <3>1, <5>1, <5>3 DEF CutShort
      <4>2. CASE k \in 1..Len(s)
        <5> DEFINE old == IF k = 1 THEN "start" ELSE s[k - 1]
        <5>1. wire'[r][k] = s[k] /\ (k # 1 => wire'[r][k - 1] = s[k - 1])
          BY <1>2, <2>2, <4>2
        <5>2. old \in Before(s[k]) \/ CutShort(r, old, s[k])
          BY <1>2, <2>5, <4>2 DEF Well
        <5>3. before(k) = old
          BY <5>1
        <5> QED
          BY <5>1, <5>2, <5>3 DEF CutShort
      <4> QED
        BY <1>2, <4>1, <4>2
    <3> QED
      BY <1>4, <2>2, <3>3 DEF Well, CutShort, Before
  <2> QED
    BY <1>3, <2>2, <2>3, <2>4, <2>5
<1> QED
  BY <1>5, <1>6

-------------------------------------------------------------------------------
(* One sink *)

SinkType ==
    /\ started \in [Requests -> BOOLEAN] /\ finished \in [Requests -> BOOLEAN]
    /\ broken \in [Requests -> BOOLEAN]
    /\ wire \in [Requests -> Seq(Frames)]
    /\ pinged \in [Requests -> SUBSET (Frames \cup {"nothing", "end"})]

\* The step leaves the sink of this request alone.
SameSink(q) ==
    /\ started'[q] = started[q] /\ finished'[q] = finished[q] /\ broken'[q] = broken[q]
    /\ wire'[q] = wire[q] /\ pinged'[q] = pinged[q]

\* What holds of a sink wherever its handler is.
Sound(r) == Beating(r) /\ Inside(r) /\ Well(r)

LEMMA SentEffect ==
    ASSUME TypeOK, NEW r \in Requests, NEW frame \in Frames \ {"DONE", "json", "errjson"},
           Sent(r, frame), Sound(r), MayFollow(r, frame), ended[r] => ended'[r]
    PROVE  /\ SinkType' /\ Sound(r)' /\ \A q \in Requests \ {r} : SameSink(q)
           /\ started'[r] /\ ~finished'[r] /\ ~broken'[r]
           /\ wire'[r] # <<>> /\ Last(wire'[r]) = frame
<1>1. /\ wire' \in [Requests -> Seq(Frames)]
      /\ wire'[r] # <<>> /\ Last(wire'[r]) = frame
      /\ \A q \in Requests \ {r} : wire'[q] = wire[q]
      /\ Well(r)'
  BY PutEffect DEF Sent, Sound
<1>2. /\ started' = [started EXCEPT ![r] = TRUE] /\ ~broken[r] /\ ~finished[r]
      /\ finished' = finished /\ broken' = broken /\ pinged' = pinged
  BY DEF Sent, Writable
<1>3. SinkType' /\ \A q \in Requests \ {r} : SameSink(q)
  BY <1>1, <1>2 DEF TypeOK, SinkType, SameSink
<1>4. started'[r] /\ ~finished'[r] /\ ~broken'[r]
  BY <1>2 DEF TypeOK
<1>5. Beating(r)' /\ Inside(r)'
  BY <1>1, <1>2 DEF Sound, Beating, Inside
<1> QED
  BY <1>1, <1>3, <1>4, <1>5 DEF Sound

LEMMA NotSentEffect ==
    ASSUME TypeOK, NEW r \in Requests, NotSent(r), Sound(r), Fresh(r) \/ started[r],
           ended[r] => ended'[r]
    PROVE  /\ SinkType' /\ Sound(r)' /\ \A q \in Requests \ {r} : SameSink(q)
           /\ finished'[r] = finished[r] /\ wire'[r] = wire[r]
           /\ (started[r] => started'[r]) /\ (broken[r] => broken'[r])
           /\ Fresh(r) => Fresh(r)' \/ (started'[r] /\ broken'[r])
           /\ ended[r] \/ finished[r] \/ broken'[r]
<1>1. CASE ~Writable(r) /\ UNCHANGED sinkVars
  <2>1. UNCHANGED <<started, finished, broken, wire, pinged>>
    BY <1>1 DEF sinkVars
  <2>2. SinkType' /\ \A q \in Requests \ {r} : SameSink(q)
    BY <2>1 DEF TypeOK, SinkType, SameSink
  <2>3. Sound(r)'
    BY <2>1, WellStays DEF Sound, Beating, BeatAllowed, Inside
  <2>4. Fresh(r) => Fresh(r)'
    BY <2>1 DEF Fresh
  <2>5. /\ ended[r] \/ finished[r] \/ broken'[r]
        /\ finished'[r] = finished[r] /\ wire'[r] = wire[r]
        /\ (started[r] => started'[r]) /\ (broken[r] => broken'[r])
    BY <1>1, <2>1 DEF Writable
  <2> QED
    BY <2>2, <2>3, <2>4, <2>5
<1>2. CASE /\ started' = [started EXCEPT ![r] = TRUE]
           /\ broken' = [broken EXCEPT ![r] = TRUE]
           /\ UNCHANGED <<finished, wire, pinged>>
  <2>1. started'[r] /\ broken'[r]
    BY <1>2 DEF TypeOK
  <2>2. SinkType' /\ \A q \in Requests \ {r} : SameSink(q)
    BY <1>2 DEF TypeOK, SinkType, SameSink
  <2>3. Sound(r)'
    BY <1>2, <2>1, WellStays DEF Sound, Beating, BeatAllowed, Inside
  <2> QED
    BY <1>2, <2>1, <2>2, <2>3
<1> QED
  BY <1>1, <1>2 DEF NotSent

LEMMA HeartbeatEffect ==
    ASSUME TypeOK, NEW r \in Requests, Heartbeat(r), Sound(r), ended[r] => ended'[r]
    PROVE  /\ SinkType' /\ Sound(r)' /\ \A q \in Requests \ {r} : SameSink(q)
           /\ started' = started /\ finished' = finished /\ wire' = wire
           /\ broken[r] => broken'[r]
           /\ ~started[r] => broken'[r] = broken[r]
<1>1. CASE UNCHANGED sinkVars
  BY <1>1, WellStays DEF sinkVars, TypeOK, SinkType, SameSink, Sound, Beating, BeatAllowed,
                         Inside
<1>2. CASE /\ BeatAllowed(r)
           /\ pinged' = [pinged EXCEPT ![r] = @ \cup {Tip(r)}]
           /\ UNCHANGED <<started, finished, broken, wire>>
  <2>1. wire[r] # <<>> /\ Last(wire[r]) \notin {"DONE", "json", "errjson"}
    BY <1>2 DEF Sound, Beating
  <2>2. wire[r] \in Seq(Frames)
    BY DEF TypeOK
  <2>3. Last(wire[r]) \in Frames
    BY <2>1, <2>2, LastType
  <2>4. Last(wire[r]) \notin {"nothing", "end"} /\ Tip(r) = Last(wire[r])
    BY <1>2, <2>1, <2>3 DEF Frames, BeatAllowed, Tip
  <2>5. pinged'[r] = pinged[r] \cup {Last(wire[r])}
    BY <1>2, <2>4 DEF TypeOK
  <2>6. pinged' = [pinged EXCEPT ![r] = pinged[r] \cup {Last(wire[r])}]
    BY <1>2, <2>4
  <2>7. SinkType'
    BY <1>2, <2>3, <2>6 DEF TypeOK, SinkType
  <2>8. \A q \in Requests \ {r} : SameSink(q)
    BY <1>2, <2>6 DEF TypeOK, SameSink
  <2>9. Inside(r)'
    BY <2>1, <2>4, <2>5 DEF Sound, Inside
  <2> QED
    BY <1>2, <2>7, <2>8, <2>9, WellStays DEF Sound, Beating, BeatAllowed
<1>3. CASE /\ BeatAllowed(r)
           /\ broken' = [broken EXCEPT ![r] = TRUE]
           /\ UNCHANGED <<started, finished, wire, pinged>>
  <2>1. broken'[r]
    BY <1>3 DEF TypeOK
  <2>2. SinkType' /\ \A q \in Requests \ {r} : SameSink(q)
    BY <1>3 DEF TypeOK, SinkType, SameSink
  <2> QED
    BY <1>3, <2>1, <2>2, WellStays DEF Sound, Beating, BeatAllowed, Inside
<1> QED
  BY <1>1, <1>2, <1>3 DEF Heartbeat

LEMMA JSONEffect ==
    ASSUME TypeOK, NEW r \in Requests, NEW frame \in {"json", "errjson"}, PutJSON(r, frame),
           Sound(r), Fresh(r), ended[r] => ended'[r]
    PROVE  SinkType' /\ Sound(r)' /\ \A q \in Requests \ {r} : SameSink(q)
<1>1. frame \in Frames /\ MayFollow(r, frame)
  BY DEF Frames, MayFollow, Prior, Before, Fresh
<1>2. /\ wire' \in [Requests -> Seq(Frames)] /\ Well(r)'
      /\ \A q \in Requests \ {r} : wire'[q] = wire[q]
  BY <1>1, PutEffect DEF PutJSON, Sound
<1>3. UNCHANGED <<started, finished, broken, pinged>>
  BY DEF PutJSON
<1> QED
  BY <1>2, <1>3 DEF TypeOK, SinkType, SameSink, Sound, Beating, BeatAllowed, Inside, Fresh

LEMMA DoneEffect ==
    ASSUME TypeOK, NEW r \in Requests, PutDone(r), Sound(r), ended[r] => ended'[r],
           \/ Ends(r, {"finish", "usage", "error"})
           \/ Ends(r, {"role", "delta"}) /\ (ended[r] \/ broken[r])
    PROVE  SinkType' /\ Sound(r)' /\ \A q \in Requests \ {r} : SameSink(q)
<1>1. CASE broken[r]
  BY <1>1, WellStays DEF PutDone, sinkVars, TypeOK, SinkType, SameSink, Sound, Beating,
                         BeatAllowed, Inside
<1>2. CASE ~broken[r]
  <2>1. /\ finished' = [finished EXCEPT ![r] = TRUE]
        /\ \/ Put(r, "DONE") /\ UNCHANGED broken
           \/ broken' = [broken EXCEPT ![r] = TRUE] /\ UNCHANGED wire
        /\ UNCHANGED <<started, pinged>>
    BY <1>2 DEF PutDone
  <2>2. "DONE" \in Frames /\ MayFollow(r, "DONE")
    BY <1>2 DEF Frames, MayFollow, CutShort, Prior, Before, Ends
  <2>3. /\ wire' \in [Requests -> Seq(Frames)] /\ Well(r)'
        /\ \A q \in Requests \ {r} : wire'[q] = wire[q]
    <3>1. CASE Put(r, "DONE")
      BY <2>2, <3>1, PutEffect DEF Sound
    <3>2. CASE UNCHANGED wire
      BY <3>2, WellStays DEF Sound, TypeOK
    <3> QED
      BY <2>1, <3>1, <3>2
  <2>4. finished'[r]
    BY <2>1 DEF TypeOK
  <2>5. /\ finished' \in [Requests -> BOOLEAN] /\ broken' \in [Requests -> BOOLEAN]
        /\ \A q \in Requests \ {r} : finished'[q] = finished[q] /\ broken'[q] = broken[q]
    BY <2>1 DEF TypeOK
  <2>6. SinkType'
    BY <2>1, <2>3, <2>5 DEF TypeOK, SinkType
  <2>7. \A q \in Requests \ {r} : SameSink(q)
    BY <2>1, <2>3, <2>5 DEF SameSink
  <2>8. Beating(r)'
    BY <2>4 DEF Beating, BeatAllowed
  <2>9. Inside(r)'
    BY <2>1 DEF Sound, Inside
  <2> QED
    BY <2>3, <2>6, <2>7, <2>8, <2>9 DEF Sound
<1> QED
  BY <1>1, <1>2

-------------------------------------------------------------------------------
(* The slots *)

Held == {"slot", "prompt"}

LEMMA HoldingStays ==
    ASSUME TypeOK, SlotsInv, NEW r \in Requests, NEW to, pc' = [pc EXCEPT ![r] = to],
           pc[r] \in Held <=> to \in Held, slots' = slots
    PROVE  SlotsInv'
<1>1. Holding' = Holding
  BY DEF Holding, Held, TypeOK
<1> QED
  BY <1>1 DEF SlotsInv

LEMMA SlotTaken ==
    ASSUME TypeOK, SlotsInv, NEW r \in Requests, pc[r] \notin Held,
           pc' = [pc EXCEPT ![r] = "slot"], slots < MaxConcurrent, slots' = slots + 1
    PROVE  SlotsInv' /\ slots' \in Nat
<1>1. Holding' = Holding \cup {r} /\ r \notin Holding
  BY DEF Holding, Held, TypeOK
<1>2. /\ IsFiniteSet(Holding \cup {r})
      /\ Cardinality(Holding \cup {r}) = Cardinality(Holding) + 1
  BY <1>1, FS_AddElement DEF SlotsInv
<1> QED
  BY <1>1, <1>2, ConcurrencyAssumption DEF SlotsInv, TypeOK

LEMMA SlotFreed ==
    ASSUME TypeOK, SlotsInv, NEW r \in Requests, pc[r] \in Held, FreeSlot,
           NEW to, pc' = [pc EXCEPT ![r] = to], to \notin Held
    PROVE  SlotsInv' /\ slots' \in Nat
<1>1. Holding' = Holding \ {r} /\ r \in Holding
  BY DEF Holding, Held, TypeOK
<1>2. /\ IsFiniteSet(Holding \ {r})
      /\ Cardinality(Holding \ {r}) = Cardinality(Holding) - 1
  BY <1>1, FS_RemoveElement DEF SlotsInv
<1>3. Cardinality(Holding \ {r}) \in Nat
  BY <1>2, FS_CardinalityType
<1> QED
  BY <1>1, <1>2, <1>3, ConcurrencyAssumption DEF SlotsInv, TypeOK, FreeSlot

-------------------------------------------------------------------------------
(* A step of one request *)

ReqType ==
    /\ slots \in Nat /\ stopped \in BOOLEAN
    /\ pc \in [Requests -> {"new", "gate", "slot", "prompt", "finish", "usage", "done",
                            "error", "seal", "close", "gone"}]
    /\ stream \in [Requests -> BOOLEAN] /\ ended \in [Requests -> BOOLEAN]
    /\ beat \in [Requests -> {"none", "on", "ended"}]
    /\ fault \in [Requests -> {"none", "auth", "other"}]

LEMMA TypeParts == TypeOK <=> ReqType /\ SinkType
BY DEF TypeOK, ReqType, SinkType

\* A step of request r keeps the invariant if it does so for r.
LEMMA OneRequest ==
    ASSUME IInv, NEW r \in Requests, ReqType', SinkType', SlotsInv', Place(r)', Sound(r)',
           \A q \in Requests \ {r} : /\ pc'[q] = pc[q] /\ stream'[q] = stream[q]
                                       /\ ended'[q] = ended[q] /\ SameSink(q)
    PROVE  IInv'
<1>1. TypeOK'
  BY DEF TypeOK, ReqType, SinkType
<1>2. ASSUME NEW q \in Requests \ {r}
      PROVE  Local(q)'
  <2>1. /\ pc'[q] = pc[q] /\ stream'[q] = stream[q] /\ ended'[q] = ended[q]
        /\ started'[q] = started[q] /\ finished'[q] = finished[q] /\ broken'[q] = broken[q]
        /\ wire'[q] = wire[q] /\ pinged'[q] = pinged[q]
    BY DEF SameSink
  <2>2. Place(q) /\ Beating(q) /\ Inside(q) /\ Well(q)
    BY DEF IInv, Local
  <2>3. Place(q)'
    BY <2>1, <2>2 DEF Place, Fresh, Speaking, Ends
  <2>4. Beating(q)' /\ Inside(q)' /\ Well(q)'
    BY <2>1, <2>2, WellStays DEF Beating, BeatAllowed, Inside
  <2> QED
    BY <2>3, <2>4 DEF Local
<1>3. Local(r)'
  BY DEF Local, Sound
<1> QED
  BY <1>1, <1>2, <1>3 DEF IInv

\* A step that writes nothing.
LEMMA SilentSink ==
    ASSUME TypeOK, NEW r \in Requests, Sound(r), UNCHANGED sinkVars,
           ended[r] => ended'[r]
    PROVE  /\ SinkType' /\ Sound(r)' /\ \A q \in Requests : SameSink(q)
           /\ Fresh(r) => Fresh(r)'
BY WellStays DEF sinkVars, TypeOK, SinkType, SameSink, Sound, Beating, BeatAllowed, Inside, Fresh

LEMMA ArriveInv ==
    ASSUME IInv, NEW r \in Requests, Arrive(r)
    PROVE  IInv'
<1>1. TypeOK /\ SlotsInv /\ Sound(r) /\ Fresh(r) /\ pc[r] = "new" /\ ~ended[r]
  BY DEF IInv, Local, Sound, Place, Arrive
<1>2. SlotsInv'
  BY <1>1, HoldingStays DEF Arrive, Goto, Held
<1>3. CASE /\ \E s \in BOOLEAN :
                (s => r \in MayStream) /\ stream' = [stream EXCEPT ![r] = s]
           /\ Goto(r, "gate")
           /\ beat' = [beat EXCEPT ![r] = IF stream'[r] THEN "on" ELSE "none"]
           /\ UNCHANGED sinkVars
  <2>1. SinkType' /\ Sound(r)' /\ (\A q \in Requests : SameSink(q)) /\ Fresh(r)'
    BY <1>1, <1>3, SilentSink
  <2>2. pc'[r] = "gate" /\ ReqType'
        /\ \A q \in Requests \ {r} :
            pc'[q] = pc[q] /\ stream'[q] = stream[q] /\ ended'[q] = ended[q]
    BY <1>1, <1>3 DEF Arrive, Goto, TypeOK, ReqType
  <2>3. Place(r)'
    BY <2>1, <2>2 DEF Place
  <2> QED
    BY <1>2, <2>1, <2>2, <2>3, OneRequest
<1>4. CASE /\ PutJSON(r, "errjson")
           /\ Goto(r, "gone")
           /\ UNCHANGED <<stream, beat>>
  <2>1. SinkType' /\ Sound(r)' /\ \A q \in Requests \ {r} : SameSink(q)
    BY <1>1, <1>4, JSONEffect
  <2>2. pc'[r] = "gone" /\ ReqType'
        /\ \A q \in Requests \ {r} :
            pc'[q] = pc[q] /\ stream'[q] = stream[q] /\ ended'[q] = ended[q]
    BY <1>1, <1>4 DEF Arrive, Goto, TypeOK, ReqType
  <2>3. Place(r)'
    BY <2>2 DEF Place
  <2> QED
    BY <1>2, <2>1, <2>2, <2>3, OneRequest
<1> QED
  BY <1>3, <1>4 DEF Arrive

\* Before the stream, and the ways out of execute: nothing is written.
LEMMA GateInv ==
    ASSUME IInv, NEW r \in Requests,
           AcquireGate(r) \/ GateFails(r) \/ ExecuteFails(r) \/ ExecuteEnds(r)
    PROVE  IInv'
<1>1. TypeOK /\ SlotsInv /\ Sound(r) /\ Place(r)
  BY DEF IInv, Local, Sound
<1>2. UNCHANGED <<stopped, stream, ended, beat, sinkVars>> /\ (ended[r] => ended'[r])
  BY DEF AcquireGate, GateFails, ExecuteFails, ExecuteEnds
<1>3. /\ SinkType' /\ Sound(r)' /\ \A q \in Requests : SameSink(q)
      /\ Fresh(r) => Fresh(r)'
  BY <1>1, <1>2, SilentSink
<1>4. /\ Speaking(r, {"role", "delta"}) => Speaking(r, {"role", "delta"})'
      /\ stream'[r] = stream[r]
  BY <1>2 DEF sinkVars, Speaking, Ends
<1>5. ASSUME NEW to, pc' = [pc EXCEPT ![r] = to], SlotsInv', Place(r)', ReqType'
      PROVE  IInv'
  <2>1. \A q \in Requests \ {r} :
            pc'[q] = pc[q] /\ stream'[q] = stream[q] /\ ended'[q] = ended[q]
    BY <1>1, <1>2, <1>5 DEF TypeOK
  <2> QED
    BY <1>3, <1>5, <2>1, OneRequest
<1>6. CASE AcquireGate(r)
  <2>1. pc' = [pc EXCEPT ![r] = "slot"] /\ pc'[r] = "slot" /\ pc[r] = "gate"
    BY <1>1, <1>6 DEF AcquireGate, Goto, TypeOK
  <2>2. SlotsInv' /\ slots' \in Nat
    BY <1>1, <1>6, <2>1, SlotTaken DEF AcquireGate, HasRoom, Held
  <2>3. Place(r)'
    BY <1>1, <1>3, <2>1 DEF Place
  <2>4. ReqType'
    BY <1>1, <1>2, <1>6, <2>1, <2>2 DEF AcquireGate, TypeOK, ReqType
  <2> QED
    BY <1>5, <2>1, <2>2, <2>3, <2>4
<1>7. CASE GateFails(r)
  <2>1. pc' = [pc EXCEPT ![r] = "error"] /\ pc'[r] = "error" /\ pc[r] = "gate"
    BY <1>1, <1>7 DEF GateFails, Fail, Goto, TypeOK
  <2>2. SlotsInv'
    BY <1>1, <1>7, <2>1, HoldingStays DEF GateFails, Held
  <2>3. Place(r)'
    BY <1>1, <1>3, <2>1 DEF Place
  <2>4. ReqType'
    BY <1>1, <1>2, <1>7, <2>1 DEF GateFails, Fail, TypeOK, ReqType
  <2> QED
    BY <1>5, <2>1, <2>2, <2>3, <2>4
<1>8. CASE ExecuteFails(r)
  <2>1. pc' = [pc EXCEPT ![r] = "error"] /\ pc'[r] = "error" /\ pc[r] \in Held
    BY <1>1, <1>8 DEF ExecuteFails, Fail, Goto, TypeOK, Held
  <2>2. SlotsInv' /\ slots' \in Nat
    BY <1>1, <1>8, <2>1, SlotFreed DEF ExecuteFails, Held
  <2>3. Place(r)'
    BY <1>1, <1>3, <1>4, <2>1 DEF Place, Held
  <2>4. ReqType'
    BY <1>1, <1>2, <1>8, <2>1, <2>2 DEF ExecuteFails, Fail, TypeOK, ReqType
  <2> QED
    BY <1>5, <2>1, <2>2, <2>3, <2>4
<1>9. CASE ExecuteEnds(r)
  <2>1. pc' = [pc EXCEPT ![r] = "finish"] /\ pc'[r] = "finish" /\ pc[r] = "prompt"
    BY <1>1, <1>9 DEF ExecuteEnds, Goto, TypeOK
  <2>2. SlotsInv' /\ slots' \in Nat
    BY <1>1, <1>9, <2>1, SlotFreed DEF ExecuteEnds, Held
  <2>3. Place(r)'
    BY <1>1, <1>3, <1>4, <2>1 DEF Place
  <2>4. ReqType'
    BY <1>1, <1>2, <1>9, <2>1, <2>2 DEF ExecuteEnds, TypeOK, ReqType
  <2> QED
    BY <1>5, <2>1, <2>2, <2>3, <2>4
<1> QED
  BY <1>6, <1>7, <1>8, <1>9

\* A frame that could not be sent leaves the response where it was.
LEMMA StillSpeaking ==
    ASSUME TypeOK, NEW r \in Requests, NEW S, Speaking(r, S), Sound(r), UNCHANGED <<stream, ended>>,
           NotSent(r) \/ Heartbeat(r) \/ UNCHANGED sinkVars
    PROVE  Speaking(r, S)'
<1> ended[r] => ended'[r]
  OBVIOUS
<1>1. CASE NotSent(r)
  <2>1. /\ finished'[r] = finished[r] /\ wire'[r] = wire[r]
        /\ (started[r] => started'[r]) /\ (broken[r] => broken'[r])
    BY <1>1, NotSentEffect DEF Speaking
  <2> QED
    BY <2>1 DEF Speaking, Ends
<1>2. CASE Heartbeat(r)
  <2>1. started' = started /\ finished' = finished /\ wire' = wire /\ (broken[r] => broken'[r])
    BY <1>2, HeartbeatEffect
  <2> QED
    BY <2>1 DEF Speaking, Ends
<1>3. CASE UNCHANGED sinkVars
  BY <1>3 DEF sinkVars, Speaking, Ends
<1> QED
  BY <1>1, <1>2, <1>3

LEMMA NotStarted ==
    ASSUME TypeOK, NEW r \in Requests, Fresh(r), stream[r], Sound(r),
           UNCHANGED <<stream, ended>>, NotSent(r)
    PROVE  Fresh(r)' \/ Speaking(r, {"role", "delta"})'
<1>1. /\ finished'[r] = finished[r] /\ wire'[r] = wire[r]
      /\ Fresh(r)' \/ (started'[r] /\ broken'[r])
  BY NotSentEffect
<1> QED
  BY <1>1 DEF Fresh, Speaking, Ends

\* What a step that only goes on, fails with its slot, or stays has to show.
LEMMA GoesOn ==
    ASSUME IInv, NEW r \in Requests, UNCHANGED <<stopped, stream, ended, beat>>,
           SinkType', Sound(r)', \A q \in Requests \ {r} : SameSink(q), Place(r)',
           NEW to \in {"slot", "prompt", "finish", "usage", "done", "error", "seal", "close",
                       "gone"},
           pc' = [pc EXCEPT ![r] = to],
           \/ slots' = slots /\ (pc[r] \in Held <=> to \in Held)
           \/ FreeSlot /\ pc[r] \in Held /\ to \notin Held,
           fault' \in [Requests -> {"none", "auth", "other"}]
    PROVE  IInv'
<1>1. TypeOK /\ SlotsInv
  BY DEF IInv
<1>2. SlotsInv' /\ slots' \in Nat
  <2>1. CASE slots' = slots /\ (pc[r] \in Held <=> to \in Held)
    BY <1>1, <2>1, HoldingStays DEF TypeOK
  <2>2. CASE FreeSlot /\ pc[r] \in Held /\ to \notin Held
    BY <1>1, <2>2, SlotFreed
  <2> QED
    BY <2>1, <2>2
<1>3. ReqType' /\ \A q \in Requests \ {r} :
                      pc'[q] = pc[q] /\ stream'[q] = stream[q] /\ ended'[q] = ended[q]
  BY <1>1, <1>2 DEF TypeOK, ReqType
<1> QED
  BY <1>2, <1>3, OneRequest

LEMMA StartStreamInv ==
    ASSUME IInv, NEW r \in Requests, StartStream(r)
    PROVE  IInv'
<1>1. /\ TypeOK /\ Sound(r) /\ Fresh(r) /\ pc[r] = "slot"
      /\ UNCHANGED <<stopped, stream, ended, beat>> /\ (ended[r] => ended'[r])
  BY DEF IInv, Local, Sound, Place, StartStream
<1>2. CASE ~stream[r] /\ Goto(r, "prompt") /\ UNCHANGED <<slots, fault, sinkVars>>
  <2>1. SinkType' /\ Sound(r)' /\ (\A q \in Requests : SameSink(q)) /\ Fresh(r)'
    BY <1>1, <1>2, SilentSink
  <2>2. pc' = [pc EXCEPT ![r] = "prompt"] /\ pc'[r] = "prompt" /\ ~stream'[r]
    BY <1>1, <1>2 DEF Goto, TypeOK
  <2>3. Place(r)'
    BY <2>1, <2>2 DEF Place
  <2> QED
    BY <1>1, <1>2, <2>1, <2>2, <2>3, GoesOn DEF Held, TypeOK
<1>3. CASE stream[r] /\ Sent(r, "role") /\ Goto(r, "prompt") /\ UNCHANGED <<slots, fault>>
  <2>1. "role" \in Frames \ {"DONE", "json", "errjson"} /\ MayFollow(r, "role")
    BY <1>1 DEF Frames, MayFollow, Prior, Before, Fresh
  <2>2. /\ SinkType' /\ Sound(r)' /\ \A q \in Requests \ {r} : SameSink(q)
        /\ started'[r] /\ ~finished'[r] /\ wire'[r] # <<>> /\ Last(wire'[r]) = "role"
    BY <1>1, <1>3, <2>1, SentEffect
  <2>3. pc' = [pc EXCEPT ![r] = "prompt"] /\ pc'[r] = "prompt" /\ stream'[r]
    BY <1>1, <1>3 DEF Goto, TypeOK
  <2>4. Place(r)'
    BY <2>2, <2>3 DEF Place, Speaking, Ends
  <2> QED
    BY <1>1, <1>3, <2>2, <2>3, <2>4, GoesOn DEF Held, TypeOK
<1>4. CASE stream[r] /\ NotSent(r) /\ Fail(r, "other") /\ FreeSlot
  <2>1. SinkType' /\ Sound(r)' /\ \A q \in Requests \ {r} : SameSink(q)
    BY <1>1, <1>4, NotSentEffect
  <2>2. Fresh(r)' \/ Speaking(r, {"role", "delta"})'
    BY <1>1, <1>4, NotStarted
  <2>3. pc' = [pc EXCEPT ![r] = "error"] /\ pc'[r] = "error"
    BY <1>1, <1>4 DEF Fail, Goto, TypeOK
  <2>4. Place(r)'
    BY <2>2, <2>3 DEF Place
  <2>5. fault' \in [Requests -> {"none", "auth", "other"}]
    BY <1>1, <1>4 DEF Fail, TypeOK
  <2> QED
    BY <1>1, <1>4, <2>1, <2>3, <2>4, <2>5, GoesOn DEF Held
<1> QED
  BY <1>2, <1>3, <1>4 DEF StartStream

LEMMA PromptInv ==
    ASSUME IInv, NEW r \in Requests, Delta(r) \/ UpstreamBeat(r)
    PROVE  IInv'
<1>1. /\ TypeOK /\ Sound(r) /\ Speaking(r, {"role", "delta"}) /\ pc[r] = "prompt" /\ stream[r]
      /\ started[r] /\ UNCHANGED <<stopped, stream, ended, beat>> /\ (ended[r] => ended'[r])
  BY DEF IInv, Local, Sound, Place, Speaking, Delta, UpstreamBeat
<1>2. ASSUME SinkType', Sound(r)', \A q \in Requests \ {r} : SameSink(q),
             Speaking(r, {"role", "delta"})', UNCHANGED <<slots, pc, fault>>
      PROVE  IInv'
  <2>1. pc' = [pc EXCEPT ![r] = "prompt"] /\ pc'[r] = "prompt" /\ stream'[r]
    BY <1>1, <1>2 DEF TypeOK
  <2>2. Place(r)'
    BY <1>2, <2>1 DEF Place
  <2> QED
    BY <1>1, <1>2, <2>1, <2>2, GoesOn DEF Held, TypeOK
<1>3. ASSUME SinkType', Sound(r)', \A q \in Requests \ {r} : SameSink(q),
             Speaking(r, {"role", "delta"})', Fail(r, "other"), FreeSlot
      PROVE  IInv'
  <2>1. pc' = [pc EXCEPT ![r] = "error"] /\ pc'[r] = "error"
    BY <1>1, <1>3 DEF Fail, Goto, TypeOK
  <2>2. Place(r)'
    BY <1>3, <2>1 DEF Place
  <2>3. fault' \in [Requests -> {"none", "auth", "other"}]
    BY <1>1, <1>3 DEF Fail, TypeOK
  <2> QED
    BY <1>1, <1>3, <2>1, <2>2, <2>3, GoesOn DEF Held
<1>4. CASE Sent(r, "delta") /\ UNCHANGED <<slots, pc, fault>>
  <2>1. ~broken[r]
    BY <1>4 DEF Sent, Writable
  <2>2. /\ "delta" \in Frames \ {"DONE", "json", "errjson"}
        /\ MayFollow(r, "delta")
    BY <1>1, <2>1 DEF Frames, MayFollow, Prior, Before, Speaking, Ends
  <2>3. /\ SinkType' /\ Sound(r)' /\ \A q \in Requests \ {r} : SameSink(q)
        /\ started'[r] /\ ~finished'[r] /\ wire'[r] # <<>> /\ Last(wire'[r]) = "delta"
    BY <1>1, <1>4, <2>2, SentEffect
  <2>4. Speaking(r, {"role", "delta"})'
    BY <1>1, <2>3 DEF Speaking, Ends
  <2> QED
    BY <1>2, <1>4, <2>3, <2>4
<1>5. CASE NotSent(r) /\ Fail(r, "other") /\ FreeSlot
  BY <1>1, <1>3, <1>5, NotSentEffect, StillSpeaking
<1>6. CASE /\ Heartbeat(r)
           /\ IF broken'[r] THEN Fail(r, "other") /\ FreeSlot ELSE UNCHANGED <<slots, pc, fault>>
  <2>1. SinkType' /\ Sound(r)' /\ \A q \in Requests \ {r} : SameSink(q)
    BY <1>1, <1>6, HeartbeatEffect
  <2>2. Speaking(r, {"role", "delta"})'
    BY <1>1, <1>6, StillSpeaking
  <2> QED
    BY <1>2, <1>3, <1>6, <2>1, <2>2
<1> QED
  BY <1>4, <1>5, <1>6 DEF Delta, UpstreamBeat

-------------------------------------------------------------------------------
(* The end of a response *)

\* The handler is past its slot: only where it goes and what it writes matter.
LEMMA AfterSlot ==
    ASSUME IInv, NEW r \in Requests, pc[r] \notin Held,
           UNCHANGED <<slots, stopped, stream, fault, ended, beat>>,
           SinkType', Sound(r)', \A q \in Requests \ {r} : SameSink(q),
           NEW to \in {"usage", "done", "error", "seal", "close", "gone"}, Goto(r, to),
           pc'[r] = to => Place(r)'
    PROVE  IInv'
<1>1. pc' = [pc EXCEPT ![r] = to] /\ pc'[r] = to
  BY DEF Goto, IInv, TypeOK
<1> QED
  BY <1>1, GoesOn DEF Held, IInv, TypeOK

LEMMA FinishInv ==
    ASSUME IInv, NEW r \in Requests, Finish(r)
    PROVE  IInv'
<1>1. /\ TypeOK /\ Sound(r) /\ Place(r) /\ pc[r] = "finish" /\ pc[r] \notin Held
      /\ UNCHANGED <<slots, stopped, stream, fault, ended, beat>> /\ (ended[r] => ended'[r])
  BY DEF IInv, Local, Sound, Finish, Held
<1>2. CASE ~stream[r] /\ PutJSON(r, "json") /\ Goto(r, "close")
  <2>1. SinkType' /\ Sound(r)' /\ \A q \in Requests \ {r} : SameSink(q)
    BY <1>1, <1>2, JSONEffect DEF Place
  <2> QED
    BY <1>1, <1>2, <2>1, AfterSlot DEF Place
<1>3. CASE stream[r] /\ Sent(r, "finish") /\ \E to \in {"usage", "done"} : Goto(r, to)
  <2>1. ~broken[r] /\ Speaking(r, {"role", "delta"})
    BY <1>1, <1>3 DEF Sent, Writable, Place
  <2>2. "finish" \in Frames \ {"DONE", "json", "errjson"} /\ MayFollow(r, "finish")
    BY <2>1 DEF Frames, MayFollow, Prior, Before, Speaking, Ends
  <2>3. /\ SinkType' /\ Sound(r)' /\ \A q \in Requests \ {r} : SameSink(q)
        /\ started'[r] /\ ~finished'[r] /\ wire'[r] # <<>> /\ Last(wire'[r]) = "finish"
    BY <1>1, <1>3, <2>2, SentEffect
  <2>4. PICK to \in {"usage", "done"} : Goto(r, to)
    BY <1>3
  <2>5. pc'[r] = to => Place(r)'
    BY <1>1, <1>3, <2>3 DEF Place, Speaking, Ends
  <2> QED
    BY <1>1, <2>3, <2>4, <2>5, AfterSlot
<1>4. CASE stream[r] /\ NotSent(r) /\ Goto(r, "close")
  <2>1. SinkType' /\ Sound(r)' /\ \A q \in Requests \ {r} : SameSink(q)
    BY <1>1, <1>4, NotSentEffect DEF Place, Speaking
  <2> QED
    BY <1>1, <1>4, <2>1, AfterSlot DEF Place
<1> QED
  BY <1>2, <1>3, <1>4 DEF Finish

LEMMA UsageInv ==
    ASSUME IInv, NEW r \in Requests, Usage(r)
    PROVE  IInv'
<1>1. /\ TypeOK /\ Sound(r) /\ Speaking(r, {"finish"}) /\ started[r] /\ pc[r] \notin Held
      /\ UNCHANGED <<slots, stopped, stream, fault, ended, beat>> /\ (ended[r] => ended'[r])
  BY DEF IInv, Local, Sound, Place, Speaking, Usage, Held
<1>2. CASE Sent(r, "usage") /\ Goto(r, "done")
  <2>1. ~broken[r]
    BY <1>2 DEF Sent, Writable
  <2>2. "usage" \in Frames \ {"DONE", "json", "errjson"} /\ MayFollow(r, "usage")
    BY <1>1, <2>1 DEF Frames, MayFollow, Prior, Before, Speaking, Ends
  <2>3. /\ SinkType' /\ Sound(r)' /\ \A q \in Requests \ {r} : SameSink(q)
        /\ started'[r] /\ ~finished'[r] /\ wire'[r] # <<>> /\ Last(wire'[r]) = "usage"
    BY <1>1, <1>2, <2>2, SentEffect
  <2>4. pc'[r] = "done" => Place(r)'
    BY <1>1, <2>3 DEF Place, Speaking, Ends
  <2> QED
    BY <1>1, <1>2, <2>3, <2>4, AfterSlot
<1>3. CASE NotSent(r) /\ Goto(r, "close")
  <2>1. SinkType' /\ Sound(r)' /\ \A q \in Requests \ {r} : SameSink(q)
    BY <1>1, <1>3, NotSentEffect
  <2> QED
    BY <1>1, <1>3, <2>1, AfterSlot DEF Place
<1> QED
  BY <1>2, <1>3 DEF Usage

LEMMA WriteErrorInv ==
    ASSUME IInv, NEW r \in Requests, WriteError(r)
    PROVE  IInv'
<1>1. /\ TypeOK /\ Sound(r) /\ pc[r] \notin Held
      /\ Fresh(r) \/ Speaking(r, {"role", "delta"})
      /\ UNCHANGED <<slots, stopped, stream, fault, ended, beat>> /\ (ended[r] => ended'[r])
  BY DEF IInv, Local, Sound, Place, WriteError, Held
<1> DEFINE frame == IF fault[r] = "auth" THEN "autherror" ELSE "error"
           to == IF fault[r] = "auth" THEN "seal" ELSE "done"
<1>2. CASE InStream(r) /\ (Sent(r, frame) \/ NotSent(r)) /\ Goto(r, to)
  <2>1. Speaking(r, {"role", "delta"}) /\ started[r] /\ stream[r]
    BY <1>1, <1>2 DEF InStream, Fresh
  <2>2. CASE Sent(r, frame)
    <3>1. ~broken[r]
      BY <2>2 DEF Sent, Writable
    <3>2. frame \in Frames \ {"DONE", "json", "errjson"} /\ MayFollow(r, frame)
      BY <2>1, <3>1 DEF Frames, MayFollow, Prior, Before, Speaking, Ends
    <3>3. /\ SinkType' /\ Sound(r)' /\ \A q \in Requests \ {r} : SameSink(q)
          /\ started'[r] /\ ~finished'[r] /\ wire'[r] # <<>> /\ Last(wire'[r]) = frame
      BY <1>1, <2>2, <3>2, SentEffect
    <3>4. pc'[r] = to => Place(r)'
      BY <1>1, <2>1, <3>3 DEF Place, Speaking, Ends
    <3> QED
      BY <1>1, <1>2, <3>3, <3>4, AfterSlot
  <2>3. CASE NotSent(r)
    <3>1. SinkType' /\ Sound(r)' /\ \A q \in Requests \ {r} : SameSink(q)
      BY <1>1, <2>1, <2>3, NotSentEffect
    <3>2. Speaking(r, {"role", "delta"})'
      BY <1>1, <2>1, <2>3, StillSpeaking
    <3>3. ended'[r] \/ broken'[r]
      BY <1>1, <2>1, <2>3, NotSentEffect DEF Speaking
    <3>4. pc'[r] = to => Place(r)'
      BY <3>2, <3>3 DEF Place, Speaking, Ends
    <3> QED
      BY <1>1, <1>2, <3>1, <3>4, AfterSlot
  <2> QED
    BY <1>2, <2>2, <2>3
<1>3. CASE ~InStream(r) /\ PutJSON(r, "errjson") /\ Goto(r, "close")
  <2>1. Fresh(r)
    BY <1>1, <1>3 DEF InStream, Speaking
  <2>2. SinkType' /\ Sound(r)' /\ \A q \in Requests \ {r} : SameSink(q)
    BY <1>1, <1>3, <2>1, JSONEffect
  <2> QED
    BY <1>1, <1>3, <2>2, AfterSlot DEF Place
<1> QED
  BY <1>2, <1>3 DEF WriteError

LEMMA CloseInv ==
    ASSUME IInv, NEW r \in Requests, Done(r) \/ Seal(r) \/ Return(r)
    PROVE  IInv'
<1>1. /\ TypeOK /\ Sound(r) /\ Place(r) /\ pc[r] \notin Held
      /\ UNCHANGED <<slots, stopped, stream, fault, ended, beat>> /\ (ended[r] => ended'[r])
  BY DEF IInv, Local, Sound, Done, Seal, Return, Held
<1>2. CASE Done(r)
  <2>1. \/ Ends(r, {"finish", "usage", "error"})
        \/ Ends(r, {"role", "delta"}) /\ (ended[r] \/ broken[r])
    BY <1>1, <1>2 DEF Done, Place, Speaking
  <2>2. SinkType' /\ Sound(r)' /\ \A q \in Requests \ {r} : SameSink(q)
    BY <1>1, <1>2, <2>1, DoneEffect DEF Done
  <2> QED
    BY <1>1, <1>2, <2>2, AfterSlot DEF Done, Place
<1>3. CASE Seal(r)
  <2>1. /\ finished' = [finished EXCEPT ![r] = TRUE] /\ finished'[r]
        /\ UNCHANGED <<started, broken, wire, pinged>>
    BY <1>1, <1>3 DEF Seal, TypeOK
  <2>2. SinkType' /\ \A q \in Requests \ {r} : SameSink(q)
    BY <1>1, <2>1 DEF TypeOK, SinkType, SameSink
  <2>3. Sound(r)'
    BY <1>1, <2>1, WellStays DEF Sound, Beating, BeatAllowed, Inside
  <2> QED
    BY <1>1, <1>3, <2>2, <2>3, AfterSlot DEF Seal, Place
<1>4. CASE Return(r)
  <2>1. SinkType' /\ Sound(r)' /\ \A q \in Requests : SameSink(q)
    BY <1>1, <1>4, SilentSink DEF Return
  <2> QED
    BY <1>1, <1>4, <2>1, AfterSlot DEF Return, Place
<1> QED
  BY <1>2, <1>3, <1>4

-------------------------------------------------------------------------------
(* The keepalive goroutine, the client, and shutdown *)

LEMMA BeatInv ==
    ASSUME IInv, NEW r \in Requests, Beat(r)
    PROVE  IInv'
<1>1. /\ TypeOK /\ SlotsInv /\ Sound(r) /\ Place(r) /\ Heartbeat(r)
      /\ UNCHANGED <<slots, stopped, pc, stream, fault, ended, beat>>
      /\ ended[r] => ended'[r]
  BY DEF IInv, Local, Sound, Beat, reqVars
<1>2. /\ SinkType' /\ Sound(r)' /\ \A q \in Requests \ {r} : SameSink(q)
      /\ started' = started /\ finished' = finished /\ wire' = wire
      /\ broken[r] => broken'[r]
      /\ ~started[r] => broken'[r] = broken[r]
  BY <1>1, HeartbeatEffect
<1>3. Fresh(r) => Fresh(r)'
  BY <1>2 DEF Fresh
<1>4. \A S : Speaking(r, S) => Speaking(r, S)'
  BY <1>1, <1>2 DEF Speaking, Ends
<1>5. /\ pc'[r] = pc[r] /\ stream'[r] = stream[r] /\ ended'[r] = ended[r]
      /\ broken[r] => broken'[r]
  BY <1>1, <1>2
<1>6. Place(r)'
  BY <1>1, <1>3, <1>4, <1>5 DEF Place
<1>7. SlotsInv' /\ ReqType'
  BY <1>1 DEF SlotsInv, Holding, TypeOK, ReqType
<1> QED
  BY <1>1, <1>2, <1>6, <1>7, OneRequest

\* Nothing the invariant speaks of changes but whose context has ended.
LEMMA ContextInv ==
    ASSUME IInv, UNCHANGED <<slots, reqVars, sinkVars>>, stopped' \in BOOLEAN,
           ended' \in [Requests -> BOOLEAN],
           \A r \in Requests : ended[r] => ended'[r],
           \A r \in Requests : pc[r] = "new" => ended'[r] = ended[r],
           beat' \in [Requests -> {"none", "on", "ended"}]
    PROVE  IInv'
<1>1. /\ UNCHANGED <<slots, pc, stream, fault>>
      /\ UNCHANGED <<started, finished, broken, wire, pinged>>
  BY DEF reqVars, sinkVars
<1>2. TypeOK'
  BY <1>1 DEF IInv, TypeOK
<1>3. SlotsInv'
  BY <1>1 DEF IInv, SlotsInv, Holding
<1>4. \A r \in Requests : Place(r) => Place(r)'
  BY <1>1 DEF Place, Fresh, Speaking, Ends
<1>5. \A r \in Requests :
        Beating(r) /\ Inside(r) /\ Well(r) => Beating(r)' /\ Inside(r)' /\ Well(r)'
  BY <1>1, WellStays DEF Beating, BeatAllowed, Inside
<1> QED
  BY <1>2, <1>3, <1>4, <1>5 DEF IInv, Local

LEMMA InitInv == Init => IInv
<1> SUFFICES ASSUME Init PROVE IInv
  OBVIOUS
<1>1. <<>> \in Seq(Frames) /\ DOMAIN <<>> = {}
  BY EmptySeq
<1>2. TypeOK
  BY <1>1 DEF Init, TypeOK
<1>3. SlotsInv
  <2>1. Holding = {}
    BY DEF Init, Holding
  <2> QED
    BY <2>1, FS_EmptySet, ConcurrencyAssumption DEF Init, SlotsInv
<1>4. ASSUME NEW r \in Requests
      PROVE  Local(r)
  BY <1>1 DEF Init, Local, Place, Fresh, Beating, BeatAllowed, Inside, Well
<1> QED
  BY <1>2, <1>3, <1>4 DEF IInv

LEMMA StepInv ==
    ASSUME IInv, [Next]_vars
    PROVE  IInv'
<1>1. ASSUME NEW r \in Requests, Handler(r)
      PROVE  IInv'
  BY <1>1, GateInv, StartStreamInv, PromptInv, FinishInv, UsageInv, CloseInv, WriteErrorInv
     DEF Handler
<1>2. ASSUME NEW r \in Requests, BeatEnds(r) \/ ClientLeaves(r)
      PROVE  IInv'
  <2>1. UNCHANGED <<slots, reqVars, sinkVars>>
    BY <1>2 DEF BeatEnds, ClientLeaves
  <2>2. /\ stopped' \in BOOLEAN /\ ended' \in [Requests -> BOOLEAN]
        /\ \A q \in Requests : ended[q] => ended'[q]
        /\ \A q \in Requests : pc[q] = "new" => ended'[q] = ended[q]
        /\ beat' \in [Requests -> {"none", "on", "ended"}]
    BY <1>2 DEF BeatEnds, ClientLeaves, IInv, TypeOK
  <2> QED
    BY <2>1, <2>2, ContextInv
<1>3. CASE Shutdown
  <2>1. /\ UNCHANGED <<slots, reqVars, sinkVars>>
        /\ stopped' \in BOOLEAN /\ ended' \in [Requests -> BOOLEAN]
        /\ \A r \in Requests : ended[r] => ended'[r]
        /\ \A r \in Requests : pc[r] = "new" => ended'[r] = ended[r]
        /\ beat' \in [Requests -> {"none", "on", "ended"}]
    BY <1>3 DEF Shutdown, IInv, TypeOK
  <2> QED
    BY <2>1, ContextInv
<1>4. CASE UNCHANGED vars
  <2>1. /\ UNCHANGED <<slots, reqVars, sinkVars>>
        /\ stopped' \in BOOLEAN /\ ended' \in [Requests -> BOOLEAN]
        /\ \A r \in Requests : ended[r] => ended'[r]
        /\ \A r \in Requests : pc[r] = "new" => ended'[r] = ended[r]
        /\ beat' \in [Requests -> {"none", "on", "ended"}]
    BY <1>4 DEF vars, IInv, TypeOK
  <2> QED
    BY <2>1, ContextInv
<1> QED
  BY <1>1, <1>2, <1>3, <1>4, ArriveInv, BeatInv DEF Next

LEMMA Inductive == Spec => []IInv
BY InitInv, StepInv, PTL DEF Spec

-------------------------------------------------------------------------------
(* The theorems *)

\* The tokens in server.slots are always as many as the requests inside execute, and
\* never more than --max-concurrent: every way out gives its token back exactly once.
THEOREM SlotsRight == Spec => []SlotsMatch
<1>1. IInv => SlotsMatch
  BY DEF IInv, SlotsInv, SlotsMatch
<1> QED
  BY <1>1, Inductive, PTL

\* The frames that chat, the sink and writeExecutionError write for one request are
\* always in order, wherever the client leaves, a write fails or the server stops; only
\* where the request's context has ended may [DONE] stand without an end or an error.
THEOREM ResponsesWellFormed == Spec => []WellFormed
<1>1. IInv => WellFormed
  BY DEF IInv, Local, Well, WellFormed
<1> QED
  BY <1>1, Inductive, PTL

\* heartbeat, from the goroutine or from the upstream's comments, never writes before the
\* first frame of a stream, nor once done() or finish() has closed it, nor into a response
\* that is no stream.
THEOREM KeepalivesInside == Spec => []KeepaliveInside
<1>1. IInv => KeepaliveInside
  BY DEF IInv, Local, Inside, KeepaliveInside
<1> QED
  BY <1>1, Inductive, PTL
===============================================================================
