------------------------------- MODULE ApiGateway ------------------------------
(* POST /v1/chat/completions: the handler (chat), the limit on concurrent      *)
(* upstream calls (acquireGate, execute), the event stream (streamSink) with   *)
(* its keepalive goroutine, and the cancellation of everything at shutdown.    *)
(*                                                                             *)
(* A response is the sequence of frames that reached the connection, its       *)
(* consecutive deltas written once, and the set of places in it where a        *)
(* keepalive was written.  The handler and the keepalive goroutine take the    *)
(* mutex of the sink for each frame, so every frame is an action.  What the    *)
(* frames say, and how the upstream's events become deltas, is left out.       *)
EXTENDS Naturals, FiniteSets, Sequences, SequencesExt

CONSTANTS
    Requests,       \* requests that may be in flight at once
    MayStream,      \* those that may ask for a stream; requests share slots only
    MaxConcurrent   \* capacity of server.slots

ASSUME ConcurrencyAssumption == MaxConcurrent \in Nat \ {0} /\ MayStream \subseteq Requests

VARIABLES
    slots,          \* tokens in the channel server.slots
    stopped,        \* server.ctx has been cancelled
    pc,             \* each handler's position
    stream,         \* the request asks for a stream
    ended,          \* its context has ended
    started, finished, broken,  \* streamSink.started, .finished and .err
    beat,           \* the keepalive goroutine: "none", "on", "ended"
    fault,          \* the error being reported: "none", "auth" (401), "other"
    wire, pinged    \* the response

sinkVars == <<started, finished, broken, wire, pinged>>
reqVars == <<pc, stream, fault>>
vars == <<slots, stopped, reqVars, ended, beat, sinkVars>>

Frames == {"role", "delta", "finish", "usage", "error", "autherror", "DONE", "json", "errjson"}

\* A request that has not arrived, or whose connection carries the next one.
Init ==
    /\ slots = 0 /\ stopped = FALSE
    /\ pc = [r \in Requests |-> "new"]
    /\ stream = [r \in Requests |-> FALSE]
    /\ ended = [r \in Requests |-> FALSE]
    /\ started = [r \in Requests |-> FALSE]
    /\ finished = [r \in Requests |-> FALSE]
    /\ broken = [r \in Requests |-> FALSE]
    /\ beat = [r \in Requests |-> "none"]
    /\ fault = [r \in Requests |-> "none"]
    /\ wire = [r \in Requests |-> <<>>]
    /\ pinged = [r \in Requests |-> {}]

-------------------------------------------------------------------------------
(* streamSink *)

\* A run of deltas counts as one.
Put(r, frame) ==
    wire' = [wire EXCEPT ![r] = IF frame = "delta" /\ @ # <<>> /\ Last(@) = "delta" THEN @
                                ELSE Append(@, frame)]

\* writeLocked: does it come to a write?
Writable(r) == ~broken[r] /\ ~finished[r] /\ ~ended[r]

\* send returned nil.
Sent(r, frame) ==
    /\ Writable(r)
    /\ started' = [started EXCEPT ![r] = TRUE]
    /\ Put(r, frame)
    /\ UNCHANGED <<finished, broken, pinged>>

\* send returned an error: nothing was tried, or the write failed.
NotSent(r) ==
    \/ ~Writable(r) /\ UNCHANGED sinkVars
    \/ /\ Writable(r)
       /\ started' = [started EXCEPT ![r] = TRUE]
       /\ broken' = [broken EXCEPT ![r] = TRUE]
       /\ UNCHANGED <<finished, wire, pinged>>

\* (Mutation: the terminal frame does not end the keepalives.)
BeatUnlessBroken(r) == started[r] /\ ~broken[r]

\* When a keepalive may be written.
BeatAllowed(r) == started[r] /\ ~finished[r] /\ ~broken[r]

\* Where the response is: before its first frame, after its end, or after a frame.
Tip(r) ==
    IF finished[r] THEN "end" ELSE IF wire[r] = <<>> THEN "nothing" ELSE Last(wire[r])

\* heartbeat, on the timer or when the upstream sends a comment.
Heartbeat(r) ==
    \/ ~BeatAllowed(r) /\ UNCHANGED sinkVars
    \/ /\ BeatAllowed(r)
       /\ pinged' = [pinged EXCEPT ![r] = @ \cup {Tip(r)}]
       /\ UNCHANGED <<started, finished, broken, wire>>
    \/ /\ BeatAllowed(r)
       /\ broken' = [broken EXCEPT ![r] = TRUE]
       /\ UNCHANGED <<started, finished, wire, pinged>>

\* done: the context is not looked at.
PutDone(r) ==
    IF broken[r] THEN UNCHANGED sinkVars
    ELSE /\ finished' = [finished EXCEPT ![r] = TRUE]
         /\ \/ Put(r, "DONE") /\ UNCHANGED broken
            \/ broken' = [broken EXCEPT ![r] = TRUE] /\ UNCHANGED wire
         /\ UNCHANGED <<started, pinged>>

\* A response without a stream, or before it has started.
PutJSON(r, frame) ==
    /\ Put(r, frame)
    /\ UNCHANGED <<started, finished, broken, pinged>>

-------------------------------------------------------------------------------
(* chat and execute *)

Goto(r, to) == pc' = [pc EXCEPT ![r] = to]

\* The handler goes on with an error: writeExecutionError decides what to write.
Fail(r, kind) ==
    /\ Goto(r, "error")
    /\ fault' = [fault EXCEPT ![r] = kind]

\* The deferred receive from server.slots.
FreeSlot == slots' = slots - 1

\* decodeBody and decodeChatRequest; a late request has a context that has ended.
Arrive(r) ==
    /\ pc[r] = "new"
    /\ ended' = [ended EXCEPT ![r] = stopped]
    /\ \/ /\ \E s \in BOOLEAN :
                (s => r \in MayStream) /\ stream' = [stream EXCEPT ![r] = s]
          /\ Goto(r, "gate")
          /\ beat' = [beat EXCEPT ![r] = IF stream'[r] THEN "on" ELSE "none"]
          /\ UNCHANGED sinkVars
       \/ /\ PutJSON(r, "errjson")       \* no valid request
          /\ Goto(r, "gone")
          /\ UNCHANGED <<stream, beat>>
    /\ UNCHANGED <<slots, stopped, fault>>

\* (Mutation: one too many.)
HasRoomPlusOne == slots <= MaxConcurrent

HasRoom == slots < MaxConcurrent

AcquireGate(r) ==
    /\ pc[r] = "gate" /\ HasRoom
    /\ slots' = slots + 1
    /\ Goto(r, "slot")
    /\ UNCHANGED <<stopped, stream, fault, ended, beat, sinkVars>>

\* Invalid, cancelled, or waiting for too long.
GateFails(r) ==
    /\ pc[r] = "gate"
    /\ Fail(r, "other")
    /\ UNCHANGED <<slots, stopped, stream, ended, beat, sinkVars>>

\* No credential, no such model; or the call upstream fails, times out or is cancelled.
ExecuteFails(r) ==
    /\ pc[r] \in {"slot", "prompt"}
    /\ \E kind \in {"auth", "other"} : Fail(r, kind)
    /\ FreeSlot
    /\ UNCHANGED <<stopped, stream, ended, beat, sinkVars>>

\* The model is known: the stream starts.
StartStream(r) ==
    /\ pc[r] = "slot"
    /\ \/ ~stream[r] /\ Goto(r, "prompt") /\ UNCHANGED <<slots, fault, sinkVars>>
       \/ stream[r] /\ Sent(r, "role") /\ Goto(r, "prompt") /\ UNCHANGED <<slots, fault>>
       \/ stream[r] /\ NotSent(r) /\ Fail(r, "other") /\ FreeSlot
    /\ UNCHANGED <<stopped, stream, ended, beat>>

Delta(r) ==
    /\ pc[r] = "prompt" /\ stream[r]
    /\ \/ Sent(r, "delta") /\ UNCHANGED <<slots, pc, fault>>
       \/ NotSent(r) /\ Fail(r, "other") /\ FreeSlot
    /\ UNCHANGED <<stopped, stream, ended, beat>>

\* The upstream's keepalive is passed on; its error ends the call.
UpstreamBeat(r) ==
    /\ pc[r] = "prompt" /\ stream[r]
    /\ Heartbeat(r)
    /\ IF broken'[r] THEN Fail(r, "other") /\ FreeSlot ELSE UNCHANGED <<slots, pc, fault>>
    /\ UNCHANGED <<stopped, stream, ended, beat>>

ExecuteEnds(r) ==
    /\ pc[r] = "prompt"
    /\ Goto(r, "finish")
    /\ FreeSlot
    /\ UNCHANGED <<stopped, stream, fault, ended, beat, sinkVars>>

\* The whole answer at once, or the last chunk of the stream.
Finish(r) ==
    /\ pc[r] = "finish"
    /\ \/ ~stream[r] /\ PutJSON(r, "json") /\ Goto(r, "close")
       \/ stream[r] /\ Sent(r, "finish") /\ \E to \in {"usage", "done"} : Goto(r, to)
       \/ stream[r] /\ NotSent(r) /\ Goto(r, "close")
    /\ UNCHANGED <<slots, stopped, stream, fault, ended, beat>>

Usage(r) ==
    /\ pc[r] = "usage"
    /\ \/ Sent(r, "usage") /\ Goto(r, "done")
       \/ NotSent(r) /\ Goto(r, "close")
    /\ UNCHANGED <<slots, stopped, stream, fault, ended, beat>>

Done(r) ==
    /\ pc[r] = "done"
    /\ PutDone(r)
    /\ Goto(r, "close")
    /\ UNCHANGED <<slots, stopped, stream, fault, ended, beat>>

\* (Mutation: errors always have a status of their own.)
InStreamNever(r) == FALSE

\* hasStarted: an error must be told inside the stream.
InStream(r) == stream[r] /\ started[r]

\* writeExecutionError; whether the error frame could be sent is not looked at.
WriteError(r) ==
    /\ pc[r] = "error"
    /\ \/ /\ InStream(r)
          /\ Sent(r, IF fault[r] = "auth" THEN "autherror" ELSE "error") \/ NotSent(r)
          /\ Goto(r, IF fault[r] = "auth" THEN "seal" ELSE "done")
       \/ ~InStream(r) /\ PutJSON(r, "errjson") /\ Goto(r, "close")
    /\ UNCHANGED <<slots, stopped, stream, fault, ended, beat>>

\* After an authentication error the stream ends without a terminal frame.
Seal(r) ==
    /\ pc[r] = "seal"
    /\ finished' = [finished EXCEPT ![r] = TRUE]
    /\ Goto(r, "close")
    /\ UNCHANGED <<slots, stopped, stream, fault, ended, beat, started, broken, wire, pinged>>

\* close waits for the goroutine.
BeatJoined(r) == beat[r] # "on"

\* The handler returns, and net/http takes the connection back.
Return(r) ==
    /\ pc[r] = "close" /\ BeatJoined(r)
    /\ Goto(r, "gone")
    /\ UNCHANGED <<slots, stopped, stream, fault, ended, beat, sinkVars>>

-------------------------------------------------------------------------------
(* The keepalive goroutine, the client, and shutdown *)

Beat(r) ==
    /\ beat[r] = "on"
    /\ Heartbeat(r)
    /\ UNCHANGED <<slots, stopped, reqVars, ended, beat>>

\* (Mutation: the goroutine does not look at stop.)
BeatEndsWithContext(r) ==
    /\ beat[r] = "on" /\ ended[r]
    /\ beat' = [beat EXCEPT ![r] = "ended"]
    /\ UNCHANGED <<slots, stopped, reqVars, ended, sinkVars>>

BeatEnds(r) ==
    /\ beat[r] = "on" /\ (pc[r] = "close" \/ ended[r])
    /\ beat' = [beat EXCEPT ![r] = "ended"]
    /\ UNCHANGED <<slots, stopped, reqVars, ended, sinkVars>>

ClientLeaves(r) ==
    /\ pc[r] \notin {"new", "gone"} /\ ~ended[r]
    /\ ended' = [ended EXCEPT ![r] = TRUE]
    /\ UNCHANGED <<slots, stopped, reqVars, beat, sinkVars>>

\* shutdown: the context of every request ends with that of the server.
Shutdown ==
    /\ ~stopped /\ stopped' = TRUE
    /\ ended' = [r \in Requests |-> ended[r] \/ pc[r] \notin {"new", "gone"}]
    /\ UNCHANGED <<slots, reqVars, beat, sinkVars>>

Handler(r) ==
    \/ AcquireGate(r) \/ GateFails(r) \/ ExecuteFails(r)
    \/ StartStream(r) \/ Delta(r) \/ UpstreamBeat(r) \/ ExecuteEnds(r)
    \/ Finish(r) \/ Usage(r) \/ Done(r)
    \/ WriteError(r) \/ Seal(r) \/ Return(r)

Next ==
    \/ \E r \in Requests : Arrive(r) \/ Handler(r) \/ Beat(r) \/ BeatEnds(r) \/ ClientLeaves(r)
    \/ Shutdown

Spec == Init /\ [][Next]_vars

\* Handlers go on: the gate, the call upstream and every write have a time limit.
FairSpec ==
    /\ Spec
    /\ \A r \in Requests :
        /\ WF_vars(Handler(r)) /\ WF_vars(ExecuteFails(r) \/ ExecuteEnds(r))
        /\ WF_vars(BeatEnds(r))

-------------------------------------------------------------------------------
(* Properties *)

Holding == {r \in Requests : pc[r] \in {"slot", "prompt"}}

TypeOK ==
    /\ slots \in Nat /\ stopped \in BOOLEAN
    /\ pc \in [Requests -> {"new", "gate", "slot", "prompt", "finish", "usage", "done",
                            "error", "seal", "close", "gone"}]
    /\ stream \in [Requests -> BOOLEAN] /\ ended \in [Requests -> BOOLEAN]
    /\ started \in [Requests -> BOOLEAN] /\ finished \in [Requests -> BOOLEAN]
    /\ broken \in [Requests -> BOOLEAN]
    /\ beat \in [Requests -> {"none", "on", "ended"}]
    /\ fault \in [Requests -> {"none", "auth", "other"}]
    /\ wire \in [Requests -> Seq(Frames)]
    /\ pinged \in [Requests -> SUBSET (Frames \cup {"nothing", "end"})]

\* Every way out of execute gives its slot back exactly once, and at most
\* MaxConcurrent calls are upstream at a time.
SlotsMatch == slots = Cardinality(Holding) /\ slots <= MaxConcurrent

\* What may come right before a frame of a response; "start" before the first one.
Before(frame) ==
    CASE frame \in {"role", "json", "errjson"} -> {"start"}
      [] frame \in {"delta"} -> {"role"}
      [] frame \in {"finish", "error", "autherror"} -> {"role", "delta"}
      [] frame = "usage" -> {"finish"}
      [] frame = "DONE" -> {"finish", "usage", "error"}

\* The context of r ended inside its stream: the sink refuses every frame but [DONE],
\* which may then stand where the error should have stood.
CutShort(r, before, frame) == ended[r] /\ frame = "DONE" /\ before \in {"role", "delta"}

\* Every response is in order: a stream starts with the role, once; no delta comes after
\* its end or its error; there is one finish, one usage, one error at most; an error
\* status is never mixed with a started stream; nothing follows [DONE] or an
\* authentication error; and [DONE] comes after the end or the error, unless the
\* request's own context has ended.  (examples/README.md wants a finish_reason with every
\* [DONE], and examples/chat_client.py refuses a stream that is CutShort.)
WellFormed ==
    \A r \in Requests : \A k \in DOMAIN wire[r] :
        LET before == IF k = 1 THEN "start" ELSE wire[r][k - 1]
        IN  before \in Before(wire[r][k]) \/ CutShort(r, before, wire[r][k])

\* A keepalive is never the first thing written, which would turn a later error
\* status into a success, never part of a response that is no stream, and never comes
\* after done() or finish() have closed the stream.  (Between an authentication error
\* and the finish() that follows it a keepalive may still come.)
KeepaliveInside ==
    \A r \in Requests : pinged[r] \cap {"nothing", "end", "DONE", "json", "errjson"} = {}

\* Every request is answered or given up in the end, and then holds no slot.
RequestEnds == \A r \in Requests : pc[r] = "gate" ~> pc[r] = "gone"
================================================================================
