------------------------------- MODULE Lifecycle -------------------------------
(* Starting and stopping: runCombined with the API server (runCurrent,         *)
(* waitForHTTP, shutdownHTTP) and the Auth service (Run, shutdown) under it.   *)
(*                                                                             *)
(* The coordinator opens Auth first, which takes the writer lock, then runs    *)
(* both components as goroutines that report once on a channel.  A component   *)
(* stops because its listener fails or because the context it was given ends;  *)
(* the HTTP servers then wait for the running handlers, for a limited time.    *)
(* Who saves a credential (the refresh loop, the callbacks) is seen from       *)
(* outside: it starts and ends a Save, whose own steps are in CredentialStore. *)
EXTENDS Naturals, Sequences

CONSTANT MaxHandlers    \* bound: handlers running at once in each component

ASSUME HandlersAssumption == MaxHandlers \in Nat

VARIABLES
    signal,     \* the context of main has ended
    stop,       \* serviceCtx has been cancelled
    coord,      \* runCombined: "open", "first", "second", "exited"
    reports,    \* the channel `done`: a sequence of components
    failed,     \* components that report an error
    exit,       \* "running", then what runCombined returns
    pc,         \* what each component does
    listening,  \* its listener is open
    conns,      \* its accepted connections are not closed: they may bring requests
    handlers,   \* its handlers that are running
    refresh,    \* refreshLoop: "off", "idle", "exchange", "saving"
    callback,   \* finishLogin at its end: "out", "in" under manager.mu, "saving" in Save
    lock        \* the store holds the writer lock

shared == <<signal, stop, coord, reports, failed, exit>>
net == <<listening, conns, handlers>>
auth == <<refresh, callback, lock>>
vars == <<shared, pc, net, auth>>

Components == {"API", "Auth"}

Init ==
    /\ signal = FALSE /\ stop = FALSE
    /\ coord = "open" /\ reports = <<>> /\ failed = {} /\ exit = "running"
    /\ pc = [c \in Components |-> "off"]
    /\ listening = [c \in Components |-> FALSE]
    /\ conns = [c \in Components |-> FALSE]
    /\ handlers = [c \in Components |-> 0]
    /\ refresh = "off" /\ callback = "out" /\ lock = FALSE

\* (Mutation: the context is not derived from that of main.)
CancelledByPeer == stop

\* A component's context has ended.
Cancelled == signal \/ stop

-------------------------------------------------------------------------------
(* runCombined *)

\* newAuthService takes the lock and loads the file; then both are started.
Open ==
    /\ coord = "open"
    /\ \/ /\ lock' = TRUE
          /\ coord' = "first"
          /\ pc' = [c \in Components |-> "start"]
          /\ UNCHANGED exit
       \/ /\ coord' = "exited" /\ exit' = "error"
          /\ UNCHANGED <<lock, pc>>
    /\ UNCHANGED <<signal, stop, reports, failed, net, refresh, callback>>

\* (Mutations: the other component is not cancelled; it is not waited for.)
FirstLeavesOther ==
    /\ coord = "first" /\ reports # <<>>
    /\ reports' = Tail(reports)
    /\ coord' = "second"
    /\ UNCHANGED <<signal, stop, failed, exit, pc, net, auth>>
FirstOnly ==
    /\ coord = "first" /\ reports # <<>>
    /\ reports' = Tail(reports)
    /\ coord' = "exited" /\ exit' = "error"
    /\ UNCHANGED <<signal, stop, failed, pc, net, auth>>

\* The first report cancels the other component.
First ==
    /\ coord = "first" /\ reports # <<>>
    /\ reports' = Tail(reports)
    /\ stop' = TRUE
    /\ coord' = "second"
    /\ UNCHANGED <<signal, failed, exit, pc, net, auth>>

\* What runCombined returns after both reports.
Verdict == IF failed = {} /\ signal THEN "ok" ELSE "error"

Second ==
    /\ coord = "second" /\ reports # <<>>
    /\ reports' = Tail(reports)
    /\ coord' = "exited"
    /\ exit' = Verdict
    /\ UNCHANGED <<signal, stop, failed, pc, net, auth>>

\* Ctrl+C or SIGTERM.
Signal ==
    /\ ~signal /\ signal' = TRUE
    /\ UNCHANGED <<stop, coord, reports, failed, exit, pc, net, auth>>

-------------------------------------------------------------------------------
(* Both components *)

\* From `from` component c goes on to `to`, with an error or without.
Move(c, from, to, error) ==
    /\ pc[c] = from
    /\ pc' = [pc EXCEPT ![c] = to]
    /\ failed' = IF error THEN failed \cup {c} ELSE failed

\* Where a component goes when it neither listens nor waits any more: Auth joins
\* the refresh loop and shuts down, the API has nothing left to do.
Leave(c) == IF c = "Auth" THEN "join" ELSE "report"

Listen(c) ==
    /\ Move(c, "start", "serve", FALSE)
    /\ listening' = [listening EXCEPT ![c] = TRUE]
    /\ conns' = [conns EXCEPT ![c] = TRUE]
    /\ refresh' = IF c = "Auth" THEN "idle" ELSE refresh
    /\ UNCHANGED <<signal, stop, coord, reports, exit, handlers, callback, lock>>

\* The address is invalid or in use.
ListenFails(c) ==
    /\ Move(c, "start", Leave(c), TRUE)
    /\ UNCHANGED <<signal, stop, coord, reports, exit, net, auth>>

\* Serve ends with an error; its connections and handlers are left as they are.
ServeFails(c) ==
    /\ Move(c, "serve", Leave(c), TRUE)
    /\ listening' = [listening EXCEPT ![c] = FALSE]
    /\ UNCHANGED <<signal, stop, coord, reports, exit, conns, handlers, auth>>

\* The context has ended: no new connections, and wait for those that have a request.
Drain(c) ==
    /\ Cancelled
    /\ Move(c, "serve", "drain", FALSE)
    /\ listening' = [listening EXCEPT ![c] = FALSE]
    /\ UNCHANGED <<signal, stop, coord, reports, exit, conns, handlers, auth>>

\* Shutdown has closed the last connection.  Closing the listener, or Serve itself,
\* may have failed meanwhile.
Drained(c) ==
    /\ handlers[c] = 0
    /\ \E error \in BOOLEAN : Move(c, "drain", Leave(c), error)
    /\ conns' = [conns EXCEPT ![c] = FALSE]
    /\ UNCHANGED <<signal, stop, coord, reports, exit, listening, handlers, auth>>

\* They take too long: the connections are closed, the handlers run on.
DrainTimeoutMove(c, error) ==
    /\ handlers[c] > 0
    /\ Move(c, "drain", Leave(c), error)
    /\ conns' = [conns EXCEPT ![c] = FALSE]
    /\ UNCHANGED <<signal, stop, coord, reports, exit, listening, handlers, auth>>

\* (Mutation: the connections are closed and nothing is reported.)
DrainTimeoutQuiet(c) == DrainTimeoutMove(c, FALSE)

DrainTimeout(c) == DrainTimeoutMove(c, TRUE)

Report(c) ==
    /\ Move(c, "report", "gone", FALSE)
    /\ reports' = Append(reports, c)
    /\ UNCHANGED <<signal, stop, coord, exit, net, auth>>

\* A request on an accepted connection, whether the listener is still open or not.
Handle(c) ==
    /\ conns[c] /\ handlers[c] < MaxHandlers
    /\ handlers' = [handlers EXCEPT ![c] = @ + 1]
    /\ UNCHANGED <<shared, pc, listening, conns, auth>>

\* A handler that is not in the critical section of a callback returns.
HandlerEnds(c) ==
    /\ handlers[c] > IF c = "Auth" /\ callback # "out" THEN 1 ELSE 0
    /\ handlers' = [handlers EXCEPT ![c] = @ - 1]
    /\ UNCHANGED <<shared, pc, listening, conns, auth>>

-------------------------------------------------------------------------------
(* Auth *)

\* Somebody is inside Save, which holds the store's own mutex.
Saving == callback = "saving" \/ refresh = "saving"

\* manager.mu is held by a callback, or by `get` around a Save.
Locked == callback # "out" \/ refresh = "saving"

\* A store whose lock is released refuses to save.
StoreOpen == lock

\* The loop has ended.
Joined == refresh = "off"

\* Run is over once the refresh loop has been cancelled and has ended.
Join ==
    /\ Joined
    /\ Move("Auth", "join", "close", FALSE)
    /\ UNCHANGED <<signal, stop, coord, reports, exit, net, auth>>

\* shutdown closes what connections are left; the handlers run on.
CloseServer ==
    /\ \E error \in BOOLEAN : Move("Auth", "close", "revoke", error)
    /\ conns' = [conns EXCEPT !["Auth"] = FALSE]
    /\ UNCHANGED <<signal, stop, coord, reports, exit, listening, handlers, auth>>

\* Under manager.mu the address of the callback is taken back.
Revoke ==
    /\ ~Locked
    /\ Move("Auth", "revoke", "store", FALSE)
    /\ UNCHANGED <<signal, stop, coord, reports, exit, net, auth>>

\* (Mutation: the store is closed without its mutex.)
MayCloseAlways == TRUE

\* The store's mutex is free, so that it may be closed.
MayClose == ~Saving

\* Outside manager.mu the store is closed; the lock is released with an error or without.
CloseStore ==
    /\ MayClose
    /\ \E error \in BOOLEAN : Move("Auth", "store", "report", error)
    /\ lock' = FALSE
    /\ UNCHANGED <<signal, stop, coord, reports, exit, net, refresh, callback>>

\* A tick of the loop, its first round included, finds the credential due for refresh.
RefreshStarts ==
    /\ refresh = "idle" /\ refresh' = "exchange"
    /\ UNCHANGED <<shared, pc, net, callback, lock>>

\* `get` saves before it sends (the fence) and after (the outcome).
RefreshSaves ==
    /\ refresh = "exchange" /\ ~Locked /\ StoreOpen
    /\ refresh' = "saving"
    /\ UNCHANGED <<shared, pc, net, callback, lock>>

RefreshSaved ==
    /\ refresh = "saving" /\ refresh' = "exchange"
    /\ UNCHANGED <<shared, pc, net, callback, lock>>

RefreshReturns ==
    /\ refresh = "exchange" /\ refresh' = "idle"
    /\ UNCHANGED <<shared, pc, net, callback, lock>>

\* Cancelled with the context of Run, or by the deferred cancelRefresh.
RefreshEnds ==
    /\ refresh = "idle" /\ (Cancelled \/ pc["Auth"] = "join")
    /\ refresh' = "off"
    /\ UNCHANGED <<shared, pc, net, callback, lock>>

\* A callback takes manager.mu to publish what it has.
CallbackEnters ==
    /\ handlers["Auth"] > 0 /\ ~Locked
    /\ callback' = "in"
    /\ UNCHANGED <<shared, pc, net, refresh, lock>>

CallbackSaves ==
    /\ callback = "in" /\ StoreOpen
    /\ callback' = "saving"
    /\ UNCHANGED <<shared, pc, net, refresh, lock>>

\* It has saved, or it has been superseded, or Save has refused.
CallbackLeaves ==
    /\ callback # "out" /\ callback' = "out"
    /\ UNCHANGED <<shared, pc, net, refresh, lock>>

-------------------------------------------------------------------------------
RefreshStep == RefreshSaves \/ RefreshSaved \/ RefreshReturns \/ RefreshEnds

Running(c) == Listen(c) \/ ListenFails(c) \/ Drain(c) \/ Drained(c) \/ DrainTimeout(c) \/ Report(c)

Next ==
    \/ Open \/ First \/ Second \/ Signal
    \/ \E c \in Components : Running(c) \/ ServeFails(c) \/ Handle(c) \/ HandlerEnds(c)
    \/ Join \/ CloseServer \/ Revoke \/ CloseStore
    \/ RefreshStarts \/ RefreshStep
    \/ CallbackEnters \/ CallbackSaves \/ CallbackLeaves

Spec == Init /\ [][Next]_vars

\* Goroutines go on, and what the loop waits for has a timeout or is cancelled;
\* a handler need not ever return, Shutdown stops waiting for it.  Who waits for a
\* mutex gets it in the end.
FairSpec ==
    /\ Spec
    /\ WF_vars(Open \/ First \/ Second)
    /\ \A c \in Components : WF_vars(Running(c))
    /\ WF_vars(Join \/ CloseServer)
    /\ WF_vars(RefreshSaved) /\ WF_vars(CallbackLeaves)
    /\ SF_vars(RefreshReturns) /\ SF_vars(RefreshEnds) /\ SF_vars(Revoke) /\ SF_vars(CloseStore)

-------------------------------------------------------------------------------
(* Properties *)

TypeOK ==
    /\ signal \in BOOLEAN /\ stop \in BOOLEAN /\ lock \in BOOLEAN
    /\ coord \in {"open", "first", "second", "exited"}
    /\ reports \in Seq(Components) /\ Len(reports) <= 2
    /\ failed \subseteq Components
    /\ exit \in {"running", "ok", "error"}
    /\ pc \in [Components -> {"off", "start", "serve", "drain", "join", "close", "revoke",
                              "store", "report", "gone"}]
    /\ listening \in [Components -> BOOLEAN] /\ conns \in [Components -> BOOLEAN]
    /\ handlers \in [Components -> 0..MaxHandlers]
    /\ refresh \in {"off", "idle", "exchange", "saving"}
    /\ callback \in {"out", "in", "saving"}

\* While the refresh loop may still exchange a token, or anybody is inside Save, the
\* writer lock is held: what an exchange brings can be saved, and a second Auth that
\* takes the lock never writes beside a late callback or a late refresh of the first.
WriterHoldsLock == Saving \/ refresh # "off" => lock

\* When the coordinator returns, both components have reported, both listeners are
\* closed, the lock is free, the refresh loop has ended and nobody is inside Save.
\* Handlers that a drain timeout has left may still run: nothing is said of them.
NothingLeft ==
    exit # "running" =>
        /\ \A c \in Components : ~listening[c] /\ pc[c] \in {"off", "gone"}
        /\ ~lock /\ refresh = "off" /\ ~Saving

\* The coordinator reports success only after an intended and complete stop: the signal
\* came, and no request is cut off by the exit of the process, for no handler runs in
\* either component and none can start.  Whoever loses a request is told by an error.
SuccessIsGraceful ==
    exit = "ok" => signal /\ \A c \in Components : handlers[c] = 0 /\ ~conns[c]

\* A signal ends the program, whatever the handlers do.
SignalStops == signal ~> exit # "running"

\* A component that fails takes the other one down and the program ends with an error.
FailureStops == failed # {} ~> exit = "error"
================================================================================
