---------------------------- MODULE LifecycleProofs ----------------------------
(* Theorems about Lifecycle, for any number of handlers.                       *)
(*                                                                             *)
(* The safety properties speak of the lock and of the exit, the code decides   *)
(* both by the order of its steps: AuthInv says at which positions of Auth     *)
(* what is open, OrderInv that the coordinator hears of every component        *)
(* exactly once, after the last thing that component does, and DrainInv that   *)
(* a component which has no error to report has left no request behind.        *)
EXTENDS Lifecycle, SequenceTheorems, TLAPS

Opened(c) == pc[c] \in {"start", "serve", "drain", "join", "close", "revoke", "store"}

AuthInv ==
    /\ lock <=> Opened("Auth")
    /\ refresh # "off" => pc["Auth"] \in {"serve", "drain", "join"}
    /\ callback = "saving" => lock
    /\ \A c \in Components : listening[c] => pc[c] = "serve"

\* No handler of c runs and none can start.
Quiet(c) == handlers[c] = 0 /\ ~conns[c]

Past(c) == pc[c] \in {"join", "close", "revoke", "store", "report", "gone"}

DrainInv == \A c \in Components : Past(c) /\ c \notin failed => Quiet(c)

Gone(c) == pc[c] = "gone"

NoReport == reports = <<>> /\ \A c \in Components : ~Gone(c)
OneReport(c, d) == c # d /\ reports = <<c>> /\ Gone(c) /\ ~Gone(d)
TwoReports(c, d) == c # d /\ reports = <<c, d>> /\ Gone(c) /\ Gone(d)

\* One has been received; the other one is in the channel if it has been sent.
OneReceived(c, d) ==
    /\ c # d /\ Gone(c) /\ pc[d] # "off"
    /\ IF Gone(d) THEN reports = <<d>> ELSE reports = <<>>

\* The reports in the channel are those of the components that are gone, less the one
\* that the coordinator has received.
OrderInv ==
    /\ coord = "open" => reports = <<>> /\ \A c \in Components : pc[c] = "off"
    /\ coord = "first" =>
        /\ \A c \in Components : pc[c] # "off"
        /\ \/ NoReport
           \/ \E c, d \in Components : OneReport(c, d)
           \/ \E c, d \in Components : TwoReports(c, d)
    /\ coord = "second" => \E c, d \in Components : OneReceived(c, d)
    /\ coord = "exited" =>
        (\A c \in Components : Gone(c)) \/ (\A c \in Components : pc[c] = "off")

ExitInv ==
    /\ exit # "running" <=> coord = "exited"
    /\ exit = "ok" => signal /\ failed = {} /\ \A c \in Components : Gone(c)

Positions == {"start", "serve", "drain", "join", "close", "revoke", "store", "report"}

Types ==
    /\ signal \in BOOLEAN /\ stop \in BOOLEAN /\ lock \in BOOLEAN
    /\ coord \in {"open", "first", "second", "exited"}
    /\ failed \subseteq Components
    /\ exit \in {"running", "ok", "error"}
    /\ pc \in [Components -> Positions \cup {"off", "gone"}]
    /\ listening \in [Components -> BOOLEAN] /\ conns \in [Components -> BOOLEAN]
    /\ handlers \in [Components -> 0..MaxHandlers]
    /\ refresh \in {"off", "idle", "exchange", "saving"}
    /\ callback \in {"out", "in", "saving"}

IInv == Types /\ AuthInv /\ DrainInv /\ OrderInv /\ ExitInv

LEMMA InitInv == Init => IInv
<1> SUFFICES ASSUME Init PROVE IInv
  OBVIOUS
<1>1. Types
  <2>1. 0 \in 0..MaxHandlers
    BY HandlersAssumption
  <2>2. handlers \in [Components -> 0..MaxHandlers]
    BY <2>1 DEF Init
  <2> QED
    BY <2>2 DEF Init, Types
<1>2. AuthInv /\ DrainInv /\ OrderInv /\ ExitInv
  BY DEF Init, AuthInv, DrainInv, OrderInv, ExitInv, Opened, Past, Components
<1> QED
  BY <1>1, <1>2 DEF IInv

-------------------------------------------------------------------------------
(* The coordinator *)

LEMMA CoordinatorInv ==
    ASSUME IInv, Open \/ First \/ Second \/ Signal
    PROVE  IInv'
<1>1. CASE Open
  <2>1. Types'
    BY <1>1 DEF Open, IInv, Types, Positions, net
  <2>2. AuthInv' /\ DrainInv'
    BY <1>1 DEF Open, IInv, Types, AuthInv, DrainInv, OrderInv, ExitInv, Opened, Past, Quiet,
                Components, net
  <2>3. OrderInv' /\ ExitInv'
    BY <1>1 DEF Open, IInv, Types, OrderInv, ExitInv, Gone, NoReport, Components
  <2> QED
    BY <2>1, <2>2, <2>3 DEF IInv
<1>2. CASE First
  <2>1. UNCHANGED <<signal, failed, exit, pc, net, auth>>
        /\ coord = "first" /\ coord' = "second" /\ stop' /\ reports' = Tail(reports)
        /\ reports # <<>>
    BY <1>2 DEF First
  <2>2. Types' /\ AuthInv' /\ DrainInv' /\ ExitInv'
    BY <2>1 DEF IInv, Types, AuthInv, DrainInv, ExitInv, Opened, Past, Quiet, Gone, net, auth
  <2>3. PICK c, d \in Components : OneReport(c, d) \/ TwoReports(c, d)
    BY <2>1 DEF IInv, OrderInv, NoReport
  <2>4. Tail(<<c>>) = <<>> /\ Tail(<<c, d>>) = <<d>>
    OBVIOUS
  <2>5. OneReceived(c, d)'
    BY <2>1, <2>3, <2>4 DEF OneReport, TwoReports, OneReceived, IInv, OrderInv, Gone
  <2>6. OrderInv'
    BY <2>1, <2>5 DEF OrderInv
  <2> QED
    BY <2>2, <2>6 DEF IInv
<1>3. CASE Second
  <2>1. UNCHANGED <<signal, stop, failed, pc, net, auth>>
        /\ coord = "second" /\ coord' = "exited" /\ exit' = Verdict /\ reports # <<>>
    BY <1>3 DEF Second
  <2>2. Types' /\ AuthInv' /\ DrainInv'
    BY <2>1 DEF IInv, Types, AuthInv, DrainInv, Opened, Past, Quiet, net, auth, Verdict
  <2>3. \A c \in Components : Gone(c)
    BY <2>1 DEF IInv, OrderInv, OneReceived, Components
  <2>4. OrderInv'
    BY <2>1, <2>3 DEF OrderInv, Gone
  <2>5. ExitInv'
    BY <2>1, <2>3 DEF ExitInv, Verdict, Gone
  <2> QED
    BY <2>2, <2>4, <2>5 DEF IInv
<1>4. CASE Signal
  <2>1. /\ signal' = TRUE
        /\ UNCHANGED <<stop, coord, reports, failed, exit, pc, net, auth>>
    BY <1>4 DEF Signal
  <2>2. OrderInv'
    BY <2>1 DEF IInv, OrderInv, NoReport, OneReport, TwoReports, OneReceived, Gone
  <2> QED
    BY <2>1, <2>2 DEF IInv, Types, AuthInv, DrainInv, ExitInv, Opened, Past, Quiet, Gone, net,
                      auth
<1> QED
  BY <1>1, <1>2, <1>3, <1>4

-------------------------------------------------------------------------------
(* The components *)

\* A component that neither starts from nor goes to an end leaves the order alone, and
\* the coordinator has not returned.
LEMMA MoveEffect ==
    ASSUME IInv, NEW c \in Components, NEW from \in Positions, NEW to \in Positions,
           NEW error \in BOOLEAN, Move(c, from, to, error),
           UNCHANGED <<signal, coord, reports, exit>>
    PROVE  /\ OrderInv' /\ ExitInv' /\ failed' \subseteq Components
           /\ pc' \in [Components -> Positions \cup {"off", "gone"}]
           /\ pc'[c] = to /\ pc[c] = from /\ \A d \in Components \ {c} : pc'[d] = pc[d]
<1>1. pc[c] = from /\ pc' = [pc EXCEPT ![c] = to]
      /\ failed' = IF error THEN failed \cup {c} ELSE failed
  BY DEF Move
<1>2. /\ failed' \subseteq Components
      /\ pc' \in [Components -> Positions \cup {"off", "gone"}]
      /\ pc'[c] = to /\ \A d \in Components \ {c} : pc'[d] = pc[d]
  BY <1>1 DEF IInv, Types, Positions
<1>3. pc[c] \notin {"off", "gone"} /\ pc'[c] \notin {"off", "gone"}
  BY <1>1, <1>2 DEF Positions
<1>4. /\ \A d \in Components : Gone(d)' <=> Gone(d)
      /\ \A d \in Components : pc'[d] = "off" <=> pc[d] = "off"
  BY <1>2, <1>3 DEF Gone
<1>5. coord # "exited"
  BY <1>3 DEF IInv, OrderInv, Gone
<1>6. OrderInv'
  BY <1>4 DEF IInv, OrderInv, NoReport, OneReport, TwoReports, OneReceived
<1>7. ExitInv'
  BY <1>5 DEF IInv, ExitInv
<1> QED
  BY <1>1, <1>2, <1>6, <1>7

\* What has left no request behind keeps it so, if nothing but its position and its
\* errors change: it is quiet when it leaves, or it has an error.
LEMMA QuietEffect ==
    ASSUME IInv, NEW c \in Components,
           \A d \in Components \ {c} : pc'[d] = pc[d] /\ handlers'[d] = handlers[d]
                                         /\ conns'[d] = conns[d],
           failed \subseteq failed', failed' \subseteq failed \cup {c},
           Past(c)' /\ c \notin failed' => Quiet(c)'
    PROVE  DrainInv'
<1>1. ASSUME NEW d \in Components, d # c, Past(d)', d \notin failed'
      PROVE  Quiet(d)'
  BY <1>1 DEF IInv, DrainInv, Past, Quiet
<1> QED
  BY <1>1 DEF DrainInv

LEMMA ComponentInv ==
    ASSUME IInv, NEW c \in Components,
           Listen(c) \/ ListenFails(c) \/ ServeFails(c) \/ Drain(c) \/ Drained(c) \/ DrainTimeout(c)
    PROVE  IInv'
<1> USE DEF DrainTimeout
<1>1. /\ UNCHANGED <<signal, stop, coord, reports, exit, handlers, callback, lock>>
      /\ \E from \in {"start", "serve", "drain"}, to \in {"serve", "drain", Leave(c)},
            error \in BOOLEAN : Move(c, from, to, error)
  BY DEF Listen, ListenFails, ServeFails, Drain, Drained, DrainTimeoutMove, net, auth
<1>2. PICK from \in {"start", "serve", "drain"}, to \in {"serve", "drain", Leave(c)},
           error \in BOOLEAN : Move(c, from, to, error)
  BY <1>1
<1>3. from \in Positions /\ to \in Positions
  BY DEF Positions, Leave
<1>4. /\ OrderInv' /\ ExitInv' /\ failed' \subseteq Components
      /\ pc' \in [Components -> Positions \cup {"off", "gone"}]
      /\ pc'[c] = to /\ pc[c] = from /\ \A d \in Components \ {c} : pc'[d] = pc[d]
  BY <1>1, <1>2, <1>3, MoveEffect
<1>5. /\ listening' \in [Components -> BOOLEAN] /\ conns' \in [Components -> BOOLEAN]
      /\ refresh' \in {"off", "idle", "exchange", "saving"}
      /\ \A d \in Components \ {c} : listening'[d] = listening[d] /\ conns'[d] = conns[d]
  BY DEF Listen, ListenFails, ServeFails, Drain, Drained, DrainTimeoutMove, net, auth, IInv,
         Types
<1>6. Types'
  BY <1>1, <1>4, <1>5 DEF IInv, Types
<1>7. listening'[c] => pc'[c] = "serve"
  BY <1>4 DEF Listen, ListenFails, ServeFails, Drain, Drained, DrainTimeoutMove, Move, net,
              IInv, Types, AuthInv
<1>8. c = "Auth" => /\ pc["Auth"] \in {"start", "serve", "drain"}
                    /\ pc'["Auth"] \in {"serve", "drain", "join"}
  BY <1>4 DEF Leave
<1>9. lock' <=> Opened("Auth")'
  BY <1>1, <1>4, <1>8 DEF IInv, AuthInv, Opened, Components
<1>10. refresh' # "off" => pc'["Auth"] \in {"serve", "drain", "join"}
  <2>1. CASE c = "Auth"
    BY <1>8, <2>1
  <2>2. CASE c # "Auth"
    BY <1>4, <2>2 DEF Listen, ListenFails, ServeFails, Drain, Drained, DrainTimeoutMove, auth,
                      IInv, AuthInv, Components
  <2> QED
    BY <2>1, <2>2
<1>11. AuthInv'
  BY <1>1, <1>4, <1>5, <1>7, <1>9, <1>10 DEF IInv, AuthInv
<1>12. failed \subseteq failed' /\ failed' \subseteq failed \cup {c}
  BY <1>2 DEF Move
<1>13. Past(c)' /\ c \notin failed' => Quiet(c)'
  <2>1. CASE Listen(c) \/ Drain(c)
    BY <2>1 DEF Listen, Drain, Move, Past, IInv, Types
  <2>2. CASE ListenFails(c) \/ ServeFails(c) \/ DrainTimeout(c)
    BY <2>2 DEF ListenFails, ServeFails, DrainTimeoutMove, Move
  <2>3. CASE Drained(c)
    BY <2>3 DEF Drained, Quiet, IInv, Types
  <2> QED
    BY <2>1, <2>2, <2>3
<1>14. DrainInv'
  BY <1>1, <1>4, <1>5, <1>12, <1>13, QuietEffect
<1> QED
  BY <1>4, <1>6, <1>11, <1>14 DEF IInv

LEMMA AppendOne ==
    ASSUME NEW c, NEW d
    PROVE  Append(<<c>>, d) = <<c, d>>
<1>1. /\ <<c>> \in Seq({c, d}) /\ Len(<<c>>) = 1 /\ <<c>>[1] = c
      /\ <<c, d>> \in Seq({c, d}) /\ Len(<<c, d>>) = 2 /\ <<c, d>>[1] = c /\ <<c, d>>[2] = d
  OBVIOUS
<1>2. /\ Append(<<c>>, d) \in Seq({c, d}) /\ Len(Append(<<c>>, d)) = 2
      /\ Append(<<c>>, d)[1] = c /\ Append(<<c>>, d)[2] = d
  BY <1>1, AppendProperties
<1>3. \A i \in 1..2 : Append(<<c>>, d)[i] = <<c, d>>[i]
  BY <1>1, <1>2
<1> QED
  BY <1>1, <1>2, <1>3, SeqEqual

LEMMA ReportInv ==
    ASSUME IInv, NEW c \in Components, Report(c)
    PROVE  IInv'
<1>1. /\ pc[c] = "report" /\ pc' = [pc EXCEPT ![c] = "gone"]
      /\ failed' = failed /\ reports' = Append(reports, c)
      /\ UNCHANGED <<signal, stop, coord, exit, net, auth>>
  BY DEF Report, Move
<1>2. Types' /\ pc'[c] = "gone" /\ \A d \in Components \ {c} : pc'[d] = pc[d]
  BY <1>1 DEF IInv, Types, Positions, net, auth
<1>3. AuthInv' /\ DrainInv'
  BY <1>1, <1>2 DEF IInv, AuthInv, DrainInv, Opened, Past, Quiet, net, auth, Components
<1>4. ~Gone(c) /\ pc[c] # "off" /\ Gone(c)' /\ \A d \in Components \ {c} : Gone(d)' <=> Gone(d)
  BY <1>1, <1>2 DEF Gone
<1>5. coord \in {"first", "second"}
  BY <1>4 DEF IInv, Types, OrderInv
<1>6. CASE coord = "first"
  <2>1. \A d \in Components : pc'[d] # "off"
    BY <1>2, <1>6 DEF IInv, OrderInv
  <2>2. PICK d \in Components : d # c
    BY DEF Components
  <2>3. ASSUME NoReport
        PROVE  OrderInv'
    <3>1. reports' = <<c>>
      BY <1>1, <2>3 DEF NoReport
    <3>2. OneReport(c, d)'
      BY <1>4, <2>2, <2>3, <3>1 DEF OneReport, NoReport
    <3> QED
      BY <1>1, <1>6, <2>1, <3>2 DEF OrderInv
  <2>4. ASSUME \E e, f \in Components : OneReport(e, f)
        PROVE  OrderInv'
    <3>1. reports = <<d>> /\ Gone(d)
      BY <1>4, <2>2, <2>4 DEF OneReport, Components
    <3>2. reports' = <<d, c>>
      BY <1>1, <3>1, AppendOne
    <3>3. TwoReports(d, c)'
      BY <1>4, <2>2, <3>1, <3>2 DEF TwoReports
    <3> QED
      BY <1>1, <1>6, <2>1, <3>3 DEF OrderInv
  <2>5. ASSUME \E e, f \in Components : TwoReports(e, f)
        PROVE  OrderInv'
    BY <1>4, <2>5 DEF TwoReports, Components
  <2>6. OrderInv'
    BY <1>6, <2>3, <2>4, <2>5 DEF IInv, OrderInv
  <2> QED
    BY <1>1, <1>2, <1>3, <1>6, <2>6 DEF IInv, ExitInv, Types
<1>7. CASE coord = "second"
  <2>1. PICK d, e \in Components : OneReceived(d, e)
    BY <1>7 DEF IInv, OrderInv
  <2>2. e = c /\ reports = <<>>
    BY <1>4, <2>1 DEF OneReceived, Components
  <2>3. reports' = <<c>>
    BY <1>1, <2>2
  <2>4. OneReceived(d, c)'
    BY <1>2, <1>4, <2>1, <2>2, <2>3 DEF OneReceived
  <2>5. OrderInv'
    BY <1>1, <1>7, <2>4 DEF OrderInv
  <2> QED
    BY <1>1, <1>2, <1>3, <1>7, <2>5 DEF IInv, ExitInv, Types
<1> QED
  BY <1>5, <1>6, <1>7

-------------------------------------------------------------------------------
(* Auth *)

LEMMA ShutdownInv ==
    ASSUME IInv, Join \/ CloseServer \/ Revoke \/ CloseStore
    PROVE  IInv'
<1>1. "Auth" \in Components /\ \A d \in Components \ {"Auth"} : d # "Auth"
  BY DEF Components
<1>2. UNCHANGED <<signal, stop, coord, reports, exit, listening, handlers, refresh, callback>>
  BY DEF Join, CloseServer, Revoke, CloseStore, net, auth
<1>3. PICK from \in {"join", "close", "revoke", "store"},
           to \in {"close", "revoke", "store", "report"},
           error \in BOOLEAN : Move("Auth", from, to, error)
  BY DEF Join, CloseServer, Revoke, CloseStore
<1>4. from \in Positions /\ to \in Positions
  BY DEF Positions
<1>5. /\ OrderInv' /\ ExitInv' /\ failed' \subseteq Components
      /\ pc' \in [Components -> Positions \cup {"off", "gone"}]
      /\ pc'["Auth"] = to /\ pc["Auth"] = from
      /\ \A d \in Components \ {"Auth"} : pc'[d] = pc[d]
  BY <1>1, <1>2, <1>3, <1>4, MoveEffect
<1>6. /\ conns' \in [Components -> BOOLEAN] /\ lock' \in BOOLEAN
      /\ \A d \in Components \ {"Auth"} : conns'[d] = conns[d]
      /\ conns'["Auth"] => conns["Auth"]
  BY <1>1 DEF Join, CloseServer, Revoke, CloseStore, net, auth, IInv, Types
<1>7. Types'
  BY <1>2, <1>5, <1>6 DEF IInv, Types
<1>8. refresh = "off"
  BY <1>1, <1>5 DEF Join, Joined, CloseServer, Revoke, CloseStore, Move, IInv, AuthInv
<1>9. lock' <=> Opened("Auth")'
  BY <1>1, <1>5 DEF Join, CloseServer, Revoke, CloseStore, Move, Opened, auth, IInv, AuthInv
<1>10. callback' = "saving" => lock'
  BY <1>2 DEF Join, CloseServer, Revoke, CloseStore, MayClose, Saving, auth, IInv, AuthInv
<1>11. AuthInv'
  BY <1>1, <1>2, <1>5, <1>8, <1>9, <1>10 DEF IInv, AuthInv
<1>12. failed \subseteq failed' /\ failed' \subseteq failed \cup {"Auth"}
  BY <1>3 DEF Move
<1>13. Past("Auth") /\ Past("Auth")'
  BY <1>5 DEF Past
<1>14. "Auth" \notin failed' => Quiet("Auth")'
  BY <1>1, <1>2, <1>6, <1>12, <1>13 DEF IInv, DrainInv, Quiet
<1>15. DrainInv'
  BY <1>1, <1>2, <1>5, <1>6, <1>12, <1>14, QuietEffect
<1> QED
  BY <1>5, <1>7, <1>11, <1>15 DEF IInv

\* Handlers and savers: the positions, the reports and the exit stay as they are, and
\* what is quiet stays quiet.
LEMMA SaverInv ==
    ASSUME IInv, UNCHANGED <<shared, pc, listening, conns, lock>>,
           handlers' \in [Components -> 0..MaxHandlers],
           refresh' \in {"off", "idle", "exchange", "saving"},
           callback' \in {"out", "in", "saving"},
           refresh' # "off" => refresh # "off", callback' = "saving" => lock,
           \A c \in Components : Quiet(c) => handlers'[c] = 0
    PROVE  IInv'
<1>1. UNCHANGED <<signal, stop, coord, reports, failed, exit, pc, listening, conns, lock>>
  BY DEF shared
<1>2. Types' /\ ExitInv'
  BY <1>1 DEF IInv, Types, ExitInv, Gone
<1>3. AuthInv'
  BY <1>1 DEF IInv, AuthInv, Opened
<1>4. DrainInv'
  BY <1>1 DEF IInv, DrainInv, Past, Quiet
<1>5. OrderInv'
  BY <1>1 DEF IInv, OrderInv, NoReport, OneReport, TwoReports, OneReceived, Gone
<1> QED
  BY <1>2, <1>3, <1>4, <1>5 DEF IInv

LEMMA HandlerInv ==
    ASSUME IInv, NEW c \in Components, Handle(c) \/ HandlerEnds(c)
    PROVE  IInv'
<1>1. UNCHANGED <<shared, pc, listening, conns, refresh, callback, lock>>
  BY DEF Handle, HandlerEnds, auth
<1>2. /\ handlers[c] \in 0..MaxHandlers /\ handlers \in [Components -> 0..MaxHandlers]
      /\ callback = "saving" => lock
  BY DEF IInv, Types, AuthInv
<1>3. CASE Handle(c)
  <2>1. handlers[c] + 1 \in 0..MaxHandlers
    BY <1>2, <1>3, HandlersAssumption DEF Handle
  <2>2. handlers' \in [Components -> 0..MaxHandlers]
    BY <1>2, <1>3, <2>1 DEF Handle
  <2>3. \A d \in Components : Quiet(d) => handlers'[d] = 0
    BY <1>2, <1>3 DEF Handle, Quiet
  <2> QED
    BY <1>1, <1>2, <2>2, <2>3, SaverInv DEF IInv, Types
<1>4. CASE HandlerEnds(c)
  <2>1. handlers[c] > 0
    BY <1>2, <1>4, HandlersAssumption DEF HandlerEnds
  <2>2. handlers[c] - 1 \in 0..MaxHandlers
    BY <1>2, <2>1, HandlersAssumption
  <2>3. handlers' = [handlers EXCEPT ![c] = handlers[c] - 1]
    BY <1>4 DEF HandlerEnds
  <2>4. handlers' \in [Components -> 0..MaxHandlers]
    BY <1>2, <2>2, <2>3
  <2>5. \A d \in Components : Quiet(d) => handlers'[d] = 0
    BY <1>2, <2>1, <2>3 DEF Quiet
  <2> QED
    BY <1>1, <1>2, <2>4, <2>5, SaverInv DEF IInv, Types
<1> QED
  BY <1>3, <1>4

LEMMA StepInv ==
    ASSUME IInv, [Next]_vars
    PROVE  IInv'
<1>1. CASE RefreshStarts \/ RefreshStep
  <2>1. /\ UNCHANGED <<shared, pc, net, callback, lock>> /\ refresh # "off"
        /\ refresh' \in {"off", "idle", "exchange", "saving"}
    BY <1>1 DEF RefreshStarts, RefreshStep, RefreshSaves, RefreshSaved, RefreshReturns, RefreshEnds
  <2> QED
    BY <2>1, SaverInv DEF IInv, Types, AuthInv, Quiet, net
<1>2. CASE CallbackEnters \/ CallbackSaves \/ CallbackLeaves
  <2>1. /\ UNCHANGED <<shared, pc, net, refresh, lock>>
        /\ callback' \in {"out", "in", "saving"} /\ (callback' = "saving" => lock)
    BY <1>2 DEF CallbackEnters, CallbackSaves, CallbackLeaves, StoreOpen
  <2> QED
    BY <2>1, SaverInv DEF IInv, Types, Quiet, net
<1>3. CASE UNCHANGED vars
  <2>1. UNCHANGED <<shared, pc, listening, conns, handlers, refresh, callback, lock>>
    BY <1>3 DEF vars, net, auth
  <2> QED
    BY <2>1, SaverInv DEF IInv, Types, AuthInv, Quiet
<1>4. ASSUME NEW c \in Components, Running(c) \/ ServeFails(c) \/ Handle(c) \/ HandlerEnds(c)
      PROVE  IInv'
  BY <1>4, ComponentInv, ReportInv, HandlerInv DEF Running
<1> QED
  BY <1>1, <1>2, <1>3, <1>4, CoordinatorInv, ShutdownInv DEF Next

LEMMA Inductive == Spec => []IInv
BY InitInv, StepInv, PTL DEF Spec

-------------------------------------------------------------------------------
(* The theorems *)

\* Whoever is inside Save, or may still exchange the refresh token, is covered by the
\* writer lock: shutdown gives it up only after the loop and every Save have ended.
THEOREM WritersAreLocked == Spec => []WriterHoldsLock
<1>1. IInv => WriterHoldsLock
  BY DEF IInv, AuthInv, Opened, WriterHoldsLock, Saving
<1> QED
  BY <1>1, Inductive, PTL

\* runCombined returns only when both components have reported, with the listeners
\* closed, the lock free, the refresh loop ended and nobody inside Save; of handlers
\* that outlive a drain timeout it says nothing.
THEOREM CleanExit == Spec => []NothingLeft
<1>1. ASSUME IInv, exit # "running"
      PROVE  NothingLeft
  <2>1. (\A c \in Components : pc[c] = "gone") \/ (\A c \in Components : pc[c] = "off")
    BY <1>1 DEF IInv, ExitInv, OrderInv, Gone
  <2>2. ~lock /\ refresh = "off" /\ callback # "saving"
    BY <1>1, <2>1 DEF IInv, AuthInv, Opened, Components
  <2>3. \A c \in Components : ~listening[c]
    BY <1>1, <2>1 DEF IInv, AuthInv
  <2> QED
    BY <2>1, <2>2, <2>3 DEF NothingLeft, Saving
<1>2. IInv => NothingLeft
  BY <1>1 DEF NothingLeft
<1> QED
  BY <1>2, Inductive, PTL

\* A success of runCombined was asked for by a signal and cuts off no request: each
\* component has ended without an error, thus drained, and no handler is left.
THEOREM SuccessWasGraceful == Spec => []SuccessIsGraceful
<1>1. IInv => SuccessIsGraceful
  BY DEF IInv, ExitInv, DrainInv, Gone, Past, Quiet, SuccessIsGraceful
<1> QED
  BY <1>1, Inductive, PTL
===============================================================================
