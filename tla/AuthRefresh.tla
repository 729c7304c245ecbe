------------------------------ MODULE AuthRefresh ------------------------------
(* authManager: the credential Auth holds in memory, its snapshot on disk, and *)
(* the one-use refresh token that is exchanged upstream.                       *)
(*                                                                             *)
(* A caller of get takes a.mu, decides, persists the fence (RefreshPending),   *)
(* drops a.mu for the exchange, and takes it again to settle the result.       *)
(* A login publishes a new credential at any moment a.mu is free.  The process *)
(* can be killed, or the machine can lose power, between any two steps.        *)
(*                                                                             *)
(* What a.mu protects is one atomic action, except that the two disk writes of *)
(* a rejection are two actions during which a.mu stays taken.  The credential  *)
(* file is the register of SnapshotRegister; CredentialStore shows that Save   *)
(* and QuarantineRejected implement it.                                        *)
(*                                                                             *)
(* Tokens are numbered in the order upstream issues them.  A credential keeps  *)
(* the number of its access token, of its refresh token and of the login it    *)
(* descends from; ExpiresAt is the age of the access token, plus `exp` when    *)
(* Auth itself has overwritten ExpiresAt with a past time.                     *)
EXTENDS Naturals, FiniteSets

CONSTANTS
    Callers,        \* goroutines that call get
    MaxTok,         \* bound: tokens issued in a behaviour
    InService,      \* TRUE: the caller is authService.refreshLoop, all calls
                    \* share the service's context; FALSE: each call of get
                    \* has a context of its own
    Replies         \* what upstream may answer to an exchange

ASSUME MaxTokAssumption == MaxTok \in Nat
ASSUME InServiceAssumption == InService \in BOOLEAN

VARIABLES
    up,             \* the Auth process runs
    mem,            \* authManager.cred
    gen,            \* authManager.generation
    rerr,           \* authManager.refreshErr
    uncertain,      \* authManager.durabilityUncertain
    refreshing,     \* authManager.refreshing # nil
    backoff,        \* time.Since(authManager.refreshedAt) < time.Minute
    disk, stable,   \* the credential file: visible, and after a power loss
    pc, work,       \* each caller's position in get and its local variables
    ctxDone,        \* each caller's ctx.Err() # nil
    age,            \* of each access token
    ntok            \* tokens issued so far

\* History: what the properties compare the state with.
VARIABLES
    owner,          \* login of the credential last published or loaded
    maybeSpent,     \* refresh tokens sent and not known to be unspent
    resent,         \* refresh tokens sent while in maybeSpent
    rejected        \* access tokens whose rejection Auth has put on disk

procVars == <<up, mem, gen, rerr, uncertain, refreshing, backoff>>
diskVars == <<disk, stable>>
callVars == <<pc, work, ctxDone>>
envVars  == <<age, ntok>>
histVars == <<owner, maybeSpent, resent, rejected>>
vars == <<procVars, diskVars, callVars, envVars, histVars>>

Toks == 1..MaxTok
Cred == [tok : 0..MaxTok, rt : 0..MaxTok, login : 0..MaxTok,
         pending : BOOLEAN, exp : BOOLEAN]

\* credential{}, and the snapshot of a missing file.
NoCred == [tok |-> 0, rt |-> 0, login |-> 0, pending |-> FALSE, exp |-> FALSE]

Reg == INSTANCE SnapshotRegister
           WITH value <- disk, Snapshots <- Cred, Missing <- NoCred

\* HTTP 200 with or without a new refresh token; 200 without an access token;
\* no usable answer (connection, timeout, other status, malformed, not CN);
\* 401 or 403; 200 for another UserID.
AllReplies == {"rotated", "kept", "incomplete", "failed", "rejected", "mismatch"}
ASSUME RepliesAssumption == Replies \subseteq AllReplies /\ "failed" \in Replies

Places == {"idle", "lock", "wait", "send", "reply", "settle", "quarantine"}
Outcomes == {"none", "ok", "cancelled", "rejected", "failed"}
Work == [old : Cred, g : 0..MaxTok, client : {1, 2},
         out : Outcomes, fresh : Cred]
NoWork == [old |-> NoCred, g |-> 0, client |-> 1, out |-> "none", fresh |-> NoCred]

-------------------------------------------------------------------------------
(* Reading the clock and the credential *)

Expired(c) == c.exp \/ (c.tok \in Toks /\ age[c.tok] = "expired")
\* time.Until(ExpiresAt) > 2*time.Minute
Fresh(c) == ~c.exp /\ (c.tok \in Toks => age[c.tok] = "fresh")

\* The credential with the durable mark "its refresh token may be on its way".
Fenced(c) == [c EXCEPT !.pending = TRUE]
\* (Mutation: a rejected credential keeps its expiry.)
InvalidatedNotExpired(c) == [c EXCEPT !.pending = FALSE]

\* A rejected credential: expired for the API, its refresh token no longer fenced.
Invalidated(c) == [c EXCEPT !.exp = TRUE, !.pending = FALSE]
\* (Mutation: the fence is not looked at on start.)
ErrOnLoadIgnored(c) == "none"

\* What newAuthService concludes from the fence of the snapshot it loads.
ErrOnLoad(c) == IF c.pending THEN "ambiguous" ELSE "none"

\* get must exchange the refresh token before it can answer.
NeedsRefresh ==
    /\ mem.tok # 0
    /\ rerr = "none"
    /\ ~Fresh(mem)
    /\ Expired(mem) \/ ~backoff

\* (Mutation: refreshErr is not looked at.)
LoggedInUnlessExpired == mem.tok # 0 /\ ~uncertain /\ ~Expired(mem)

\* startLogin answers already_logged_in.
LoggedIn ==
    /\ mem.tok # 0
    /\ rerr = "none"
    /\ ~uncertain
    /\ ~Expired(mem)

\* a.mu is taken between the two disk writes of a rejection.
MuFree == \A p \in Callers : pc[p] # "quarantine"

At(p, where) == up /\ pc[p] = where
Goto(p, where) == pc' = [pc EXCEPT ![p] = where]

\* (Mutation: `refreshing` is not reset.)
ReleaseHalf(p, where) ==
    /\ refreshing' = refreshing
    /\ Goto(p, where)
    /\ work' = [work EXCEPT ![p] = NoWork]

\* close(done) releases everyone who waits for the exchange.
Release(p, where) ==
    /\ refreshing' = FALSE
    /\ pc' = [q \in Callers |-> IF q = p THEN where
                                ELSE IF pc[q] = "wait" THEN "lock" ELSE pc[q]]
    /\ work' = [work EXCEPT ![p] = NoWork]

Init ==
    /\ up = TRUE /\ mem = NoCred /\ gen = 0 /\ rerr = "none"
    /\ uncertain = FALSE /\ refreshing = FALSE /\ backoff = FALSE
    /\ disk = NoCred /\ stable = {NoCred}
    /\ pc = [p \in Callers |-> "idle"]
    /\ work = [p \in Callers |-> NoWork]
    /\ ctxDone = [p \in Callers |-> FALSE]
    /\ age = [t \in Toks |-> "fresh"]
    /\ ntok = 0
    /\ owner = 0 /\ maybeSpent = {} /\ resent = {} /\ rejected = {}

-------------------------------------------------------------------------------
(* get: deciding under a.mu *)

\* The refresh loop's tick calls get only for a credential that is about to
\* expire and not already in error; other callers call it whenever they like.
Tick == InService => mem.tok # 0 /\ ~Fresh(mem) /\ rerr = "none"

Call(p) ==
    /\ At(p, "idle") /\ MuFree
    /\ Tick
    /\ Goto(p, "lock")
    /\ ctxDone' = [ctxDone EXCEPT ![p] = InService /\ @]
    /\ UNCHANGED <<procVars, diskVars, work, envVars, histVars>>

\* No credential, a recorded refresh error, a fresh token, or back-off.
Return(p) ==
    /\ At(p, "lock") /\ MuFree
    /\ ~NeedsRefresh
    /\ Goto(p, "idle")
    /\ UNCHANGED <<procVars, diskVars, work, ctxDone, envVars, histVars>>

\* Someone else's exchange is in flight: wait for its `done`.
Wait(p) ==
    /\ At(p, "lock") /\ MuFree
    /\ NeedsRefresh /\ refreshing
    /\ Goto(p, "wait")
    /\ UNCHANGED <<procVars, diskVars, work, ctxDone, envVars, histVars>>

WaitCancelled(p) ==
    /\ At(p, "wait") /\ ctxDone[p]
    /\ Goto(p, "idle")
    /\ UNCHANGED <<procVars, diskVars, work, ctxDone, envVars, histVars>>

\* (Mutation: the answer of Save is dropped.)
FenceAssumed(result) == TRUE

\* Whether get goes on to the exchange after Save(pending) answered `result`.
FenceHolds(result) == result = "ok"

\* The fence is written before the exchange; a failed write ends the call and
\* backs off.
Fence(p) ==
    /\ At(p, "lock") /\ MuFree
    /\ NeedsRefresh /\ ~refreshing
    /\ \E result \in Reg!Results :
        /\ Reg!Replace(Fenced(mem), result)
        /\ IF FenceHolds(result)
           THEN /\ mem' = Fenced(mem)
                /\ refreshing' = TRUE
                /\ work' = [work EXCEPT ![p] =
                     [old |-> Fenced(mem), g |-> gen, client |-> 1,
                      out |-> "none", fresh |-> NoCred]]
                /\ Goto(p, "send")
                /\ UNCHANGED backoff
           ELSE /\ backoff' = TRUE
                /\ Goto(p, "idle")
                /\ UNCHANGED <<mem, refreshing, work>>
    /\ UNCHANGED <<up, gen, rerr, uncertain, ctxDone, envVars, histVars>>

-------------------------------------------------------------------------------
(* exchange and boundExchange: without a.mu *)

\* The exchange ends with outcome `out` and credential `fresh`.
Ends(p, out, fresh) ==
    /\ work' = [work EXCEPT ![p].out = out, ![p].fresh = fresh]
    /\ Goto(p, "settle")

\* The refresh token has itself expired: refused without a request.
RefuseLocally(p) ==
    /\ At(p, "send") /\ work[p].client = 1
    /\ Ends(p, "rejected", NoCred)
    /\ UNCHANGED <<procVars, diskVars, ctxDone, envVars, histVars>>

\* No request leaves: the context is over, or nonce or signature failed.
SendFails(p) ==
    /\ At(p, "send")
    /\ Ends(p, IF ctxDone[p] THEN "cancelled" ELSE "failed", NoCred)
    /\ UNCHANGED <<procVars, diskVars, ctxDone, envVars, histVars>>

Send(p) ==
    /\ At(p, "send") /\ ~ctxDone[p]
    /\ LET rt == work[p].old.rt IN
        /\ resent' = resent \cup ({rt} \cap maybeSpent)
        /\ maybeSpent' = maybeSpent \cup {rt}
    /\ Goto(p, "reply")
    /\ UNCHANGED <<procVars, diskVars, work, ctxDone, envVars, owner, rejected>>

\* decodeExchange: the access token is new; an omitted refresh token is kept.
Exchanged(old, reply, n) ==
    [old EXCEPT !.tok = n, !.rt = IF reply = "rotated" THEN n ELSE @,
                !.pending = FALSE, !.exp = FALSE]

\* 200 with an access token.  A kept refresh token has not been spent.
ReplyOk(p, reply) ==
    /\ At(p, "reply") /\ reply \in Replies \cap {"rotated", "kept"}
    /\ ntok < MaxTok
    /\ ntok' = ntok + 1
    /\ Ends(p, "ok", Exchanged(work[p].old, reply, ntok + 1))
    /\ maybeSpent' = IF reply = "kept" THEN maybeSpent \ {work[p].old.rt}
                                       ELSE maybeSpent
    /\ UNCHANGED <<procVars, diskVars, ctxDone, age, owner, resent, rejected>>

\* Upstream refuses the first client identity: the second one is tried.  Both
\* refused: a definitive rejection.  A refused refresh token has not been spent.
ClientsLeft(client) == client < 2

ReplyRejected(p) ==
    /\ At(p, "reply") /\ "rejected" \in Replies
    /\ maybeSpent' = maybeSpent \ {work[p].old.rt}
    /\ IF ClientsLeft(work[p].client)
       THEN /\ work' = [work EXCEPT ![p].client = @ + 1]
            /\ Goto(p, "send")
       ELSE Ends(p, "rejected", NoCred)
    /\ UNCHANGED <<procVars, diskVars, ctxDone, envVars, owner, resent, rejected>>

\* 200 for another UserID is reported as errLoginRequired, like a 401.
ReplyMismatch(p) ==
    /\ At(p, "reply") /\ "mismatch" \in Replies
    /\ Ends(p, "rejected", NoCred)
    /\ UNCHANGED <<procVars, diskVars, ctxDone, envVars, histVars>>

\* 200 without a token, or no usable answer: with a store, both end the same way.
ReplyUnusable(p) ==
    /\ At(p, "reply") /\ Replies \cap {"incomplete", "failed"} # {}
    /\ Ends(p, "failed", NoCred)
    /\ UNCHANGED <<procVars, diskVars, ctxDone, envVars, histVars>>

ReplyCancelled(p) ==
    /\ At(p, "reply") /\ ctxDone[p]
    /\ Ends(p, "cancelled", NoCred)
    /\ UNCHANGED <<procVars, diskVars, ctxDone, envVars, histVars>>

-------------------------------------------------------------------------------
(* get: settling the exchange under a.mu *)

\* (Mutation: the generation is not compared.)
ChangedUnseen(g) == FALSE

\* A login replaced the credential while the exchange was in flight.
Changed(g) == gen # g

Settling(p) == At(p, "settle") /\ MuFree

\* The result belongs to a credential that is gone: start over.
SettleChanged(p) ==
    /\ Settling(p) /\ Changed(work[p].g)
    /\ Release(p, "lock")
    /\ UNCHANGED <<up, mem, gen, rerr, uncertain, backoff, diskVars, ctxDone,
                   envVars, histVars>>

\* The context is over: whatever the exchange brought is dropped.
SettleCancelled(p) ==
    /\ Settling(p) /\ ~Changed(work[p].g) /\ ctxDone[p]
    /\ Release(p, "idle")
    /\ UNCHANGED <<up, mem, gen, rerr, uncertain, backoff, diskVars, ctxDone,
                   envVars, histVars>>

\* Save(fresh).  An error after the rename counts as published when the read
\* back finds exactly `fresh`; otherwise the outcome of the refresh is unknown.
SettleOk(p) ==
    /\ Settling(p) /\ ~Changed(work[p].g) /\ ~ctxDone[p]
    /\ work[p].out = "ok"
    /\ \E result \in Reg!Results, readable \in BOOLEAN :
        /\ Reg!Replace(work[p].fresh, result)
        /\ IF result = "ok" \/ (readable /\ disk' = work[p].fresh)
           THEN /\ mem' = work[p].fresh
                /\ backoff' = TRUE
                /\ uncertain' = (result # "ok")
                /\ Release(p, IF result = "ok" THEN "lock" ELSE "idle")
                /\ UNCHANGED rerr
           ELSE /\ rerr' = "ambiguous"
                /\ Release(p, "idle")
                /\ UNCHANGED <<mem, backoff, uncertain>>
    /\ UNCHANGED <<up, gen, ctxDone, envVars, histVars>>

\* The refresh token may have been spent: never send it again.
SettleUnknown(p) ==
    /\ Settling(p) /\ ~Changed(work[p].g) /\ ~ctxDone[p]
    /\ work[p].out = "failed"
    /\ rerr' = "ambiguous"
    /\ Release(p, "idle")
    /\ UNCHANGED <<up, mem, gen, uncertain, backoff, diskVars, ctxDone,
                   envVars, histVars>>

\* Rejected: the API's snapshot is overwritten with an expired one ...
SettleRejected(p) ==
    /\ Settling(p) /\ ~Changed(work[p].g) /\ ~ctxDone[p]
    /\ work[p].out = "rejected"
    /\ \E result \in Reg!Results :
        /\ Reg!Replace(Invalidated(work[p].old), result)
        /\ IF result = "ok"
           THEN /\ rerr' = "login"
                /\ Release(p, "idle")
                /\ rejected' = rejected \cup {work[p].old.tok}
           ELSE /\ Goto(p, "quarantine")
                /\ UNCHANGED <<rerr, refreshing, rejected, work>>
    /\ UNCHANGED <<up, mem, gen, uncertain, backoff, ctxDone, envVars,
                   owner, maybeSpent, resent>>

\* ... or, if that fails, moved away, provided it still is the rejected one.
MayQuarantine(old) == disk.tok = old.tok

Quarantine(p) ==
    /\ At(p, "quarantine")
    /\ \E result \in Reg!Results :
        /\ result # "before" => MayQuarantine(work[p].old)
        /\ Reg!Replace(NoCred, result)
        /\ rejected' = IF result = "ok" THEN rejected \cup {work[p].old.tok}
                                        ELSE rejected
    /\ rerr' = "login"
    /\ Release(p, "idle")
    /\ UNCHANGED <<up, mem, gen, uncertain, backoff, ctxDone, envVars,
                   owner, maybeSpent, resent>>

-------------------------------------------------------------------------------
(* The rest of the process, and its environment *)

\* What callback reads from the authorization's query, or exchanges it for.
NewLogin(n) == [tok |-> n, rt |-> n, login |-> n, pending |-> FALSE, exp |-> FALSE]

\* callback's last critical section, for the login LoginFlow lets through.
PublishLogin ==
    /\ up /\ MuFree /\ ntok < MaxTok
    /\ ntok' = ntok + 1
    /\ LET c == NewLogin(ntok + 1)
       IN \E result \in Reg!Results, readable \in BOOLEAN :
            /\ Reg!Replace(c, result)
            /\ IF result = "ok" \/ (readable /\ disk' = c)
               THEN /\ mem' = c
                    /\ gen' = gen + 1
                    /\ rerr' = "none"
                    /\ uncertain' = (result # "ok")
                    /\ owner' = c.login
               ELSE UNCHANGED <<mem, gen, rerr, uncertain, owner>>
    /\ UNCHANGED <<up, refreshing, backoff, callVars, age, maybeSpent, resent, rejected>>

\* Run's context ends (the service), or one caller gives up.
Cancel ==
    /\ up
    /\ \/ /\ InService /\ \E p \in Callers : ~ctxDone[p]
          /\ ctxDone' = [p \in Callers |-> TRUE]
       \/ /\ ~InService
          /\ \E p \in Callers : pc[p] # "idle" /\ ~ctxDone[p]
                                /\ ctxDone' = [ctxDone EXCEPT ![p] = TRUE]
    /\ UNCHANGED <<procVars, diskVars, pc, work, envVars, histVars>>

\* Nothing of the process's memory survives.
ProcessGone ==
    /\ up' = FALSE /\ mem' = NoCred /\ gen' = 0 /\ rerr' = "none"
    /\ uncertain' = FALSE /\ refreshing' = FALSE /\ backoff' = FALSE
    /\ pc' = [p \in Callers |-> "idle"]
    /\ work' = [p \in Callers |-> NoWork]
    /\ ctxDone' = [p \in Callers |-> FALSE]

\* Killed anywhere; or Run has waited for its refresh loop and returned.
Kill ==
    /\ up /\ ProcessGone
    /\ UNCHANGED <<diskVars, envVars, histVars>>

PowerLoss ==
    /\ ProcessGone
    /\ Reg!PowerLoss
    /\ UNCHANGED <<envVars, histVars>>

\* newAuthService: load the snapshot; a fenced one must not be exchanged.
Restart ==
    /\ ~up
    /\ up' = TRUE
    /\ mem' = disk
    /\ rerr' = ErrOnLoad(disk)
    /\ owner' = disk.login
    /\ UNCHANGED <<gen, uncertain, refreshing, backoff, diskVars, callVars, envVars,
                   maybeSpent, resent, rejected>>

\* A token in use comes within two minutes of its expiry, or reaches it.
Older(a) == IF a = "fresh" THEN "expiring" ELSE "expired"

Age ==
    /\ \E t \in Toks \cap {mem.tok, disk.tok} :
        /\ age[t] # "expired"
        /\ age' = [age EXCEPT ![t] = Older(@)]
    /\ UNCHANGED <<procVars, diskVars, callVars, ntok, histVars>>

BackoffEnds ==
    /\ backoff
    /\ backoff' = FALSE
    /\ UNCHANGED <<up, mem, gen, rerr, uncertain, refreshing, diskVars, callVars,
                   envVars, histVars>>

\* What a goroutine inside get does next.
Step(p) ==
    \/ Return(p) \/ Wait(p) \/ WaitCancelled(p) \/ Fence(p)
    \/ RefuseLocally(p) \/ SendFails(p) \/ Send(p)
    \/ \E reply \in Replies : ReplyOk(p, reply)
    \/ ReplyRejected(p) \/ ReplyMismatch(p) \/ ReplyUnusable(p) \/ ReplyCancelled(p)
    \/ SettleChanged(p) \/ SettleCancelled(p) \/ SettleOk(p)
    \/ SettleUnknown(p) \/ SettleRejected(p) \/ Quarantine(p)

Environment ==
    \/ PublishLogin \/ Cancel \/ Kill \/ PowerLoss \/ Restart \/ Age \/ BackoffEnds

Next == (\E p \in Callers : Call(p) \/ Step(p)) \/ Environment

Spec == Init /\ [][Next]_vars

\* The scheduler runs every goroutine inside get; an exchange ends because the
\* HTTP client has a timeout.  Nothing else is promised: no call, no login, no
\* restart ever has to happen.
FairSpec == Spec /\ \A p \in Callers : WF_vars(Step(p))

-------------------------------------------------------------------------------
(* Properties *)

TypeOK ==
    /\ up \in BOOLEAN /\ mem \in Cred /\ gen \in 0..MaxTok
    /\ rerr \in {"none", "ambiguous", "login"}
    /\ uncertain \in BOOLEAN /\ refreshing \in BOOLEAN /\ backoff \in BOOLEAN
    /\ disk \in Cred /\ stable \in SUBSET Cred /\ disk \in stable
    /\ pc \in [Callers -> Places]
    /\ work \in [Callers -> Work]
    /\ ctxDone \in [Callers -> BOOLEAN]
    /\ age \in [Toks -> {"fresh", "expiring", "expired"}]
    /\ ntok \in 0..MaxTok /\ owner \in 0..MaxTok
    /\ maybeSpent \subseteq Toks /\ resent \subseteq Toks /\ rejected \subseteq Toks

\* A refresh token that may already have been spent upstream is never sent again,
\* not by a later call, not after the exchange failed or lost its answer, not
\* after a crash, a power loss or a restart (the fence and refreshErr of get and
\* newAuthService).
UncertainNeverResent == resent = {}

\* Whatever a power loss leaves on disk, a refresh token that may have been spent
\* is behind its fence: get writes it durably before it sends, and only a
\* settled exchange or a new login takes it away.
FenceCoversSpent == \A c \in stable : c.rt \in maybeSpent => c.pending

InExchange(p) == pc[p] \in {"send", "reply", "settle", "quarantine"}

\* Two callers of get never exchange at the same time, and `refreshing` is set
\* exactly while one does, so that a waiter always has someone to wait for.
OneExchange ==
    /\ \A p, q \in Callers : InExchange(p) /\ InExchange(q) => p = q
    /\ refreshing <=> \E p \in Callers : InExchange(p)

\* The result of an exchange that a login has overtaken reaches neither memory nor
\* disk: both hold the newest published login (the disk possibly a newer one,
\* whose read back failed and which callback reported as not saved).
NoStaleOverwrite ==
    up => /\ mem.login = owner
          /\ disk # NoCred => disk.login >= owner

\* When startLogin answers already_logged_in, an API process reading the file finds
\* the very credential Auth holds.  The exception is a login whose file was put in
\* place although Save failed and the read back failed too: memory keeps the old
\* credential, callback has answered "not saved", and the file has that newer login,
\* untouched.  The API never finds an older, an invalidated or no credential.
AlreadyLoggedInIsServed ==
    up /\ MuFree /\ LoggedIn =>
        \/ disk.tok = mem.tok /\ disk.rt = mem.rt /\ ~disk.exp
        \/ disk.login > owner /\ disk = NewLogin(disk.login)

\* Once the rejection of an access token is on disk, no retry, crash, power loss
\* or restart makes the API serve that token again.
RejectedStaysInvalid == \A c \in stable : c.tok \in rejected => c.exp

\* Every call of the refresh loop returns, whatever login, cancellation or failure
\* it meets: no path of get leaves `done` open, on which the next call would wait
\* for ever, or keeps a.mu.  (Each time get starts over, a login was published or
\* upstream issued a token, so the bound MaxTok bounds that loop.  Of several
\* callers one may starve: it is woken, and before it has a.mu another caller whose
\* own context ends again and again has begun the next exchange.)
GetReturns == \A p \in Callers : pc[p] # "idle" ~> pc[p] = "idle"
================================================================================
