------------------------------- MODULE LoginFlow -------------------------------
(* The browser login: attempts kept by authManager (beginLogin, callback,      *)
(* finishLogin), the status and cancel handlers of authService, the login CLI  *)
(* (runLogin) and the browser that calls back.                                 *)
(*                                                                             *)
(* Each acquisition of a.mu is one action.  startLogin takes it twice (is      *)
(* someone logged in? begin an attempt), callback three times (claim, publish, *)
(* the deferred finishLogin), and anything may happen in between.  A call of   *)
(* the CLI may get lost, or be handled and its answer get lost.  Attempts are  *)
(* numbered in the order they begin; a number stands for the random state of   *)
(* the attempt and for the credential its authorization brings.                *)
(*                                                                             *)
(* What the refresh loop does meanwhile to the credential of the current login *)
(* is abstract here: RefreshSide is all of it, which AuthRefreshProofs shows   *)
(* of AuthRefresh (RefreshSideHolds).                                          *)
EXTENDS Naturals, FiniteSets

CONSTANTS
    Clients,        \* invocations of `trae-api login`
    Callbacks,      \* GET /authorize requests that may run at the same time
    MaxAttempts,    \* bound: attempts begun in a behaviour
    Cap             \* attempts whose results are remembered (128 in the code)

ASSUME BoundsAssumption == MaxAttempts \in Nat /\ Cap \in Nat \ {0}

VARIABLES
    pending,        \* authManager.pending: attempts an authorization may claim
    results,        \* authManager.loginResults: status of each, "none" if absent
    generation, bornIn, \* authManager.generation, and at the attempt's begin
    latest,         \* authManager.latestLogin
    cred,           \* the attempt authManager.cred comes from
    usable,         \* refreshErr = nil and the access token has not expired
    uncertain,      \* authManager.durabilityUncertain
    disk, stable,   \* the credential file: visible, and after a power loss
    expired,        \* attempts whose ten minutes are over
    bpc, bid,       \* each callback's position and attempt
    cpc, cid, outcome   \* each CLI's position, attempt and what it told the user

\* History.
VARIABLES
    begun,          \* attempts begun so far
    claims,         \* how often each attempt has been claimed
    acked           \* attempts whose cancellation was answered "cancelled"

attemptVars == <<pending, results, generation, bornIn, latest>>
credVars == <<cred, usable, uncertain, disk, stable>>
browserVars == <<bpc, bid>>
cliVars == <<cpc, cid, outcome>>
histVars == <<begun, claims, acked>>
vars == <<attemptVars, credVars, expired, browserVars, cliVars, histVars>>

Ids == 1..MaxAttempts
Statuses == {"none", "pending", "superseded", "expired", "cancelled", "completed",
             "durability_uncertain", "failed"}

Reg == INSTANCE SnapshotRegister WITH value <- disk, Snapshots <- Ids, Missing <- 0

Init ==
    /\ pending = {} /\ results = [i \in Ids |-> "none"]
    /\ generation = 0 /\ bornIn = [i \in Ids |-> 0] /\ latest = 0
    /\ cred = 0 /\ usable = FALSE /\ uncertain = FALSE
    /\ disk = 0 /\ stable = {0}
    /\ expired = {}
    /\ bpc = [b \in Callbacks |-> "idle"] /\ bid = [b \in Callbacks |-> 0]
    /\ cpc = [c \in Clients |-> "new"] /\ cid = [c \in Clients |-> 0]
    /\ outcome = [c \in Clients |-> "none"]
    /\ begun = 0 /\ claims = [i \in Ids |-> 0] /\ acked = {}

-------------------------------------------------------------------------------
(* beginLogin *)

\* Results still worth keeping: those that have not expired ...
Kept == {i \in Ids : results[i] # "none" /\ i \notin expired}
\* (Mutation: no limit.)
EvictedNone == {}

\* ... and if that is Cap of them, not the one that would expire first.
Evicted == IF Cardinality(Kept) >= Cap
           THEN {i \in Kept : \A j \in Kept : i <= j}
           ELSE {}

\* (Mutation: older attempts stay as they are.)
SupersededNot(status) == status

\* The status of an attempt that is remembered while a newer one begins.
Superseded(status) == IF status = "pending" THEN "superseded" ELSE status

\* The older attempts once a new one has replaced them.
Replaced == [i \in Ids |-> IF i \in Kept \ Evicted THEN Superseded(results[i]) ELSE "none"]

BeginLogin(n) ==
    /\ n \in Ids /\ n = begun + 1
    /\ begun' = n
    /\ results' = [Replaced EXCEPT ![n] = "pending"]
    /\ pending' = {n}
    /\ bornIn' = [bornIn EXCEPT ![n] = generation]
    /\ latest' = n

-------------------------------------------------------------------------------
(* callback *)

\* First critical section: whoever takes the attempt out of `pending` has it.
Claimable(i) == i \in pending /\ results[i] = "pending" /\ i \notin expired

Claim(b, i) ==
    /\ bpc[b] = "idle"
    /\ Claimable(i)
    /\ pending' = pending \ {i}
    /\ claims' = [claims EXCEPT ![i] = @ + 1]
    /\ bpc' = [bpc EXCEPT ![b] = "claimed"]
    /\ bid' = [bid EXCEPT ![b] = i]
    /\ UNCHANGED <<results, generation, bornIn, latest, credVars, expired, cliVars, begun, acked>>

\* The time is looked at once more, before finishLogin is deferred.
TooLate(b) ==
    /\ bpc[b] = "claimed" /\ bid[b] \in expired
    /\ bpc' = [bpc EXCEPT ![b] = "idle"]
    /\ UNCHANGED <<attemptVars, credVars, expired, bid, cliVars, histVars>>

Proceed(b) ==
    /\ bpc[b] = "claimed" /\ bid[b] \notin expired
    /\ bpc' = [bpc EXCEPT ![b] = "working"]
    /\ UNCHANGED <<attemptVars, credVars, expired, bid, cliVars, histVars>>

\* Another region, a failed exchange, no account: the attempt has failed.
Refuse(b) ==
    /\ bpc[b] = "working"
    /\ bpc' = [bpc EXCEPT ![b] = "finishing"]
    /\ UNCHANGED <<attemptVars, credVars, expired, bid, cliVars, histVars>>

\* (Mutation: only the time is looked at again.)
StillInTime(i) == i \notin expired

\* What must still hold when the credential is about to be published.
StillWanted(i) ==
    /\ bornIn[i] = generation
    /\ latest = i
    /\ results[i] = "pending"
    /\ i \notin expired

\* (Mutation: an unconfirmed Save counts as one.)
PublishedAlways(result) == "completed"

\* What the attempt has come to, given the answer of Save.
PublishedStatus(result) == IF result = "ok" THEN "completed" ELSE "durability_uncertain"

\* Second critical section: save, read back after an error, publish.
Publish(b) ==
    LET i == bid[b] IN
    /\ bpc[b] = "working"
    /\ StillWanted(i)
    /\ \E result \in Reg!Results, readable \in BOOLEAN :
        /\ Reg!Replace(i, result)
        /\ IF result = "ok" \/ (readable /\ disk' = i)
           THEN /\ cred' = i
                /\ generation' = generation + 1
                /\ usable' = TRUE
                /\ uncertain' = (result # "ok")
                /\ results' = [results EXCEPT ![i] = PublishedStatus(result)]
           ELSE UNCHANGED <<cred, generation, usable, uncertain, results>>
    /\ bpc' = [bpc EXCEPT ![b] = "finishing"]
    /\ UNCHANGED <<pending, bornIn, latest, expired, bid, cliVars, histVars>>

\* (Mutation: a failed attempt stays pending.)
FinishSilently(b) ==
    /\ bpc[b] = "finishing"
    /\ bpc' = [bpc EXCEPT ![b] = "idle"]
    /\ UNCHANGED <<attemptVars, credVars, expired, bid, cliVars, histVars>>

\* Third: the deferred finishLogin.
Finish(b) ==
    /\ bpc[b] = "finishing"
    /\ results' = [results EXCEPT ![bid[b]] = IF @ = "pending" THEN "failed" ELSE @]
    /\ bpc' = [bpc EXCEPT ![b] = "idle"]
    /\ UNCHANGED <<pending, generation, bornIn, latest, credVars, expired, bid, cliVars, histVars>>

-------------------------------------------------------------------------------
(* The CLI and the handlers it calls *)

\* startLogin, first lock: is a credential in use that needs no login?
LoggedIn == cred # 0 /\ usable /\ ~uncertain

StartCheck(c) ==
    /\ cpc[c] = "new"
    /\ IF LoggedIn
       THEN /\ cpc' = [cpc EXCEPT ![c] = "done"]
            /\ outcome' = [outcome EXCEPT ![c] = "already"]
       ELSE /\ cpc' = [cpc EXCEPT ![c] = "begin"]
            /\ UNCHANGED outcome
    /\ UNCHANGED <<attemptVars, credVars, expired, browserVars, cid, histVars>>

\* startLogin, second lock.  Without the answer the CLI knows no attempt to cancel.
StartBegin(c) ==
    /\ cpc[c] = "begin"
    /\ BeginLogin(begun + 1)
    /\ \/ /\ cid' = [cid EXCEPT ![c] = begun + 1]
          /\ cpc' = [cpc EXCEPT ![c] = "poll"]
          /\ UNCHANGED outcome
       \/ /\ cpc' = [cpc EXCEPT ![c] = "done"]
          /\ outcome' = [outcome EXCEPT ![c] = "error"]
          /\ UNCHANGED cid
    /\ UNCHANGED <<generation, credVars, expired, browserVars, claims, acked>>

\* No key or device ID can be made: the older attempts are gone all the same.
StartBroken(c) ==
    /\ cpc[c] = "begin"
    /\ pending' = {} /\ results' = Replaced
    /\ cpc' = [cpc EXCEPT ![c] = "done"]
    /\ outcome' = [outcome EXCEPT ![c] = "error"]
    /\ UNCHANGED <<generation, bornIn, latest, credVars, expired, browserVars, cid, histVars>>

\* The service is not running, shuts down, or the CLI gives up before an answer.
StartFails(c) ==
    /\ cpc[c] \in {"new", "begin"}
    /\ cpc' = [cpc EXCEPT ![c] = "done"]
    /\ outcome' = [outcome EXCEPT ![c] = "error"]
    /\ UNCHANGED <<attemptVars, credVars, expired, browserVars, cid, histVars>>

\* loginStatus: what it records and answers for attempt i.
StatusOf(i) == IF results[i] = "pending" /\ i \in expired THEN "expired" ELSE results[i]

\* An attempt that ends unclaimed is forgotten as the one to be authorized.
Forget(i) ==
    /\ pending' = pending \ {i}
    /\ latest' = IF latest = i THEN 0 ELSE latest

\* What the CLI tells the user; "wait" while the attempt is pending.
Told(status) ==
    CASE status = "pending" -> "wait"
      [] status = "completed" -> "success"
      [] OTHER -> "error"

Poll(c) ==
    LET i == cid[c]
        status == StatusOf(i) IN
    /\ cpc[c] = "poll"
    /\ results' = [results EXCEPT ![i] = status]
    /\ IF status # results[i] THEN Forget(i) ELSE UNCHANGED <<pending, latest>>
    /\ \E answer \in {Told(status), "error"} :      \* or the answer is lost
         IF answer = "wait"
         THEN UNCHANGED <<cpc, outcome>>
         ELSE /\ cpc' = [cpc EXCEPT ![c] = "cleanup"]
              /\ outcome' = [outcome EXCEPT ![c] = answer]
    /\ UNCHANGED <<generation, bornIn, credVars, expired, browserVars, cid, histVars>>

\* (Mutation: the CLI has no timeout of its own.)
GiveUpExpired(c) ==
    /\ cpc[c] = "poll" /\ cid[c] \in expired
    /\ cpc' = [cpc EXCEPT ![c] = "cleanup"]
    /\ outcome' = [outcome EXCEPT ![c] = "error"]
    /\ UNCHANGED <<attemptVars, credVars, expired, browserVars, cid, histVars>>

\* Timeout or Ctrl+C, or a status request that does not arrive.
GiveUp(c) ==
    /\ cpc[c] = "poll"
    /\ cpc' = [cpc EXCEPT ![c] = "cleanup"]
    /\ outcome' = [outcome EXCEPT ![c] = "error"]
    /\ UNCHANGED <<attemptVars, credVars, expired, browserVars, cid, histVars>>

\* (Mutation: whatever the attempt has come to.)
CancelAnything(status) == "cancelled"

\* cancelLogin: the status it records and answers.
CancelStatus(status) == IF status = "pending" THEN "cancelled" ELSE status

\* The deferred cancel call of the CLI, handled ...
Cleanup(c) ==
    LET i == cid[c]
        status == CancelStatus(results[i]) IN
    /\ cpc[c] = "cleanup"
    /\ cpc' = [cpc EXCEPT ![c] = "done"]
    /\ results' = [results EXCEPT ![i] = status]
    /\ IF status # results[i] THEN Forget(i) ELSE UNCHANGED <<pending, latest>>
    /\ acked' = IF status = "cancelled" THEN acked \cup {i} ELSE acked
    /\ UNCHANGED <<generation, bornIn, credVars, expired, browserVars, cid, outcome,
                   begun, claims>>

\* ... or lost.
CleanupLost(c) ==
    /\ cpc[c] = "cleanup"
    /\ cpc' = [cpc EXCEPT ![c] = "done"]
    /\ UNCHANGED <<attemptVars, credVars, expired, browserVars, cid, outcome, histVars>>

-------------------------------------------------------------------------------
(* The refresh loop, time, and crashes *)

\* A token expires, is refreshed, or its refresh fails; the snapshot of the current
\* login is rewritten, or moved aside once its token has been rejected.
RefreshSide ==
    /\ cred # 0
    /\ usable' \in BOOLEAN /\ uncertain' \in BOOLEAN
    /\ \/ \E result \in Reg!Results : Reg!Replace(cred, result)
       \/ /\ ~usable'
          /\ \E result \in Reg!Results : Reg!Replace(0, result)
    /\ UNCHANGED <<attemptVars, cred, expired, browserVars, cliVars, histVars>>

\* Attempts expire in the order in which they have begun.
Expire ==
    /\ \E i \in 1..begun : i \notin expired /\ expired' = 1..i
    /\ UNCHANGED <<attemptVars, credVars, browserVars, cliVars, histVars>>

\* Auth is killed or the machine fails, and Auth is started again: the attempts
\* are forgotten, running callbacks are gone, the credential is what the file has.
Restart ==
    /\ Reg!PowerLoss \/ UNCHANGED <<disk, stable>>
    /\ pending' = {} /\ results' = [i \in Ids |-> "none"] /\ latest' = 0
    /\ generation' = 0 /\ bornIn' = [i \in Ids |-> 0]
    /\ cred' = disk' /\ usable' \in BOOLEAN /\ uncertain' = FALSE
    /\ bpc' = [b \in Callbacks |-> "idle"] /\ bid' = [b \in Callbacks |-> 0]
    /\ UNCHANGED <<expired, cliVars, histVars>>

CallbackStep(b) ==
    TooLate(b) \/ Proceed(b) \/ Refuse(b) \/ Publish(b) \/ Finish(b)

\* The last critical section refuses what is no longer wanted.
NotWanted(b) ==
    /\ bpc[b] = "working" /\ ~StillWanted(bid[b])
    /\ bpc' = [bpc EXCEPT ![b] = "finishing"]
    /\ UNCHANGED <<attemptVars, credVars, expired, bid, cliVars, histVars>>

ClientStep(c) ==
    \/ StartCheck(c) \/ StartBegin(c) \/ StartBroken(c) \/ StartFails(c)
    \/ Poll(c) \/ GiveUp(c)
    \/ Cleanup(c) \/ CleanupLost(c)

Next ==
    \/ \E b \in Callbacks : (\E i \in Ids : Claim(b, i)) \/ CallbackStep(b) \/ NotWanted(b)
    \/ \E c \in Clients : ClientStep(c)
    \/ RefreshSide \/ Expire \/ Restart

Spec == Init /\ [][Next]_vars

\* A handler that runs goes on.  A started CLI makes its first and its last call,
\* and its context has a timeout, so it does not poll for ever; that a poll is
\* answered, or that the user gives up, is not promised.
FairSpec ==
    /\ Spec
    /\ \A b \in Callbacks : WF_vars(CallbackStep(b) \/ NotWanted(b))
    /\ \A c \in Clients :
        /\ WF_vars(StartBegin(c) \/ StartBroken(c) \/ (cpc[c] = "begin" /\ StartFails(c)))
        /\ WF_vars(GiveUp(c))
        /\ WF_vars(Cleanup(c) \/ CleanupLost(c))

-------------------------------------------------------------------------------
(* Properties *)

TypeOK ==
    /\ pending \subseteq Ids /\ results \in [Ids -> Statuses]
    /\ generation \in Nat /\ bornIn \in [Ids -> Nat]
    /\ latest \in 0..MaxAttempts /\ cred \in 0..MaxAttempts
    /\ usable \in BOOLEAN /\ uncertain \in BOOLEAN
    /\ disk \in 0..MaxAttempts /\ stable \subseteq 0..MaxAttempts /\ disk \in stable
    /\ expired \subseteq Ids
    /\ bpc \in [Callbacks -> {"idle", "claimed", "working", "finishing"}]
    /\ bid \in [Callbacks -> 0..MaxAttempts]
    /\ cpc \in [Clients -> {"new", "begin", "poll", "cleanup", "done"}]
    /\ cid \in [Clients -> 0..MaxAttempts]
    /\ outcome \in [Clients -> {"none", "already", "success", "error"}]
    /\ begun \in 0..MaxAttempts /\ claims \in [Ids -> 0..1] /\ acked \subseteq Ids

\* What may still be authorized is the newest attempt, and its status is pending:
\* no superseded, cancelled, expired or finished attempt can be claimed, and none
\* twice, however often the browser calls back.
OnlyNewestClaimable ==
    /\ \A i \in pending : i = begun /\ i = latest /\ results[i] = "pending"
    /\ \A i \in Ids : results[i] = "pending" => i = begun
    /\ \A i \in Ids : claims[i] <= 1 /\ (i \in pending => claims[i] = 0)

\* Remembered results never exceed their limit, and what is dropped to make room is
\* never the attempt an authorization may still claim.
ResultsBounded ==
    /\ Cardinality({i \in Ids : results[i] # "none"}) <= Cap
    /\ \A i \in pending : results[i] # "none"

\* A login publishes its credential only if no newer attempt has begun since: a
\* callback that is overtaken between its claim and its publication is refused.
NewestWins ==
    [][cred' # cred /\ generation' # 0 => cred' = begun]_vars

\* Once the cancel handler has answered "cancelled", no step publishes the credential
\* of that attempt in memory or on disk, even if its callback was already at work.
CancelledNeverPublished ==
    [][\A i \in acked : i \notin stable \cup {cred} => i \notin stable' \cup {cred'}]_vars

\* A status other than pending is final while Auth remembers the attempt; the
\* deferred finishLogin, a late cancel or a newer attempt does not rewrite it.
StatusIsFinal ==
    [][\A i \in Ids : results[i] \notin {"none", "pending"} =>
           results'[i] \in {results[i], "none"}]_vars

\* When the CLI has said "Login successful. Auth saved credentials", no later
\* failure brings back the credential of an earlier login: whatever a power loss
\* leaves is of this login or a later one (or quarantined).
SuccessIsDurable ==
    \A c \in Clients : outcome[c] = "success" =>
        \A s \in stable : s = 0 \/ s >= cid[c]

\* An attempt whose callback is at work gets a final status, whatever the callback
\* runs into (the deferred finishLogin).
CallbackSettles ==
    \A b \in Callbacks, i \in Ids :
        bpc[b] = "working" /\ bid[b] = i ~> results[i] # "pending"

\* Every login command ends: with success, or an error the user is told.
LoginEnds == \A c \in Clients : cpc[c] # "new" ~> cpc[c] = "done"
================================================================================
