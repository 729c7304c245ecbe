# trae-api in TLA+

Models of the `trae-api` service (Go, package `main`), the TLC runs that check them on small
instances, and TLAPS proofs about its parts. All line numbers are of the sources they name.

## 1. The system

`trae-api` makes an account of the Trae IDE usable through an OpenAI-style API. It has two
components, run together (`runCombined`) or as two processes, that share one file:

| part | state | operations | talks to |
|---|---|---|---|
| **authManager** (`auth.go`) | `cred`, `generation`, `refreshErr`, `durabilityUncertain`, `refreshing`, `refreshedAt`; `pending`, `loginResults`, `latestLogin`; all under `mu` | `get` (refresh), `beginLogin`, `callback`, `finishLogin` | upstream (token exchange), credentialStore |
| **credentialStore** (`credential_store.go`) | the writer lock; `auth.json`, its temporary and quarantined files | `openCredentialStore`, `Load`, `Save`, `QuarantineRejected`, `Close`; `readAPICredential` in the API | the file system |
| **authService** (`auth_service.go`) | listener, server, contexts | `startLogin`, `loginStatus`, `cancelLogin`, `Run`, `refreshLoop`, `shutdown` | authManager; the login CLI over loopback HTTP |
| **login CLI** (`login_cli.go`) | the attempt it waits for | `runLogin`: start, poll, cancel | authService, the browser |
| **API server** (`main.go`, `http.go`) | `slots`, the server's context; per request a `streamSink` | `chat`, `execute`, `acquireGate`, `shutdown` | the file (read only), upstream |
| **upstream client** (`upstream.go`, `models.go`) | the cache of model lists, under its own mutex; per call the `ideAccumulator` | `modelNames`, `resolveRoute`, `prompt`, `readIDEStream` | upstream |
| **requests** (`types.go`) | none: the client sends the whole history each time | `validateToolHistory`, `buildRoutedIDEBody` | |
| **coordinator** (`coordinator.go`) | the channel `done` | `runCombined` | both components |

Auth publishes through the file only: the API reads a snapshot per request and never refreshes.
Inside Auth, goroutines share `authManager` under one mutex, which `get` and `callback` both drop
during their network calls. The refresh loop is the only caller of `get` in the program.

What is hard: the refresh token can be used once, so a crash, a timeout or a failed write between
sending it and saving the answer must not lead to a second use; a login overtakes an exchange, a
newer login attempt or a cancellation overtakes a callback; a rename that is visible may not be
durable; the parts must stop in an order in which nobody writes without the lock; keepalives are
written by a goroutine of their own; the upstream mixes snapshots with fragments and addresses tool
calls in four ways; a cached model list outlives the credential it was asked for, and may expire
between two looks of one request. `PROJECT.json` lists these hazards at their lines, with the
properties that cover them.

What makes each part correct: authManager never sends a token twice and never lets an old result
win; the store replaces snapshots atomically and confirms only what is durable; a login is published
only if it is still wanted; the coordinator leaves nothing behind; a response can be read and every
slot returns; what a streaming client puts together is the answer, and the answer is what the
upstream meant and the request allows; the gateway accepts as history what it answered; a request is
routed by what its own credential may use, within the limits of the model.

## 2. Modules

| module | models | builds on |
|---|---|---|
| `SnapshotRegister` | the contract of the credential file: a value, and what a power loss may leave | |
| `AuthRefresh` | `get` and everything around the token | `SnapshotRegister` as the file |
| `CredentialStore` | the store as system calls | refines `SnapshotRegister` |
| `LoginFlow` | login attempts, handlers, CLI, callbacks | `SnapshotRegister` as the file |
| `Lifecycle` | start and stop of both components | |
| `ApiGateway` | a chat request, the slots, the event stream to the client | |
| `IDEStream` | the event stream from the upstream: `readIDEStream`, `ideAccumulator` | |
| `Conversation` | requests that follow each other: `validateToolHistory`, names of results | extends `IDEStream` |
| `ModelCache` | model lists, their cache, routes, the token budget | |
| `*Proofs` | the theorems about the module of that name | TLAPS |
| `MC*` | model values, symmetry and small sets for TLC | |

The composition is by what a part may assume of the next: `AuthRefresh` and `LoginFlow` act on the
file by `SnapshotRegister`'s operations only, which `CredentialStore` implements; `LoginFlow`'s
`RefreshSide` is an assumption about the refresh loop, which is proved of `AuthRefresh`;
`Conversation` runs one `IDEStream` per request. In `ApiGateway`, where only the order of
frames matters, the call of the upstream is deltas, then an end or a failure.

### How the state corresponds

* **SnapshotRegister.** `value` is what the path names; `stable` is what it may name after a power
  loss. `Replace(c, result)` has the three outcomes of `Save`: done; renamed but the directory not
  synced ("credential published but directory sync failed"); failed before the rename.
* **AuthRefresh.** A token is the number under which upstream issued it; a credential is its access
  token, its refresh token, the login it comes from, `RefreshPending`, and whether Auth has itself
  set `ExpiresAt` into the past. Every section between `mu.Lock` and `mu.Unlock` is one action
  (`Fence`, `SettleOk`, `SettleRejected` ...), except that a rejection writes the disk twice, with
  `mu` held (`pc = "quarantine"`, `MuFree`), so that a crash may come between. Network steps
  (`Send`, `Reply*`) are actions of their own. `InService` says who calls `get`: the refresh loop,
  under one context (TRUE, the program), or callers with contexts of their own (FALSE, what the
  method allows and its tests use). `maybeSpent`, `resent`, `rejected`, `owner` are history.
* **CredentialStore.** Inodes have a content and may be unsynced; the path names an inode, and
  `durable` holds the inodes it may name after a power loss. One action per system call. The
  "before" outcome of the register is `SaveFails`; "unsynced" is `DirSyncFails`. What the code looks
  at and what it then does are two steps: `Recheck` and `CreateTemp`, `Compare` and `MoveAside`,
  which renames whatever the path names by then.
* **LoginFlow.** An attempt is its number; it stands for the random state and for the credential its
  authorization brings. `callback` is `Claim`, `TooLate`/`Proceed`, `Refuse`/`NotWanted`/ `Publish`,
  `Finish`: its three critical sections, and what lies between. Calls of the CLI are handled and
  answered, handled with the answer lost, or not handled. `RefreshSide` is all that the refresh loop
  can do to a published credential, which `AuthRefreshProofs!RefreshSideHolds` proves it keeps to.
* **Lifecycle.** Each component goes through start, serve, drain, (join, close, revoke, store,)
  report, gone; the three steps of Auth's `shutdown` close the server, take the callback's address
  back under `manager.mu`, and close the store outside it. `ServeFails`, `ListenFails`, a drain that
  times out or ends with an error, and errors of the last steps are what a component may report.
  `conns` says that accepted connections are open: they bring requests (`Handle`) also when the
  listener is closed. A callback's last critical section is `CallbackEnters`, `CallbackSaves`,
  `CallbackLeaves`. Saves are seen from outside, as an interval.
* **ApiGateway.** `wire` is the sequence of frames of a response, a run of deltas once and every
  other frame as often as it is written; `pinged` the places in it where a keepalive came (after a
  frame, before the first one, after the end of the stream). Each frame is written under the sink's
  mutex, so each is one action and keepalives come between any two.
* **IDEStream.** `calls` (with the ids of `byID`), `byIndex`, `lastCall`, `content`, `reasoning`,
  `finish` are the accumulator's fields, `answer` the `ToolCalls` that its end makes, `minted`
  counts the ids of `newID` (-1, -2, ...; the upstream's are positive). An event's text is one
  action (`Frame`), each of its records another (`AddCall`, `IgnoreCall`), each call checked at the
  end a third (`CloseCall`). Text is a sequence of letters, because merging is about prefixes, and
  tags are two such sequences (`OpenTag`, `CloseTag`): `Plain` and `Thought` are what `frame` takes
  for content and for reasoning.
  `told` is not a variable of the program: it is what a client has after it has applied every delta.
  `meant` and `form` are history: what the upstream means, as long as it addresses its calls in one
  way (all by id, all by index, all by their place in the list, or a single call without an address)
  and marks as snapshots only what continues the text; thinking in tags has to come in snapshots and
  with no other reasoning. When it no longer does, `form` is "any", and nothing is claimed about the
  meaning. `meant.text` is the upstream's own text, tags included; the answer is compared with what
  lies outside and inside the tags of the whole.
* **Conversation.** `history` is `chatRequest.Messages`; `honest` says that it is what happened, and
  not a list from elsewhere. `Judge` is the body of the loop in `validateToolHistory`, `Verdict` the
  loop. A message is its role, its calls, the id it answers and the name it may have; the roles
  "system" and "developer" are treated as "user" is. `NameOf` is the name that
  `buildRoutedIDEBody` sends with a result: the client's own, or that of the call (`CallName`).
* **ModelCache.** `ident` is the access snapshot that a request has read, and by its digest the
  cache's key. An entry of `cache` keeps whose credential asked (`by`) and which functions answered
  (`found`); its names and routes are operators of the two, as the second half of
  `modelNamesAttempt` computes them. A function is its place in `chatFunctions`, and the
  configurations found are a set of records with their places (`Entries`), of which `First` is the
  first in the order of the code's loops. The sequence `cache` is in the order of the entries'
  times, so that those past five minutes are its first `aged` entries. A request's `pc`
  is its place in `modelNamesAttempt` or `resolveRoute`, `stage` for whom it is there: the models
  handler, a request for "auto", `execute`, or `promptAttempt` after the stream has started.

Each mutation (`\* (Mutation: ...)`) is a variant of the definition that follows it, with a bug such
as code like this might have; it is used only to see that a property notices.

## 3. Runs

| run | instance | shows |
|---|---|---|
| `auth_service` | refresh loop, 2 tokens, all replies but an identity mismatch | no token resent, the fence is durable, a rejection stays, already_logged_in means served, every tick returns |
| `auth_manager` | 2 callers, 2 tokens, all replies | one exchange at a time; a login wins over an exchange it overtakes |
| `mismatch_resend` | refresh loop, 2 tokens, all replies | a counterexample, below |
| `credential_store` | 2 processes, 1 reader, 2 snapshots with a token each, a foreign file, 3 inodes | the store's properties and its refinement of `SnapshotRegister`; a reader gets one whole snapshot; quarantine moves the file it compared |
| `login_flow` | 2 CLIs, 2 callbacks, 2 attempts, room for 2 results | the newest wins, statuses are final, cancelled is never published, reported is durable |
| `login_liveness` | 2 CLIs, 1 callback, 2 attempts, room for 1 result | the limit on results while a callback is at work; attempts and CLIs end |
| `lifecycle` | up to 2 handlers in each component | orderly start and stop, success only when no request was cut off, and that the program ends |
| `api_gateway` | 2 requests and 1 slot, one of them may stream | slots, responses, keepalives, every request ends |
| `conversation` | up to 3 events in a stream, 2 calls in an answer, 5 messages; 2 tools, 2 ids, 2 indices, thinking in tags, a result with a name of its own | deltas add up, answers are as asked and as meant, histories are judged rightly, results named, round trips |
| `lost_fragment` | the same with text in fragments | a counterexample, below |
| `model_cache` | 2 requests, 2 credentials, 2 functions, room for 1 list | routes of the own account, the cache's limit, names reach their models, budgets fit |
| `late_route` | 1 request, room for 2 lists | a counterexample, below |

Bounds, and why they are enough. `MaxTok` bounds tokens issued: 2 is a login and its refresh, or two
logins. With 2, an exchange that a login overtakes can only fail, be rejected or stay without an
answer; that it succeeds, and brings a token that must not be used, takes a third token. TLC has
been through 3 tokens as well (one caller in service, all replies: 3.5 million states, no error),
which is too long for a run that is repeated; for every number of tokens the theorem
`LoginNotOverwritten` says so. Two callers are the least that can exclude each other. Three inodes
are the current file, an older durable one and a temporary one. Two attempts give a superseded one;
with `Cap = 1` also an evicted one (the code's limit is 128; what matters is that it is reached).
`MaxHandlers = 2` lets one handler be in `Save` beside another. Two requests and one slot make one
of them wait; what a stream adds shows in one of them, and the other only has to compete
(`MayStream`). A stream of three events can begin two calls, go on with either and end; two ids and
two indices are enough for an id and an index that disagree, and two records in an event for places.
Five messages are a question, an answer with a call, its result, a second answer and one result, the
least in which an id can return; histories from elsewhere are of the same length. `Strange` has, of
the three roles, the messages that `validateToolHistory` tells apart, and a result with a name of
its own (in `OwnNames`, what an honest client gives, there is only the empty one). Room for one
model list and two credentials fill the cache and evict. Section 4 proves the safety properties for
every value of these bounds.

TLC's symmetry is used only in runs without liveness. `CHECK_DEADLOCK FALSE` stands where the system
stops for good: after the coordinator has returned, when every request has been answered, when a
history is full. The conversation run has a million states and takes about a minute; the others
less.

### Fairness

`AuthRefresh`: weak fairness of every goroutine inside `get`: the scheduler runs it, its exchange
ends because the HTTP client has a timeout of 30 s (`newHTTPClient`), disk calls return. No call,
login or restart is promised. `LoginFlow`: a running handler goes on; a started CLI makes its first
and last call (each has a timeout), and its context ends after ten minutes (`GiveUp`); no poll is
promised an answer. `Lifecycle`: goroutines go on, a `Save` and a callback's critical section end;
strong fairness where a mutex is contended (`Revoke`, `CloseStore`: Go's mutex hands over to waiters
that starve), for the end of `get` between its two saves (`RefreshReturns`: it does not save for
ever), and where the refresh loop's `select` has both a tick and the end of its context to choose
from (`RefreshEnds`: it chooses at random). No handler is promised to return or to come.
`ApiGateway`: handlers go on, because the gate, the call upstream and each write have time limits,
and a keepalive that has begun ends. `IDEStream`, `Conversation` and `ModelCache` state no fairness:
what they are for is safety, and that a request ends is `ApiGateway`'s.

`GetReturns` is stated for the refresh loop. With several callers, one could starve: it is woken,
and before it has the mutex, another whose own context keeps ending has begun the next exchange. The
program has no such callers.

### What the counterexamples say

* `mismatch_resend` (`auth.go:667-674`): not in the list of known issues, and reachable in the
  program. A 200 answer for another user is returned as `errLoginRequired`, settled like a 401, and
  `RefreshPending` is cleared on disk. After a restart the refresh token that this answer spent is
  sent again.
* `lost_fragment` (`upstream.go:319`): `mergeSnapshot` takes what equals a beginning of the text for
  an older snapshot. The comment below it says that standalone fragments come too; one that happens
  to equal a beginning of the answer (its first word or line break again) is dropped, for the
  message and for the stream.
* `late_route` (`upstream.go:149`): `execute` resolves an explicit model before the stream starts,
  so that an unknown one is a 400 (comment at `main.go:274`); `promptAttempt` resolves it again
  afterwards. If the list has expired in between and the function that lists the model fails, the
  client has a started stream with an error in it.

### What else the models show

No property forbids these: the documents say nothing about them or list them already, or, where a
comment or an example contradicts the code, the property names the case as its exception.

* Known issue 1 of `docs/KNOWN_ISSUES.md`: a call of `get` whose own context ends after the request
  was sent records no error, and the next call resends the token. The program has no second context
  (`InService`), and the proof of `NeverResent` needs exactly that. Known issue 2 (a failed write of
  the fence is masked by a nil error while the access token is valid) is in what `get` returns,
  which its only caller logs.
* When the API shuts down in the middle of a stream, the error frame is refused because the context
  has ended (`http.go:409`), and `done()`, which does not look at it, writes `[DONE]`
  (`http.go:316`): role, deltas, `[DONE]`. `examples/README.md:12` wants a `finish_reason` and
  `[DONE]`, and `examples/chat_client.py:85` refuses this response; a client that waits for `[DONE]`
  only takes it for complete. `WellFormed` has the case by name (`CutShort`), allows it when the
  request's context has ended, and never otherwise.
* The comment at `http.go:359` says that the keepalive goroutine is joined before a terminal frame
  is written; it is joined when the handler returns (`http.go:83`). `KeepaliveInside` shows that the
  flag `finished` keeps it silent from `done()` or `finish()` on; between an authentication error
  and the `finish()` that follows it, a keepalive may still come behind the last frame.
* The comment at `upstream.go:385` says that thinking in tags is held until its closing tag. It is
  not: what follows the opening tag becomes reasoning at once (`upstream.go:391`), so when a
  cumulative text ends inside the closing tag, the part of the tag is in the reasoning, and the
  next, shorter thought is taken for an older snapshot. The part stays in the finished answer too. A
  part of the opening tag stays in the content likewise. `AnswerIsMeant` is checked with texts in
  which tags are whole, and proved under that hypothesis (`WholeTags`).
* When a login's `Save` fails after its rename and the read back fails too, the callback answers
  "not saved" and the attempt can be cancelled, but the API serves its credential and a restart
  takes it into use (`CancelledNeverPublished` speaks of the steps after the cancellation, and
  `AlreadyLoggedInIsServed` names the case, for this reason). Nothing older, nothing invalidated and
  nothing partial is ever served instead.
* After a drain has timed out, handlers run on, in both components, until the process exits. A
  callback among them cannot save any more once the store is closed (`WriterHoldsLock`), and the
  exit is an error (`SuccessIsGraceful`).
* In the upstream's stream, more records for an ignored call (the upstream's own "end" tool) that
  have no address are appended to the last real call, and two batches of several calls without ids
  use the same places, which ends in the error "changed tool identity". `AnswerIsMeant` therefore
  claims nothing when the upstream changes its way of addressing.
* An upstream that uses an id in two answers makes the next requests fail, because the gateway
  refuses a history with a repeated id (`RoundTrip` has the condition `IdsUsedOnce`). The ids the
  gateway makes itself never collide.
* `resolveRoute` looks at the cache again after discovery. If another account's list has evicted the
  entry, a model that was found is "not available".

## 4. Proofs

All theorems hold for every value of the constants, under the assumptions that the modules declare
on them (`MaxTokAssumption`, `InServiceAssumption`, `RepliesAssumption`, `ContentAssumption`,
`BoundsAssumption`, `HandlersAssumption`, `ConcurrencyAssumption`, `StreamAssumption`,
`EventAssumption`, `StrangeAssumption`, `NameAssumption`, `CacheAssumption`, `CatalogAssumption`):
numbers are numbers, names are strings, the empty text is not JSON, tags are not empty, a slot, a
place in the cache and a function to ask exist, and a message that is not an assistant's has no
calls (`types.go:228-232` refuses it). Nothing is assumed of what upstream lists, sends or answers.
Four theorems need more: `ServiceAssumption` for two, `SnapshotsOnly` and `WholeTags` for two. They
are what separates them from the counterexamples and the split tags of section 3.

| module | theorem | states |
|---|---|---|
| `AuthRefreshProofs` | `TypeCorrect` | `Spec => []TypeOK` |
| | `SingleExchange` | `Spec => []OneExchange` |
| | `LoginNotOverwritten` | `Spec => []NoStaleOverwrite` |
| | `RejectionIsFinal` | `Spec => []RejectedStaysInvalid` |
| | `LoggedInIsServed` | `Spec => []AlreadyLoggedInIsServed` |
| | `NeverResent` | `ServiceAssumption => (Spec => []UncertainNeverResent)` |
| | `FenceIsDurable` | `ServiceAssumption => (Spec => []FenceCoversSpent)` |
| | `FileIsRegister` | `Spec => Reg!Spec` |
| | `RefreshSideHolds` | `Spec => RefreshAsAssumed`: the refresh loop keeps to `LoginFlow!RefreshSide` |
| `CredentialStoreProofs` | `NothingTorn` | `Spec => []NeverTorn` |
| | `OneWriter` | `Spec => []WriterOwnsPath` |
| | `ConfirmedSurvives` | `Spec => []ConfirmedIsDurable` |
| | `ReadersUndisturbed` | `Spec => []ReaderGetsWhatItOpened` |
| | `ForeignStays`, `RejectedIsMoved` | `Spec => ForeignKept`, `Spec => QuarantineMovesRejected` |
| | `KeepsContract` | `Spec => ImplementsRegister`: the refinement of `SnapshotRegister` |
| `LoginFlowProofs` | `NewestClaimable`, `NewestPublished` | `Spec => []OnlyNewestClaimable`, `Spec => NewestWins` |
| | `FinalStatus`, `CancelledStays` | `Spec => StatusIsFinal`, `Spec => CancelledNeverPublished` |
| | `SavedSurvives` | `Spec => []SuccessIsDurable` |
| | `ResultsLimited` | `Spec => []ResultsBounded` |
| `LifecycleProofs` | `WritersAreLocked`, `CleanExit`, `SuccessWasGraceful` | `Spec => []` of `WriterHoldsLock`, `NothingLeft`, `SuccessIsGraceful` |
| `ApiGatewayProofs` | `SlotsRight`, `ResponsesWellFormed`, `KeepalivesInside` | `Spec => []` of `SlotsMatch`, `WellFormed`, `KeepaliveInside` |
| `IDEStreamProofs` | `TypeCorrect`, `DeltasComplete`, `AnswersAllowed` | `Spec => []` of `TypeOK`, `DeltasAddUp`, `AnswerAsAsked` |
| | `AnswerMeant` | `SnapshotsOnly /\ WholeTags => (Spec => []AnswerIsMeant)` |
| `ConversationProofs` | `ConversationDeltasComplete`, `ConversationAnswersAllowed` | `ChatSpec => []` of `DeltasAddUp`, `AnswerAsAsked` |
| | `ConversationAnswersMeant` | `SnapshotsOnly /\ WholeTags => (ChatSpec => []AnswerIsMeant)` |
| | `HistoriesJudged` | for every typed history: `Accepted(ms) <=> WellAnswered(ms)` |
| | `ConversationJudged`, `ConversationNamed` | `ChatSpec => []HistoryJudged`, `ChatSpec => []ResultsNamed` |
| | `ConversationGoesOn` | `ChatSpec => []RoundTrip` |
| `ModelCacheProofs` | `TypeCorrect` | `Spec => []TypeOK` |
| | `RoutesOwn`, `CacheStaysBounded` | `Spec => []OwnRoutes`, `Spec => []CacheBounded` |
| | `NamesAlwaysReach`, `BudgetAlwaysFits` | `Spec => []NamesReach`, `Spec => []BudgetFits` |

Few of the properties are inductive. Each module of proofs states the invariant `IInv` that is, and
proves it of the initial states and of every action.

**AuthRefresh.** `IInv` adds what links a caller's local variables to the shared ones: a caller in
an exchange is the only one, `refreshing` is set, and others wait only while it is; its `g` is at
most `gen`, and if they are equal the credential in memory is the one it sent, fenced; memory, disk
and `stable` hold credentials of logins no older than `owner`; tokens are numbered below `ntok`, so
an answer brings a token nobody holds yet; a token in `rejected` is expired on every disk that may
come back. `ServedInv` says when memory and disk agree: whenever no error is recorded and no
rejection is being written, unless the disk has a login whose `Save` and read back both failed
(`Unknown`), and then it has that login untouched. `ServiceInv` adds what the fence is for:
while a caller is between `Fence` and its settling and was not overtaken, *every* member of `stable`
that carries its refresh token is fenced, and once the token may be spent, neither memory without an
error nor an idle caller can send it. `ServiceAssumption` is `InService` and no identity mismatch
among the replies. It is as weak as it can be: `SettleRejected` is the step where the second half is
needed (the token is taken out of the fence only after a refusal, which spends nothing;
`mismatch_resend` is what happens otherwise), `SettleCancelled` the step where the first is (no
caller follows). `RefreshSideHolds` instantiates `LoginFlow` with what it can see of `AuthRefresh`
(of a credential, its login; whether startLogin would begin an attempt) and shows that every step
but a publication, a crash and a start is `RefreshSide` or changes nothing seen. `NamedInv` and
`OwnerInv` say that there is a login whenever there is something to refresh.

**CredentialStore.** A process that is not down holds the lock (`LockInv`), so at most one has an
operation under way, and the steps of the others cannot touch its inode. `NamesInv`: every inode the
path may name after a power loss is whole and synced, and none of them, and none that a reader has
open, is a temporary file. `OpInv`: what the position of a `Save` says about its temporary inode.
`ViewInv`: what the process remembers of the path is what it names, and, when it has been confirmed,
what every power loss leaves. `ReadInv`: a reader's inode keeps the content it had when it was
opened. That `MoveAside` moves the file `Compare` has looked at (`RejectedIsMoved`) is `ViewInv` at
"move": between the two only the holder of the lock can change what the path names. For the
refinement, `value` is the content of the named inode and `stable` those of `durable`; a rename maps
to the step "unsynced", the sync to "done", all else stutters or is a power loss.

**LoginFlow.** `NewestInv`: `latest` is the newest attempt of this process and no other is pending;
`LocalInv`: what a callback or CLI remembers of its attempt was true; `CancelInv`: what was answered
as cancelled has a status that is not "pending"; `DurableInv`: what may survive a power loss is not
older than what was reported as saved. `CountInv` (there is room before an attempt is added) needs
that the oldest result can be chosen: `LeastExists`, from the well-foundedness of the natural
numbers.

**Lifecycle.** `AuthInv` orders Auth's own parts (the lock is held until the refresh loop and a
saving callback have ended), `OrderInv` relates the two components with the reports in the channel
and what the coordinator has received, `ExitInv` its result with their failures. `DrainInv` is what
`SuccessIsGraceful` needs: a component that has come past its drain with no error to report has no
handler and no connection left.

**ApiGateway.** `Place` says which variables of a request may have which values at which `pc`,
`Beating`, `Inside` and `Well` speak of its sink. The actions of one request leave the others'
alone, so each is proved for that request, and the lemmas about `Put`, `Sent`, `Heartbeat`, `JSON`
and `Done` carry the argument; `SlotsInv` counts.

**IDEStream.** `ToldInv`: the client's view and the accumulator agree at every moment, a call's
arguments as far as they were sent (`sentArgs`, a prefix of `args`). The heart is `MergeAdds`: what
`mergeSnapshot` reports as added completes the old text to the merged one. `CallsInv` and `IdsInv`:
calls with a name have been sent, obey the request, and no two have one id; `AnswerInv`, `EndInv`:
the closed calls. `MeantInv` compares the accumulator with what the upstream means: the texts are
equal, and slot by slot the calls have the same name and arguments; `KeysFound` says, for each way
of addressing, how the accumulator's indices find the slot of a call that is meant. The hypothesis
`SnapshotsOnly` (no event's text is a fragment at all) is what `MergedIsLonger` needs: of two
snapshots, one continues the other, and merging takes the longer. The hypothesis `WholeTags` (no
event's text is cut inside a tag) is what carries this over from the upstream's text to its parts:
when a text goes on, its first closing tag stays where it is or lies behind the old text
(`CutStays`), so that thought and content each go on too (`PartsGrow`). Without the one the property
is false by `lost_fragment`, without the other by a tag that is cut (section 3).

**Conversation.** `ConversationProofs` shows that `Submit` and `Receive` keep the invariants of
`IDEStream`, so its theorems hold of every answer. `HistoriesJudged` is about the loop of
`validateToolHistory` alone and compares it with a definition that has no loop. Its invariant is
`Judged`: while no error was found, `pending` and `seen` are what `Fine` says they are, the calls
without a result of the last message that asks and all ids so far; after an error the history is
`Spoiled`, it has a mistake that no message to come can mend. `ResultStep` and `OtherStep` are
the step for one message more. The induction over the length of the history is done with a least
counterexample (`LeastNumber`, from the well-foundedness of the natural numbers), because the
library's induction theorem takes an operator. `RoundInv` is the invariant of `RoundTrip`: an honest
history is accepted or waits for results, the ids in it are older than the next that `newID` makes,
and a call of the stream that has such an id is not in the history yet. That ids made here never
collide is thus proved of every number of answers, and that the upstream uses none twice stays the
hypothesis `IdsUsedOnce`, part of the property.

**ModelCache.** `Sound` says of the cache that its keys differ, that it is within the limit, and
that every entry is the list of the account whose key it has and names a model; the latter is what
`OwnRoutes` needs of the requests that share it (`CachedOwn`). `Picks` speaks of a sequence that has
some entries of another, each once: expiry, replacement and eviction all leave such a one, which is
`Sound` again (`PickedSound`), and `StoredSound` adds the new entry. `RequestInv` links a request
with its snapshot. `NamesReach` follows from `RouteIs` for every list of configurations: `PlainIs`
and `LargeIs` need that a first entry exists and that `MaxWindow` and `DevWindow` are those of an
entry of the group. `BudgetFits` is arithmetic once `TypeOK` bounds the numbers of a route.

### Only model-checked

Everything about liveness, which these provers do not reach: `GetReturns`, `CallbackSettles`,
`LoginEnds`, `SignalStops`, `FailureStops`, `RequestEnds`. Every safety property that a passing run
checks is a theorem.

## 5. Not modelled

`logout` and the paths of `get` without a store (reached by tests only); `legacyExchange` (a
credential without device key cannot be saved); what `get` returns to its caller, which only logs
it; changes of `auth.json` by others while Auth runs (the re-check in `Save` refuses a file it does
not recognise, which is then one of its failures; what `ForeignKept` is about is a foreign file that
is there when Auth starts); directory and file modes (a failed check is a failed call); the decoding
of requests and `validateRequest` apart from the tool history (predicates on the fields of one
request: "accepted" or "refused"); the rest of the body sent upstream (copied); usage; size limits
of events and answers (each only fails); formats, headers, URLs; the access checks of HTTP requests
(predicates on header strings); command line and logging; `tools/checker`, `examples`, `packaging`.

## 6. Plan

Done: the core with proofs (`SnapshotRegister`, `AuthRefresh`), then `CredentialStore`, `LoginFlow`,
`Lifecycle`, `ApiGateway`, `IDEStream`, `Conversation`, `ModelCache`, and the proofs of every safety
property, with the assumption that `LoginFlow` makes of `AuthRefresh`. What could follow:

1. `validateRequest` as predicates against a declarative definition: it has no state, and a table of
   tests reaches it well.
2. `LoginFlow`'s publication as an abstraction of `AuthRefresh!PublishLogin`, as `RefreshSide` is of
   the refresh loop: the other half of the same composition.
3. `ApiGateway` composed with the credential file: the snapshot a request uses against rejections
   that come later.
