------------------------------- MODULE ModelCache -------------------------------
(* Which models there are and how a request reaches one: modelNamesAttempt     *)
(* with its cache, resolveRoute, execute up to the call upstream, and the      *)
(* token budget of buildRoutedIDEBody.                                         *)
(*                                                                             *)
(* A request reads the credential file once.  `ident` is that snapshot: the    *)
(* credential it calls upstream with, and (by its digest) its key in the       *)
(* cache.  Sections under traeClient.mu are one action each; discovery calls   *)
(* upstream between them.  What a discovery found depends on whose credential  *)
(* asked (`by`) and which functions answered (`found`), so a cache entry keeps *)
(* those, and its names and routes are operators of them.  The cache is in the *)
(* order of the entries' times, oldest first.                                  *)
EXTENDS Integers, Sequences, SequencesExt

CONSTANTS
    Requests,       \* requests that may be at work at once
    Identities,     \* access snapshots
    Models,         \* values of the model field
    Functions,      \* length of chatFunctions; a function is its place there
    Catalog,        \* upstream's lists of configurations, by identity and function
    MaxName(_),     \* a model's name with "-max"
    Limits,         \* values of max_completion_tokens; 0: none given
    Capacity        \* modelCacheCapacity

ASSUME CacheAssumption ==
    /\ Capacity \in Nat \ {0} /\ Functions \in Nat \ {0} /\ Limits \subseteq Nat
    /\ Models # {} /\ Models \subseteq STRING \ {"auto"} /\ "none" \notin Identities

\* A "__dev" or "__max" detail is its max_tokens, 0 if that is missing; Absent says that
\* there is no such detail.  positiveInt makes no number negative.
Absent == -1
Detail == Nat \cup {Absent}
Config == [name : STRING, available : BOOLEAN, dev : Detail, max : Detail,
           devWindow : Nat, maxWindow : Nat]

ASSUME CatalogAssumption ==
    /\ Catalog \in [Identities -> [1..Functions -> Seq(Config)]]
    /\ \A by \in Identities, fn \in 1..Functions : \A k \in DOMAIN Catalog[by][fn] :
        MaxName(Catalog[by][fn][k].name) \in STRING

VARIABLES
    file,           \* the snapshot in the credential file; "none" if it is not valid
    cache,          \* traeClient.cache: key, by and found of each entry
    aged,           \* the first entries, which are too old
    req             \* each request, as Blank describes

vars == <<file, cache, aged, req>>

NoRoute == [by |-> "none", base |-> "none", function |-> 0, most |-> 0, window |-> 0]

Blank == [
    pc |-> "new",
    stage |-> "early",      \* it needs the "list", a model for "auto", a route "early" or "late"
    ident |-> "none",       \* its snapshot
    model |-> "auto",       \* chatRequest.Model
    found |-> {}, next |-> 1, \* discovery: functions that answered, and the next one
    listed |-> "none",      \* whose models it answers with
    route |-> NoRoute,      \* what resolveRoute returned
    started |-> FALSE,      \* the stream has begun, with status 200
    error |-> "none"]       \* or "login" (401), "unknown" (400), "other"

Init == file \in Identities /\ cache = <<>> /\ aged = 0 /\ req = [r \in Requests |-> Blank]

-------------------------------------------------------------------------------
(* From configurations to routes *)

\* The available configurations, with the places of function and configuration.
Available(by, fn) == {k \in DOMAIN Catalog[by][fn] : Catalog[by][fn][k].available}
Entries(by, fns) ==
    UNION {{[function |-> fn, place |-> k, config |-> Catalog[by][fn][k]] :
            k \in Available(by, fn)} : fn \in fns}

\* The first one in the order of the functions, and of a function's list.
First(es) ==
    CHOOSE e \in es : \A d \in es :
        e.function < d.function \/ (e.function = d.function /\ e.place <= d.place)

Ids(es) == {e.config.name : e \in es}
Group(es, id) == {e \in es : e.config.name = id}

\* The first configuration with a "__dev" detail, or else the first.
Plain(by, es, id) ==
    LET group == Group(es, id)
        dev == {e \in group : e.config.dev # Absent}
        chosen == First(IF dev = {} THEN group ELSE dev)
    IN  [by |-> by, base |-> id, function |-> chosen.function,
         most |-> IF chosen.config.dev = Absent THEN 0 ELSE chosen.config.dev, window |-> 0]

\* A window an entry does not tell is that of the first entry that tells one.
MaxWindow(e, group) ==
    LET tell == {d \in group : d.config.maxWindow > 0}
    IN  IF e.config.maxWindow > 0 \/ tell = {} THEN e.config.maxWindow
        ELSE First(tell).config.maxWindow
DevWindow(e, group) ==
    LET tell == {d \in group : d.config.devWindow > 0}
    IN  IF e.config.devWindow > 0 \/ tell = {} THEN e.config.devWindow
        ELSE First(tell).config.devWindow

\* Configurations with a "__max" detail that bring a larger window.
Larger(group) ==
    {e \in group : e.config.max # Absent /\ MaxWindow(e, group) > DevWindow(e, group)}

\* (Mutation: the name of the larger variant may be taken.)
HasLarger(es, id) == Larger(Group(es, id)) # {}

HasMax(es, id) == MaxName(id) \notin Ids(es) /\ Larger(Group(es, id)) # {}

Large(by, es, id) ==
    LET group == Group(es, id)
        e == First(Larger(group))
    IN  [by |-> by, base |-> id, function |-> e.function, most |-> e.config.max,
         window |-> MaxWindow(e, group)]

\* Names and routes of an entry.  A larger variant would replace a model of its name.
Variants(es) == {id \in Ids(es) : HasMax(es, id)}
Names(by, fns) ==
    LET es == Entries(by, fns) IN Ids(es) \cup {MaxName(id) : id \in Variants(es)}
Route(by, fns, name) ==
    LET es == Entries(by, fns)
        of == {id \in Variants(es) : MaxName(id) = name}
    IN  IF of # {} THEN Large(by, es, CHOOSE id \in of : TRUE) ELSE Plain(by, es, name)

-------------------------------------------------------------------------------
(* The budget *)

Least(m, n) == IF m < n THEN m ELSE n

\* (Mutation: the window does not limit the answer.)
TokensOfModel(given, to) ==
    LET wanted == IF to.window > 0 /\ given = 0 THEN to.most ELSE given
    IN  IF wanted > 0 /\ to.most > 0 THEN Least(wanted, to.most) ELSE wanted

\* max_tokens; 0: not in the request.
Tokens(given, to) ==
    LET wanted == IF to.window > 0 /\ given = 0 THEN to.most ELSE given
        most == IF wanted > 0 /\ to.most > 0 THEN Least(wanted, to.most) ELSE wanted
    IN  IF most > 0 /\ to.window > 0 THEN Least(most, to.window) ELSE most

\* prompt_max_tokens, sent if the route has a window.
PromptTokens(given, to) == to.window - Tokens(given, to)

-------------------------------------------------------------------------------
(* The cache *)

Cached(key) == {k \in DOMAIN cache : cache[k].key = key}
EntryOf(key) == cache[CHOOSE k \in Cached(key) : TRUE]

Fresh(key) == {k \in Cached(key) : k > aged}

\* pruneModelCache: none of the entries left is too old.
Pruned == SubSeq(cache, aged + 1, Len(cache))

\* (Mutation: room is made only when the limit has been passed.)
RoomLate(c, key) ==
    IF \E k \in DOMAIN c : c[k].key = key THEN RemoveAt(c, CHOOSE k \in DOMAIN c : c[k].key = key)
    ELSE IF Len(c) > Capacity THEN Tail(c) ELSE c

\* Room for an entry: the one it replaces goes, or the oldest if the cache is full.
Room(c, key) ==
    IF \E k \in DOMAIN c : c[k].key = key THEN RemoveAt(c, CHOOSE k \in DOMAIN c : c[k].key = key)
    ELSE IF Len(c) >= Capacity THEN Tail(c) ELSE c

Stored(key, by, fns) == Append(Room(Pruned, key), [key |-> key, by |-> by, found |-> fns])

\* Five minutes after an entry was stored.
Ages ==
    /\ aged < Len(cache)
    /\ aged' = aged + 1
    /\ UNCHANGED <<file, cache, req>>

\* A login, a refresh or a rejection.
Rotate ==
    /\ file' \in (Identities \cup {"none"}) \ {file}
    /\ UNCHANGED <<cache, aged, req>>

-------------------------------------------------------------------------------
(* A request *)

At(r, pc) == req[r].pc = pc

\* Without what the request has gathered.
Fail(r, kind) ==
    req' = [req EXCEPT ![r] = [Blank EXCEPT !.pc = "done", !.error = kind,
                                            !.started = req[r].started]]

\* models, or execute up to readAPICredential; the next request after one that ended.
Arrive(r) ==
    /\ req[r].pc \in {"new", "done", "sent"}
    /\ \/ /\ file = "none"
          /\ req' = [req EXCEPT ![r] = [Blank EXCEPT !.pc = "done", !.error = "login"]]
       \/ /\ file # "none"
          /\ \E new \in {[stage |-> s, pc |-> "look", model |-> "auto"] : s \in {"list", "auto"}}
                    \cup {[stage |-> "early", pc |-> "check", model |-> m] : m \in Models} :
                req' = [req EXCEPT ![r] = [Blank EXCEPT !.stage = new.stage, !.pc = new.pc,
                                                        !.model = new.model, !.ident = file]]
    /\ UNCHANGED <<file, cache, aged>>

\* Entries that have the request's model.
Knowing(r) ==
    {k \in Cached(req[r].ident) : req[r].model \in Names(cache[k].by, cache[k].found)}

\* resolveRoute has found it in entry k.
Resolve(r, k) ==
    req' = [req EXCEPT ![r].route = Route(cache[k].by, cache[k].found, req[r].model),
                       ![r].pc = IF req[r].stage = "late" THEN "sent" ELSE "start"]

\* resolveRoute, first section.
Check(r) ==
    /\ At(r, "check")
    /\ IF \E k \in Knowing(r) : k > aged
       THEN \E k \in Knowing(r) : Resolve(r, k)
       ELSE req' = [req EXCEPT ![r].pc = "look"]
    /\ UNCHANGED <<file, cache, aged>>

\* modelNames returns; "auto" goes on with the first name.
Return(r, by, fns) ==
    CASE req[r].stage = "list" ->
            req' = [req EXCEPT ![r].listed = by, ![r].pc = "done"]
      [] req[r].stage = "auto" ->
            req' = [req EXCEPT ![r].model = CHOOSE m \in Names(by, fns) : TRUE,
                               ![r].stage = "early", ![r].pc = "check"]
      [] OTHER ->
            req' = [req EXCEPT ![r].found = {}, ![r].next = 1, ![r].pc = "reread"]

\* modelNamesAttempt, first section.
Look(r) ==
    /\ At(r, "look")
    /\ cache' = Pruned /\ aged' = 0
    /\ IF Fresh(req[r].ident) # {}
       THEN \E k \in Fresh(req[r].ident) : Return(r, cache[k].by, cache[k].found)
       ELSE req' = [req EXCEPT ![r].pc = "batch", ![r].found = {}, ![r].next = 1]
    /\ UNCHANGED file

\* The batch brings models of some functions, or else every function is asked; a
\* rejection ends it.
Batch(r) ==
    /\ At(r, "batch")
    /\ \/ \E fns \in SUBSET (1..Functions) :
            /\ Entries(req[r].ident, fns) # {}
            /\ req' = [req EXCEPT ![r].found = fns, ![r].pc = "store"]
       \/ req' = [req EXCEPT ![r].pc = "single"]
       \/ Fail(r, "login")
    /\ UNCHANGED <<file, cache, aged>>

\* One function: its models, an error that is passed over, or a rejection.
Single(r) ==
    /\ At(r, "single")
    /\ LET n == req[r].next IN
       \/ \E more \in {{}, {n}} :
            req' = [req EXCEPT ![r].found = @ \cup more, ![r].next = n + 1,
                               ![r].pc = IF n = Functions THEN "store" ELSE @]
       \/ Fail(r, "login")
    /\ UNCHANGED <<file, cache, aged>>

\* (Mutation: the key is that of the snapshot in the file by now.)
KeyNow(r) == IF file = "none" THEN req[r].ident ELSE file

\* The key a list is stored under.
StoreKey(r) == req[r].ident

\* modelNamesAttempt, last section.
Store(r) ==
    /\ At(r, "store")
    /\ IF Names(req[r].ident, req[r].found) = {}
       THEN Fail(r, "other") /\ UNCHANGED <<cache, aged>>
       ELSE /\ Return(r, req[r].ident, req[r].found)
            /\ cache' = Stored(StoreKey(r), req[r].ident, req[r].found) /\ aged' = 0
    /\ UNCHANGED file

\* resolveRoute, last section: the age is not looked at.
Reread(r) ==
    /\ At(r, "reread")
    /\ IF Knowing(r) # {} THEN \E k \in Knowing(r) : Resolve(r, k) ELSE Fail(r, "unknown")
    /\ UNCHANGED <<file, cache, aged>>

\* execute tells the client that the stream starts; prompt resolves the route again.
Start(r) ==
    /\ At(r, "start")
    /\ req' = [req EXCEPT ![r].started = TRUE, ![r].stage = "late", ![r].pc = "check",
                          ![r].route = NoRoute]
    /\ UNCHANGED <<file, cache, aged>>

\* The client is gone, or a time limit.
GivenUp(r) ==
    /\ req[r].pc \notin {"new", "done", "sent"}
    /\ Fail(r, "other")
    /\ UNCHANGED <<file, cache, aged>>

Next ==
    \/ \E r \in Requests :
        \/ Arrive(r) \/ Check(r) \/ Look(r) \/ Batch(r) \/ Single(r)
        \/ Store(r) \/ Reread(r) \/ Start(r) \/ GivenUp(r)
    \/ Ages \/ Rotate

Spec == Init /\ [][Next]_vars

-------------------------------------------------------------------------------
(* Properties *)

Stages == {"list", "auto", "early", "late"}
Places == {"new", "look", "batch", "single", "store", "check", "reread", "start", "sent", "done"}
RouteRecord == [by : Identities \cup {"none"}, base : STRING \cup {"none"},
                function : 0..Functions, most : Nat, window : Nat]
Request == [pc : Places, stage : Stages, ident : Identities \cup {"none"},
            model : STRING \cup {"auto"}, found : SUBSET (1..Functions), next : 1..Functions + 1,
            listed : Identities \cup {"none"}, route : RouteRecord, started : BOOLEAN,
            error : {"none", "login", "unknown", "other"}]

TypeOK ==
    /\ file \in Identities \cup {"none"}
    /\ cache \in Seq([key : Identities, by : Identities, found : SUBSET (1..Functions)])
    /\ aged \in 0..Len(cache)
    /\ req \in [Requests -> Request]

\* Whatever the file becomes meanwhile, and whoever shares the cache: a request is
\* shown, and sent by, what upstream has listed for the credential it uses.
OwnRoutes ==
    \A r \in Requests :
        /\ req[r].route.by \in {"none", req[r].ident}
        /\ req[r].listed \in {"none", req[r].ident}

\* The cache never has more entries than its limit, or two for one snapshot.
CacheBounded ==
    /\ Len(cache) <= Capacity
    /\ \A j, k \in DOMAIN cache : cache[j].key = cache[k].key => j = k

\* A model that upstream lists by a name is reached by that name, never a larger
\* variant of another; a variant is its base with a larger window, by a function
\* that lists the base.
NamesReach ==
    \A k \in DOMAIN cache : \A n \in Names(cache[k].by, cache[k].found) :
        LET es == Entries(cache[k].by, cache[k].found)
            to == Route(cache[k].by, cache[k].found, n) IN
        /\ n \in Ids(es) => to.base = n /\ to.window = 0
        /\ n \notin Ids(es) => MaxName(to.base) = n /\ to.window > 0
        /\ \E e \in es :
            /\ e.function = to.function /\ e.config.name = to.base
            /\ to.window > 0 => e.config.max = to.most /\ to.window > e.config.devWindow

\* The answer may have as many tokens as the client asks for and no more than the
\* model and the window allow, and what is left for the prompt is not negative.
BudgetFits ==
    \A r \in Requests, given \in Limits : At(r, "sent") =>
        LET to == req[r].route
            n == Tokens(given, to) IN
        /\ given > 0 => n \in 1..given
        /\ to.most > 0 /\ n > 0 => n <= to.most
        /\ to.window > 0 => PromptTokens(given, to) \in 0..to.window

\* What the comment in execute says: an unknown model is found out before the stream
\* has started.
UnknownBeforeStart ==
    \A r \in Requests : req[r].error = "unknown" => ~req[r].started
================================================================================
