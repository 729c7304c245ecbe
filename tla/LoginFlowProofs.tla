--------------------------- MODULE LoginFlowProofs ---------------------------
(* Theorems about LoginFlow, for any number of CLIs, callbacks and attempts    *)
(* and any limit on the results.                                               *)
(*                                                                             *)
(* A login is published by a callback that claimed its attempt some steps ago, *)
(* so the properties need what the status `pending` says in between: only the  *)
(* newest attempt has it (NewestInv), none that was cancelled (CancelInv).     *)
(* DurableInv says of the file and of memory together that they hold no        *)
(* credential older than a login that was reported as saved.                   *)
EXTENDS LoginFlow, FiniteSetTheorems, WellFoundedInduction, TLAPS

NewestInv ==
    /\ OnlyNewestClaimable
    /\ latest <= begun
    /\ \A i \in Ids : i > begun => results[i] = "none" /\ claims[i] = 0

\* Callbacks at work and CLIs that wait know an attempt that exists.
LocalInv ==
    /\ \A b \in Callbacks : bpc[b] # "idle" => bid[b] \in Ids /\ claims[bid[b]] = 1
    /\ \A c \in Clients : cpc[c] \in {"poll", "cleanup"} => cid[c] \in 1..begun
    /\ \A c \in Clients : outcome[c] = "success" =>
        cid[c] \in 1..begun /\ cpc[c] \in {"cleanup", "done"}

CancelInv == \A i \in acked : i <= begun /\ results[i] # "pending"

\* s is no older than the logins known to be on disk.
NotOlder(s) ==
    /\ s <= begun
    /\ \A i \in Ids : results[i] = "completed" => i <= s
    /\ \A c \in Clients : outcome[c] = "success" => cid[c] <= s

DurableInv == \A s \in stable \cup {cred} : s = 0 \/ NotOlder(s)

IInv == TypeOK /\ NewestInv /\ LocalInv /\ CancelInv /\ DurableInv

LEMMA InitInv == Init => IInv
<1> SUFFICES ASSUME Init PROVE IInv
  OBVIOUS
<1>1. TypeOK
  <2>1. 0 \in 0..MaxAttempts
    BY BoundsAssumption
  <2>2. /\ pending \subseteq Ids /\ results \in [Ids -> Statuses]
        /\ generation \in Nat /\ bornIn \in [Ids -> Nat] /\ claims \in [Ids -> 0..1]
    BY DEF Init, Statuses
  <2>3. /\ cpc \in [Clients -> {"new", "begin", "poll", "cleanup", "done"}]
        /\ cid \in [Clients -> 0..MaxAttempts]
        /\ outcome \in [Clients -> {"none", "already", "success", "error"}]
    BY <2>1 DEF Init
  <2>4. /\ bpc \in [Callbacks -> {"idle", "claimed", "working", "finishing"}]
        /\ bid \in [Callbacks -> 0..MaxAttempts]
    BY <2>1 DEF Init
  <2> QED
    BY <2>1, <2>2, <2>3, <2>4 DEF Init, TypeOK
<1>2. NewestInv
  BY BoundsAssumption DEF Init, NewestInv, OnlyNewestClaimable, Ids
<1>3. LocalInv /\ CancelInv /\ DurableInv
  BY BoundsAssumption DEF Init, LocalInv, CancelInv, DurableInv, Ids
<1> QED
  BY <1>1, <1>2, <1>3 DEF IInv

-------------------------------------------------------------------------------
(* What the operations of the attempts do to a status *)

\* A newer attempt leaves no older one pending, and changes no other status.
LEMMA ReplacedStatuses ==
    ASSUME TypeOK
    PROVE  /\ Replaced \in [Ids -> Statuses]
           /\ \A i \in Ids : Replaced[i] # "pending"
           /\ \A i \in Ids : results[i] = "none" => Replaced[i] = "none"
           /\ \A i \in Ids : results[i] \notin {"none", "pending"}
                                => Replaced[i] \in {results[i], "none"}
           /\ \A i \in Ids : Replaced[i] = "completed" => results[i] = "completed"
  BY DEF Replaced, Kept, Superseded, TypeOK, Statuses

\* What a status call or a cancel call records.
LEMMA RecordedStatuses ==
    ASSUME TypeOK, NEW i \in Ids
    PROVE  /\ StatusOf(i) \in Statuses /\ CancelStatus(results[i]) \in Statuses
           /\ results[i] # "pending" =>
                StatusOf(i) = results[i] /\ CancelStatus(results[i]) = results[i]
           /\ StatusOf(i) # "none" \/ results[i] = "none"
           /\ StatusOf(i) = "pending" => i \notin expired
           /\ StatusOf(i) = "completed" => results[i] = "completed"
           /\ CancelStatus(results[i]) # "pending"
           /\ CancelStatus(results[i]) = "completed" => results[i] = "completed"
           /\ CancelStatus(results[i]) = "none" => results[i] = "none"
  BY DEF StatusOf, CancelStatus, TypeOK, Statuses

\* Replace changes the file to c, or leaves it alone.
LEMMA FileTypes ==
    ASSUME TypeOK, NEW c \in 0..MaxAttempts, NEW result \in Reg!Results, Reg!Replace(c, result)
    PROVE  /\ disk' \in 0..MaxAttempts /\ stable' \subseteq 0..MaxAttempts /\ disk' \in stable'
           /\ stable' \subseteq stable \cup {c}
           /\ result = "ok" => stable' = {c}
  BY DEF TypeOK, Reg!Replace, Reg!Results, Reg!regVars

\* Publish writes the credential to the file, and if that is found to have worked, takes
\* it into use; otherwise the status is left to finishLogin.
LEMMA PublishEffect ==
    ASSUME TypeOK, NEW b \in Callbacks, Publish(b), bid[b] \in Ids
    PROVE  /\ bid[b] \in 0..MaxAttempts /\ results[bid[b]] = "pending"
           /\ cred' \in {cred, bid[b]} /\ generation' \in {generation, generation + 1}
           /\ usable' \in BOOLEAN /\ uncertain' \in BOOLEAN
           /\ results' \in [Ids -> Statuses]
           /\ \A i \in Ids : results'[i] = results[i] \/
                  (i = bid[b] /\ results'[i] \in {"completed", "durability_uncertain"})
           /\ results'[bid[b]] = "completed" => stable' = {bid[b]} /\ cred' = bid[b]
           /\ disk' \in 0..MaxAttempts /\ stable' \subseteq 0..MaxAttempts /\ disk' \in stable'
           /\ stable' \subseteq stable \cup {bid[b]}
<1>1. bid[b] \in 0..MaxAttempts /\ results[bid[b]] = "pending"
  BY BoundsAssumption DEF Publish, StillWanted, Ids
<1>2. PICK result \in Reg!Results, readable \in BOOLEAN :
        /\ Reg!Replace(bid[b], result)
        /\ IF result = "ok" \/ (readable /\ disk' = bid[b])
           THEN /\ cred' = bid[b]
                /\ generation' = generation + 1
                /\ usable' = TRUE
                /\ uncertain' = (result # "ok")
                /\ results' = [results EXCEPT ![bid[b]] = PublishedStatus(result)]
           ELSE UNCHANGED <<cred, generation, usable, uncertain, results>>
  BY Zenon DEF Publish
<1>3. /\ disk' \in 0..MaxAttempts /\ stable' \subseteq 0..MaxAttempts /\ disk' \in stable'
      /\ stable' \subseteq stable \cup {bid[b]}
      /\ result = "ok" => stable' = {bid[b]}
  BY <1>1, <1>2, FileTypes
<1>4. usable' \in BOOLEAN /\ uncertain' \in BOOLEAN
  <2>1. usable' \in {TRUE, usable} /\ uncertain' \in {TRUE, FALSE, uncertain}
    BY <1>2, Zenon
  <2> QED
    BY <2>1, Zenon DEF TypeOK
<1>5. CASE result = "ok" \/ (readable /\ disk' = bid[b])
  <2>1. /\ PublishedStatus(result) \in {"completed", "durability_uncertain"}
        /\ PublishedStatus(result) = "completed" => result = "ok"
    BY DEF PublishedStatus
  <2>2. /\ cred' = bid[b] /\ generation' = generation + 1
        /\ results' = [results EXCEPT ![bid[b]] = PublishedStatus(result)]
    BY <1>2, <1>5
  <2>3. results' \in [Ids -> Statuses]
    BY <2>1, <2>2 DEF TypeOK, Statuses
  <2>4. \A i \in Ids : results'[i] = IF i = bid[b] THEN PublishedStatus(result) ELSE results[i]
    BY <2>2 DEF TypeOK
  <2> QED
    BY <1>1, <1>3, <1>4, <2>1, <2>2, <2>3, <2>4
<1>6. CASE ~(result = "ok" \/ (readable /\ disk' = bid[b]))
  <2>1. UNCHANGED <<cred, generation, results>>
    BY <1>2, <1>6
  <2> QED
    BY <1>1, <1>3, <1>4, <2>1 DEF TypeOK
<1> QED
  BY <1>5, <1>6

LEMMA PowerLossTypes ==
    ASSUME TypeOK, Reg!PowerLoss \/ UNCHANGED <<disk, stable>>
    PROVE  /\ disk' \in 0..MaxAttempts /\ stable' \subseteq 0..MaxAttempts /\ disk' \in stable'
           /\ stable' \subseteq stable
  BY DEF TypeOK, Reg!PowerLoss

\* Nobody can be told more than a status call found.
LEMMA ToldSuccess ==
    ASSUME NEW status \in Statuses
    PROVE  /\ Told(status) \in {"wait", "success", "error"}
           /\ Told(status) = "success" => status = "completed"
  BY DEF Told, Statuses

-------------------------------------------------------------------------------
(* Types *)

\* One step of a callback b or of a CLI c, for the proofs by cases below.
CallbackNext(b) == (\E i \in Ids : Claim(b, i)) \/ CallbackStep(b) \/ NotWanted(b)

LEMMA CallbackTypes ==
    ASSUME TypeOK, NewestInv, LocalInv, NEW b \in Callbacks, CallbackNext(b)
    PROVE  TypeOK'
<1> USE DEF attemptVars, credVars, browserVars, cliVars, histVars
<1>1. ASSUME NEW i \in Ids, Claim(b, i) PROVE TypeOK'
  <2>1. claims[i] = 0 /\ claims' \in [Ids -> 0..1]
    BY <1>1 DEF Claim, Claimable, NewestInv, OnlyNewestClaimable, TypeOK
  <2>2. i \in 0..MaxAttempts
    BY BoundsAssumption DEF Ids
  <2> QED
    BY <1>1, <2>1, <2>2 DEF Claim, TypeOK
<1>2. CASE TooLate(b) \/ Proceed(b) \/ Refuse(b) \/ NotWanted(b)
  BY <1>2 DEF TooLate, Proceed, Refuse, NotWanted, TypeOK
<1>3. CASE Publish(b)
  <2>1. bid[b] \in Ids /\ bid[b] \in 0..MaxAttempts
    BY <1>3, BoundsAssumption DEF Publish, LocalInv, Ids
  <2>3. disk' \in 0..MaxAttempts /\ stable' \subseteq 0..MaxAttempts /\ disk' \in stable'
    BY <1>3, <2>1, PublishEffect
  <2>4. /\ cred' \in 0..MaxAttempts /\ generation' \in Nat
        /\ usable' \in BOOLEAN /\ uncertain' \in BOOLEAN
    BY <1>3, <2>1, PublishEffect DEF TypeOK
  <2>5. results' \in [Ids -> Statuses]
    BY <1>3, <2>1, PublishEffect
  <2>6. bpc' \in [Callbacks -> {"idle", "claimed", "working", "finishing"}]
    BY <1>3 DEF Publish, TypeOK
  <2>7. UNCHANGED <<pending, bornIn, latest, expired, bid, cliVars, histVars>>
    BY <1>3 DEF Publish
  <2>8. /\ pending' \subseteq Ids /\ bornIn' \in [Ids -> Nat] /\ latest' \in 0..MaxAttempts
        /\ expired' \subseteq Ids /\ bid' \in [Callbacks -> 0..MaxAttempts]
    BY <2>7 DEF TypeOK
  <2>9. /\ cpc' \in [Clients -> {"new", "begin", "poll", "cleanup", "done"}]
        /\ cid' \in [Clients -> 0..MaxAttempts]
        /\ outcome' \in [Clients -> {"none", "already", "success", "error"}]
    BY <2>7 DEF TypeOK
  <2>10. begun' \in 0..MaxAttempts /\ claims' \in [Ids -> 0..1] /\ acked' \subseteq Ids
    BY <2>7 DEF TypeOK
  <2> QED
    BY <2>3, <2>4, <2>5, <2>6, <2>8, <2>9, <2>10 DEF TypeOK
<1>4. CASE Finish(b)
  <2>1. results' \in [Ids -> Statuses]
    BY <1>4 DEF Finish, TypeOK, Statuses
  <2> QED
    BY <1>4, <2>1 DEF Finish, TypeOK
<1> QED
  BY <1>1, <1>2, <1>3, <1>4 DEF CallbackNext, CallbackStep

LEMMA ClientTypes ==
    ASSUME TypeOK, NewestInv, LocalInv, NEW c \in Clients, ClientStep(c)
    PROVE  TypeOK'
<1> USE DEF attemptVars, credVars, browserVars, cliVars, histVars
<1>1. CASE StartCheck(c) \/ StartFails(c) \/ GiveUp(c) \/ CleanupLost(c)
  BY <1>1 DEF StartCheck, StartFails, GiveUp, CleanupLost, TypeOK
<1>2. CASE StartBegin(c)
  <2>1. begun + 1 \in Ids /\ begun + 1 \in 0..MaxAttempts
    BY <1>2, BoundsAssumption DEF StartBegin, BeginLogin, TypeOK, Ids
  <2>2. results' \in [Ids -> Statuses]
    BY <1>2, <2>1, ReplacedStatuses DEF StartBegin, BeginLogin, Statuses
  <2>3. /\ cid' \in [Clients -> 0..MaxAttempts]
        /\ cpc' \in [Clients -> {"new", "begin", "poll", "cleanup", "done"}]
        /\ outcome' \in [Clients -> {"none", "already", "success", "error"}]
    BY <1>2, <2>1 DEF StartBegin, TypeOK
  <2>4. /\ pending' \subseteq Ids /\ bornIn' \in [Ids -> Nat]
        /\ latest' \in 0..MaxAttempts /\ begun' \in 0..MaxAttempts
    BY <1>2, <2>1 DEF StartBegin, BeginLogin, TypeOK
  <2> QED
    BY <1>2, <2>2, <2>3, <2>4 DEF StartBegin, TypeOK
<1>3. CASE StartBroken(c)
  BY <1>3, ReplacedStatuses DEF StartBroken, TypeOK
<1>4. ASSUME Poll(c) \/ Cleanup(c) PROVE TypeOK'
  <2>1. cid[c] \in Ids
    BY <1>4, BoundsAssumption DEF Poll, Cleanup, LocalInv, TypeOK, Ids
  <2>2. results' \in [Ids -> Statuses]
    BY <1>4, <2>1, RecordedStatuses DEF Poll, Cleanup, TypeOK
  <2>3. 0 \in 0..MaxAttempts
    BY BoundsAssumption
  <2>4. pending' \subseteq Ids /\ latest' \in 0..MaxAttempts
    BY <1>4, <2>3 DEF Poll, Cleanup, Forget, TypeOK
  <2>5. acked' \subseteq Ids
    BY <1>4, <2>1 DEF Poll, Cleanup, TypeOK
  <2>6. /\ cpc' \in [Clients -> {"new", "begin", "poll", "cleanup", "done"}]
        /\ outcome' \in [Clients -> {"none", "already", "success", "error"}]
    BY <1>4, <2>1, RecordedStatuses, ToldSuccess DEF Poll, Cleanup, TypeOK
  <2>7. UNCHANGED <<generation, bornIn, credVars, expired, browserVars, cid, begun, claims>>
    BY <1>4 DEF Poll, Cleanup
  <2> QED
    BY <2>2, <2>4, <2>5, <2>6, <2>7 DEF TypeOK
<1> QED
  BY <1>1, <1>2, <1>3, <1>4 DEF ClientStep

LEMMA OtherTypes ==
    ASSUME TypeOK, RefreshSide \/ Expire \/ Restart
    PROVE  TypeOK'
<1> USE DEF attemptVars, credVars, browserVars, cliVars, histVars
<1>0. 0 \in 0..MaxAttempts
  BY BoundsAssumption
<1>1. CASE RefreshSide
  <2>1. disk' \in 0..MaxAttempts /\ stable' \subseteq 0..MaxAttempts /\ disk' \in stable'
    BY <1>0, <1>1, FileTypes DEF RefreshSide, TypeOK
  <2> QED
    BY <1>1, <2>1 DEF RefreshSide, TypeOK
<1>2. CASE Expire
  <2>1. expired' \subseteq Ids
    BY <1>2, BoundsAssumption DEF Expire, TypeOK, Ids
  <2> QED
    BY <1>2, <2>1 DEF Expire, TypeOK
<1>3. CASE Restart
  BY <1>0, <1>3, PowerLossTypes DEF Restart, TypeOK, Statuses
<1> QED
  BY <1>1, <1>2, <1>3

-------------------------------------------------------------------------------
(* The newest attempt *)

LEMMA CallbackNewest ==
    ASSUME TypeOK, NewestInv, LocalInv, NEW b \in Callbacks, CallbackNext(b)
    PROVE  NewestInv'
<1> USE DEF attemptVars, credVars, histVars
<1>1. ASSUME NEW i \in Ids, Claim(b, i) PROVE NewestInv'
  <2>1. i \in pending /\ i = begun /\ claims[i] = 0
    BY <1>1 DEF Claim, Claimable, NewestInv, OnlyNewestClaimable
  <2>2. \A j \in Ids : claims'[j] = IF j = i THEN 1 ELSE claims[j]
    BY <1>1, <2>1 DEF Claim, TypeOK
  <2>3. \A j \in Ids : j \in Nat
    BY DEF Ids
  <2> QED
    BY <1>1, <2>1, <2>2, <2>3 DEF Claim, NewestInv, OnlyNewestClaimable, TypeOK
<1>2. CASE TooLate(b) \/ Proceed(b) \/ Refuse(b) \/ NotWanted(b)
  BY <1>2 DEF TooLate, Proceed, Refuse, NotWanted, NewestInv, OnlyNewestClaimable
<1>3. ASSUME Publish(b) \/ Finish(b) PROVE NewestInv'
  <2>1. bid[b] \in Ids /\ bid[b] \notin pending
    BY <1>3 DEF Publish, Finish, LocalInv, NewestInv, OnlyNewestClaimable
  <2>2. \A j \in Ids : results'[j] # results[j] =>
            j = bid[b] /\ results[j] = "pending" /\ results'[j] # "pending"
    <3>1. CASE Publish(b)
      BY <2>1, <3>1, PublishEffect DEF TypeOK
    <3>2. CASE Finish(b)
      BY <2>1, <3>2 DEF Finish, TypeOK
    <3> QED
      BY <1>3, <3>1, <3>2
  <2>3. UNCHANGED <<pending, latest, histVars>>
    BY <1>3 DEF Publish, Finish
  <2>4. \A j \in Ids : j > begun => results'[j] = "none"
    BY <2>2 DEF NewestInv
  <2>5. \A i \in pending' : i = begun' /\ i = latest' /\ results'[i] = "pending"
    <3>1. \A i \in pending : i \in Ids /\ i # bid[b]
      BY <2>1 DEF TypeOK
    <3> QED
      BY <2>2, <2>3, <3>1 DEF NewestInv, OnlyNewestClaimable
  <2>6. \A i \in Ids : results'[i] = "pending" => i = begun'
    BY <2>2, <2>3 DEF NewestInv, OnlyNewestClaimable
  <2>7. latest' <= begun' /\ \A i \in Ids : i > begun' => results'[i] = "none" /\ claims'[i] = 0
    BY <2>3, <2>4 DEF NewestInv
  <2>8. \A i \in Ids : claims'[i] <= 1 /\ (i \in pending' => claims'[i] = 0)
    BY <2>3 DEF NewestInv, OnlyNewestClaimable
  <2> QED
    BY <2>5, <2>6, <2>7, <2>8 DEF NewestInv, OnlyNewestClaimable
<1> QED
  BY <1>1, <1>2, <1>3 DEF CallbackNext, CallbackStep

LEMMA ClientNewest ==
    ASSUME TypeOK, NewestInv, LocalInv, NEW c \in Clients, ClientStep(c)
    PROVE  NewestInv'
<1> USE DEF attemptVars, credVars, histVars
<1>1. CASE StartCheck(c) \/ StartFails(c) \/ GiveUp(c) \/ CleanupLost(c)
  BY <1>1 DEF StartCheck, StartFails, GiveUp, CleanupLost, NewestInv, OnlyNewestClaimable
<1>2. CASE StartBegin(c)
  <2>1. begun + 1 \in Ids /\ begun' = begun + 1 /\ pending' = {begun'} /\ latest' = begun'
    BY <1>2 DEF StartBegin, BeginLogin
  <2>2. results' = [Replaced EXCEPT ![begun + 1] = "pending"] /\ claims' = claims
    BY <1>2 DEF StartBegin, BeginLogin
  <2>3. \A i \in Ids : results'[i] = IF i = begun + 1 THEN "pending" ELSE Replaced[i]
    BY <2>1, <2>2, ReplacedStatuses
  <2>4. begun \in Nat /\ claims[begun + 1] = 0 /\ \A i \in Ids : i \in Nat
    BY <2>1, BoundsAssumption DEF TypeOK, NewestInv, Ids
  <2>5. \A i \in Ids : i > begun' => results'[i] = "none" /\ claims'[i] = 0
    BY <2>1, <2>2, <2>3, <2>4, ReplacedStatuses DEF NewestInv
  <2>6. \A i \in Ids : results'[i] = "pending" => i = begun'
    BY <2>1, <2>3, ReplacedStatuses
  <2>7. \A i \in Ids : claims'[i] <= 1
    BY <2>2 DEF NewestInv, OnlyNewestClaimable
  <2> QED
    BY <2>1, <2>2, <2>3, <2>4, <2>5, <2>6, <2>7 DEF NewestInv, OnlyNewestClaimable
<1>3. CASE StartBroken(c)
  BY <1>3, ReplacedStatuses DEF StartBroken, NewestInv, OnlyNewestClaimable
<1>4. ASSUME Poll(c) \/ Cleanup(c) PROVE NewestInv'
  <2>1. PICK status \in Statuses :
            /\ results' = [results EXCEPT ![cid[c]] = status]
            /\ IF status # results[cid[c]] THEN Forget(cid[c]) ELSE UNCHANGED <<pending, latest>>
            /\ results[cid[c]] # "pending" => status = results[cid[c]]
    <3>1. cid[c] \in Ids
      BY <1>4, BoundsAssumption DEF Poll, Cleanup, LocalInv, TypeOK, Ids
    <3>2. CASE Poll(c)
      BY <3>1, <3>2, RecordedStatuses DEF Poll
    <3>3. CASE Cleanup(c)
      BY <3>1, <3>3, RecordedStatuses DEF Cleanup
    <3> QED
      BY <1>4, <3>2, <3>3
  <2>2. /\ pending' \subseteq pending /\ latest' \in {latest, 0}
        /\ \A i \in pending' : latest' = latest /\ results'[i] = results[i]
    BY <2>1 DEF Forget, NewestInv, OnlyNewestClaimable, TypeOK
  <2>3. \A i \in Ids : results'[i] # results[i] => results[i] = "pending"
    BY <2>1 DEF TypeOK
  <2>4. begun' = begun /\ claims' = claims
    BY <1>4 DEF Poll, Cleanup
  <2>5. latest' <= begun' /\ begun \in Nat
    BY <2>2, <2>4 DEF NewestInv, TypeOK
  <2>6. \A i \in Ids : i > begun' => results'[i] = "none" /\ claims'[i] = 0
    BY <2>3, <2>4 DEF NewestInv
  <2>7. \A i \in Ids : results'[i] = "pending" => i = begun'
    BY <2>3, <2>4 DEF NewestInv, OnlyNewestClaimable
  <2>8. \A i \in pending' : i = begun' /\ i = latest' /\ results'[i] = "pending"
    BY <2>2, <2>4 DEF NewestInv, OnlyNewestClaimable
  <2>9. \A i \in Ids : claims'[i] <= 1 /\ (i \in pending' => claims'[i] = 0)
    BY <2>2, <2>4 DEF NewestInv, OnlyNewestClaimable
  <2> QED
    BY <2>5, <2>6, <2>7, <2>8, <2>9 DEF NewestInv, OnlyNewestClaimable
<1> QED
  BY <1>1, <1>2, <1>3, <1>4 DEF ClientStep

LEMMA OtherNewest ==
    ASSUME TypeOK, NewestInv, RefreshSide \/ Expire \/ Restart
    PROVE  NewestInv'
<1> USE DEF attemptVars, histVars
<1>1. CASE RefreshSide \/ Expire
  BY <1>1 DEF RefreshSide, Expire, NewestInv, OnlyNewestClaimable
<1>2. CASE Restart
  BY <1>2 DEF Restart, NewestInv, OnlyNewestClaimable, TypeOK
<1> QED
  BY <1>1, <1>2

-------------------------------------------------------------------------------
(* Callbacks, CLIs and cancellations *)

LEMMA CallbackLocal ==
    ASSUME TypeOK, NewestInv, LocalInv, CancelInv, NEW b \in Callbacks, CallbackNext(b)
    PROVE  LocalInv' /\ CancelInv'
<1> USE DEF attemptVars, credVars, cliVars, histVars
<1>1. ASSUME NEW i \in Ids, Claim(b, i) PROVE LocalInv' /\ CancelInv'
  <2>1. claims[i] = 0
    BY <1>1 DEF Claim, Claimable, NewestInv, OnlyNewestClaimable
  <2>2. \A d \in Callbacks : bpc'[d] # "idle" => bid'[d] \in Ids /\ claims'[bid'[d]] = 1
    <3> SUFFICES ASSUME NEW d \in Callbacks, bpc'[d] # "idle"
                 PROVE  bid'[d] \in Ids /\ claims'[bid'[d]] = 1
      OBVIOUS
    <3>1. CASE d = b
      BY <1>1, <2>1, <3>1 DEF Claim, TypeOK
    <3>2. CASE d # b
      BY <1>1, <2>1, <3>2 DEF Claim, TypeOK, LocalInv
    <3> QED
      BY <3>1, <3>2
  <2> QED
    BY <1>1, <2>2 DEF Claim, LocalInv, CancelInv
<1>2. ASSUME TooLate(b) \/ Proceed(b) \/ Refuse(b) \/ NotWanted(b)
      PROVE  LocalInv' /\ CancelInv'
  BY <1>2 DEF TooLate, Proceed, Refuse, NotWanted, LocalInv, CancelInv, TypeOK
<1>3. ASSUME Publish(b) \/ Finish(b) PROVE LocalInv' /\ CancelInv'
  <2>1. bid[b] \in Ids
    BY <1>3 DEF Publish, Finish, LocalInv
  <2>2. \A j \in Ids : results'[j] # "pending" \/ results[j] = "pending"
    BY <1>3, <2>1, PublishEffect DEF Finish, TypeOK
  <2>3. UNCHANGED <<bid, cliVars, histVars>> /\ \A d \in Callbacks \ {b} : bpc'[d] = bpc[d]
    BY <1>3 DEF Publish, Finish, TypeOK
  <2>4. bpc[b] # "idle"
    BY <1>3 DEF Publish, Finish
  <2> QED
    BY <2>1, <2>2, <2>3, <2>4 DEF LocalInv, CancelInv, TypeOK
<1> QED
  BY <1>1, <1>2, <1>3 DEF CallbackNext, CallbackStep

LEMMA ClientLocal ==
    ASSUME TypeOK, NewestInv, LocalInv, CancelInv, NEW c \in Clients, ClientStep(c)
    PROVE  LocalInv' /\ CancelInv'
<1> USE DEF attemptVars, credVars, browserVars, cliVars, histVars
<1>1. ASSUME StartCheck(c) \/ StartFails(c) \/ GiveUp(c) \/ CleanupLost(c)
      PROVE  LocalInv' /\ CancelInv'
  BY <1>1 DEF StartCheck, StartFails, GiveUp, CleanupLost, LocalInv, CancelInv, TypeOK
<1>2. ASSUME StartBegin(c) PROVE LocalInv' /\ CancelInv'
  <2>1. begun \in Nat /\ begun' = begun + 1 /\ begun + 1 \in Ids
    BY <1>2, BoundsAssumption DEF StartBegin, BeginLogin, TypeOK
  <2>2. \A d \in Clients \ {c} : cpc'[d] = cpc[d] /\ cid'[d] = cid[d] /\ outcome'[d] = outcome[d]
    BY <1>2 DEF StartBegin, TypeOK
  <2>3. \/ cid'[c] = begun' /\ cpc'[c] = "poll" /\ outcome'[c] = outcome[c]
        \/ cpc'[c] = "done" /\ outcome'[c] = "error"
    BY <1>2, <2>1 DEF StartBegin, TypeOK
  <2>4. outcome[c] # "success"
    BY <1>2 DEF StartBegin, LocalInv
  <2>5. \A d \in Clients : cid[d] \in 1..begun => cid[d] \in 1..begun'
    BY <2>1 DEF TypeOK
  <2>6. \A i \in acked : i <= begun' /\ results'[i] # "pending"
    <3>1. \A i \in acked : i \in Ids /\ i <= begun /\ i \in Nat
      BY DEF CancelInv, TypeOK, Ids
    <3>2. \A i \in Ids : results'[i] = IF i = begun + 1 THEN "pending" ELSE Replaced[i]
      BY <1>2, ReplacedStatuses DEF StartBegin, BeginLogin
    <3> QED
      BY <2>1, <3>1, <3>2, ReplacedStatuses
  <2>7. UNCHANGED <<browserVars, claims, acked>>
    BY <1>2 DEF StartBegin
  <2>8. LocalInv'
    BY <2>1, <2>2, <2>3, <2>4, <2>5, <2>7 DEF LocalInv
  <2> QED
    BY <2>6, <2>7, <2>8 DEF CancelInv
<1>3. ASSUME StartBroken(c) PROVE LocalInv' /\ CancelInv'
  BY <1>3, ReplacedStatuses DEF StartBroken, LocalInv, CancelInv, TypeOK
<1>4. ASSUME Poll(c) PROVE LocalInv' /\ CancelInv'
  <2>1. cid[c] \in Ids /\ cid[c] \in 1..begun
    BY <1>4, BoundsAssumption DEF Poll, LocalInv, TypeOK, Ids
  <2>2. \A i \in Ids : results'[i] # "pending" \/ results[i] = "pending"
    BY <1>4, <2>1, RecordedStatuses DEF Poll, TypeOK
  <2>3. \A d \in Clients \ {c} : cpc'[d] = cpc[d] /\ outcome'[d] = outcome[d]
    BY <1>4 DEF Poll, TypeOK
  <2>4. cpc'[c] \in {"poll", "cleanup"} /\ (outcome'[c] = "success" => cpc'[c] = "cleanup")
    <3>1. outcome[c] # "success"
      BY <1>4 DEF Poll, LocalInv
    <3> QED
      BY <1>4, <3>1 DEF Poll, TypeOK
  <2>5. UNCHANGED <<browserVars, cid, histVars>>
    BY <1>4 DEF Poll
  <2> QED
    BY <2>1, <2>2, <2>3, <2>4, <2>5 DEF LocalInv, CancelInv, TypeOK
<1>5. ASSUME Cleanup(c) PROVE LocalInv' /\ CancelInv'
  <2>1. cid[c] \in Ids /\ cid[c] \in 1..begun
    BY <1>5, BoundsAssumption DEF Cleanup, LocalInv, TypeOK, Ids
  <2>2. /\ \A i \in Ids : results'[i] # "pending" \/ results[i] = "pending"
        /\ results'[cid[c]] # "pending"
    BY <1>5, <2>1, RecordedStatuses DEF Cleanup, TypeOK
  <2>3. acked' \subseteq acked \cup {cid[c]}
    BY <1>5 DEF Cleanup
  <2>4. LocalInv'
    BY <1>5 DEF Cleanup, LocalInv, TypeOK
  <2>5. begun' = begun /\ begun \in Nat
    BY <1>5 DEF Cleanup, TypeOK
  <2> QED
    BY <2>1, <2>2, <2>3, <2>4, <2>5 DEF CancelInv, TypeOK
<1> QED
  BY <1>1, <1>2, <1>3, <1>4, <1>5 DEF ClientStep

LEMMA OtherLocal ==
    ASSUME TypeOK, LocalInv, CancelInv, RefreshSide \/ Expire \/ Restart
    PROVE  LocalInv' /\ CancelInv'
<1> USE DEF attemptVars, browserVars, cliVars, histVars
<1>1. ASSUME RefreshSide \/ Expire PROVE LocalInv' /\ CancelInv'
  BY <1>1 DEF RefreshSide, Expire, LocalInv, CancelInv
<1>2. ASSUME Restart PROVE LocalInv' /\ CancelInv'
  BY <1>2 DEF Restart, LocalInv, CancelInv, TypeOK
<1> QED
  BY <1>1, <1>2

-------------------------------------------------------------------------------
(* The file and memory *)

\* What is read back, kept or moved aside is no older than what was there.
LEMMA DurableFrom ==
    ASSUME TypeOK, DurableInv, stable' \cup {cred'} \subseteq stable \cup {cred, 0},
           begun' \in {begun, begun + 1},
           \A i \in Ids : results'[i] = "completed" => results[i] = "completed",
           \A c \in Clients : outcome'[c] = "success" =>
                /\ cid'[c] = cid[c]
                /\ \/ outcome[c] = "success"
                   \/ cid[c] \in Ids /\ results[cid[c]] = "completed"
    PROVE  DurableInv'
<1> SUFFICES ASSUME NEW s \in stable \cup {cred}, s # 0 PROVE NotOlder(s)'
  BY DEF DurableInv
<1>1. NotOlder(s) /\ s \in Nat /\ begun \in Nat
  BY DEF DurableInv, TypeOK
<1> QED
  BY <1>1 DEF NotOlder

LEMMA CallbackDurable ==
    ASSUME IInv, NEW b \in Callbacks, CallbackNext(b)
    PROVE  DurableInv'
<1> USE DEF IInv, attemptVars, credVars, cliVars, histVars
<1>1. ASSUME \/ \E i \in Ids : Claim(b, i)
             \/ TooLate(b) \/ Proceed(b) \/ Refuse(b) \/ NotWanted(b)
      PROVE  DurableInv'
  BY <1>1, DurableFrom DEF Claim, TooLate, Proceed, Refuse, NotWanted
<1>2. ASSUME Publish(b) PROVE DurableInv'
  <2>1. bid[b] \in Ids /\ bid[b] \in Nat
    BY <1>2 DEF Publish, LocalInv, Ids
  <2>2. bid[b] = begun
    BY <1>2, <2>1, PublishEffect DEF NewestInv, OnlyNewestClaimable
  <2>3. UNCHANGED <<cliVars, histVars>>
    BY <1>2 DEF Publish
  <2>4. \A i \in Ids : results'[i] = "completed" => i <= begun
    <3>1. \A i \in Ids : i > begun => results'[i] = "none"
      BY <1>2, CallbackNewest, <2>3 DEF CallbackNext, CallbackStep, NewestInv
    <3> QED
      BY <3>1 DEF TypeOK, Ids
  <2>5. \A c \in Clients : outcome[c] = "success" => cid[c] <= begun
    BY DEF LocalInv, TypeOK
  <2>6. \A s : s = bid[b] => NotOlder(s)'
    BY <2>2, <2>3, <2>4, <2>5 DEF NotOlder, TypeOK
  <2>7. CASE results'[bid[b]] = "completed"
    BY <1>2, <2>1, <2>2, <2>6, <2>7, PublishEffect DEF DurableInv
  <2>8. CASE results'[bid[b]] # "completed"
    <3>1. \A i \in Ids : results'[i] = "completed" => results[i] = "completed"
      BY <1>2, <2>1, <2>8, PublishEffect
    <3>2. \A s \in stable \cup {cred} : s = 0 \/ NotOlder(s)'
      BY <2>3, <3>1 DEF DurableInv, NotOlder
    <3> QED
      BY <1>2, <2>1, <2>2, <2>6, <3>2, PublishEffect DEF DurableInv
  <2> QED
    BY <2>7, <2>8
<1>3. ASSUME Finish(b) PROVE DurableInv'
  <2>1. \A i \in Ids : results'[i] = "completed" => results[i] = "completed"
    BY <1>3 DEF Finish, TypeOK
  <2> QED
    BY <1>3, <2>1, DurableFrom DEF Finish
<1> QED
  BY <1>1, <1>2, <1>3 DEF CallbackNext, CallbackStep

LEMMA ClientDurable ==
    ASSUME IInv, NEW c \in Clients, ClientStep(c)
    PROVE  DurableInv'
<1> USE DEF IInv, attemptVars, credVars, histVars
<1>1. ASSUME StartCheck(c) \/ StartFails(c) \/ GiveUp(c) \/ CleanupLost(c)
      PROVE  DurableInv'
  BY <1>1, DurableFrom DEF StartCheck, StartFails, GiveUp, CleanupLost, TypeOK
<1>2. ASSUME StartBegin(c) PROVE DurableInv'
  <2>1. \A i \in Ids : results'[i] = "completed" => results[i] = "completed"
    BY <1>2, ReplacedStatuses DEF StartBegin, BeginLogin
  <2>2. \A d \in Clients : outcome'[d] = "success" => cid'[d] = cid[d] /\ outcome[d] = "success"
    BY <1>2 DEF StartBegin, LocalInv, TypeOK
  <2> QED
    BY <1>2, <2>1, <2>2, DurableFrom DEF StartBegin, BeginLogin
<1>3. ASSUME StartBroken(c) PROVE DurableInv'
  <2>1. \A d \in Clients : outcome'[d] = "success" => outcome[d] = "success"
    BY <1>3 DEF StartBroken, TypeOK
  <2> QED
    BY <1>3, <2>1, ReplacedStatuses, DurableFrom DEF StartBroken
<1>4. ASSUME Poll(c) PROVE DurableInv'
  <2>1. cid[c] \in Ids
    BY <1>4, BoundsAssumption DEF Poll, LocalInv, TypeOK, Ids
  <2>2. \A i \in Ids : results'[i] = "completed" => results[i] = "completed"
    BY <1>4, <2>1, RecordedStatuses DEF Poll, TypeOK
  <2>3. \A d \in Clients : outcome'[d] = "success" =>
            outcome[d] = "success" \/ (d = c /\ results[cid[c]] = "completed")
    BY <1>4, <2>1, RecordedStatuses, ToldSuccess DEF Poll, TypeOK
  <2> QED
    BY <1>4, <2>1, <2>2, <2>3, DurableFrom DEF Poll
<1>5. ASSUME Cleanup(c) PROVE DurableInv'
  <2>1. cid[c] \in Ids
    BY <1>5, BoundsAssumption DEF Cleanup, LocalInv, TypeOK, Ids
  <2>2. \A i \in Ids : results'[i] = "completed" => results[i] = "completed"
    BY <1>5, <2>1, RecordedStatuses DEF Cleanup, TypeOK
  <2> QED
    BY <1>5, <2>2, DurableFrom DEF Cleanup
<1> QED
  BY <1>1, <1>2, <1>3, <1>4, <1>5 DEF ClientStep

LEMMA OtherDurable ==
    ASSUME IInv, RefreshSide \/ Expire \/ Restart
    PROVE  DurableInv'
<1> USE DEF IInv, attemptVars, credVars, cliVars, histVars
<1>1. ASSUME RefreshSide PROVE DurableInv'
  <2>1. stable' \subseteq stable \cup {cred, 0}
    <3>1. 0 \in 0..MaxAttempts
      BY BoundsAssumption
    <3> QED
      BY <1>1, <3>1, FileTypes DEF RefreshSide, TypeOK
  <2> QED
    BY <1>1, <2>1, DurableFrom DEF RefreshSide
<1>2. ASSUME Expire PROVE DurableInv'
  BY <1>2, DurableFrom DEF Expire
<1>3. ASSUME Restart PROVE DurableInv'
  <2>1. stable' \subseteq stable /\ cred' \in stable'
    BY <1>3, PowerLossTypes DEF Restart
  <2>2. \A i \in Ids : results'[i] = "none"
    BY <1>3 DEF Restart
  <2> QED
    BY <1>3, <2>1, <2>2, DurableFrom DEF Restart
<1> QED
  BY <1>1, <1>2, <1>3

LEMMA Preserved == IInv /\ [Next]_vars => IInv'
<1> SUFFICES ASSUME IInv, [Next]_vars PROVE IInv'
  OBVIOUS
<1>1. ASSUME NEW b \in Callbacks, CallbackNext(b) PROVE IInv'
  BY <1>1, CallbackTypes, CallbackNewest, CallbackLocal, CallbackDurable DEF IInv
<1>2. ASSUME NEW c \in Clients, ClientStep(c) PROVE IInv'
  BY <1>2, ClientTypes, ClientNewest, ClientLocal, ClientDurable DEF IInv
<1>3. ASSUME RefreshSide \/ Expire \/ Restart PROVE IInv'
  BY <1>3, OtherTypes, OtherNewest, OtherLocal, OtherDurable DEF IInv
<1>4. ASSUME UNCHANGED vars PROVE IInv'
  BY <1>4 DEF vars, attemptVars, credVars, browserVars, cliVars, histVars, IInv, TypeOK,
              NewestInv, OnlyNewestClaimable, LocalInv, CancelInv, DurableInv, NotOlder
<1> QED
  BY <1>1, <1>2, <1>3, <1>4 DEF Next, CallbackNext

LEMMA Inductive == Spec => []IInv
BY InitInv, Preserved, PTL DEF Spec

-------------------------------------------------------------------------------
(* The theorems *)

\* No superseded, cancelled, expired or finished attempt can be claimed by a callback,
\* and none twice (pending and loginResults in authManager).
THEOREM NewestClaimable == Spec => []OnlyNewestClaimable
<1>1. IInv => OnlyNewestClaimable
  BY DEF IInv, NewestInv
<1> QED
  BY <1>1, Inductive, PTL

\* After "Login successful" nothing a power loss leaves is older than that login.
THEOREM SavedSurvives == Spec => []SuccessIsDurable
<1>1. IInv => SuccessIsDurable
  BY DEF IInv, DurableInv, NotOlder, SuccessIsDurable, TypeOK
<1> QED
  BY <1>1, Inductive, PTL

\* The last critical section of callback publishes the newest attempt only.
THEOREM NewestPublished == Spec => NewestWins
<1>1. ASSUME IInv, [Next]_vars, cred' # cred, generation' # 0
      PROVE  cred' = begun
  <2> USE DEF attemptVars, credVars, histVars
  <2>1. ASSUME NEW b \in Callbacks, CallbackNext(b) PROVE cred' = begun
    <3>1. Publish(b)
      BY <1>1, <2>1 DEF CallbackNext, CallbackStep, Claim, TooLate, Proceed, Refuse, NotWanted,
                        Finish
    <3>2. bid[b] \in Ids /\ bid[b] = begun
      BY ZenonT(30), <1>1, <3>1, PublishEffect
         DEF Publish, IInv, LocalInv, NewestInv, OnlyNewestClaimable
    <3> QED
      BY <1>1, <3>1, <3>2, PublishEffect DEF IInv
  <2>2. ASSUME NEW c \in Clients PROVE ~ClientStep(c)
    BY <1>1 DEF ClientStep, StartCheck, StartBegin, StartBroken, StartFails, Poll, GiveUp,
                Cleanup, CleanupLost
  <2>3. ~(RefreshSide \/ Expire \/ Restart)
    BY <1>1 DEF RefreshSide, Expire, Restart
  <2>4. ~UNCHANGED vars
    BY <1>1 DEF vars
  <2> QED
    BY <1>1, <2>1, <2>2, <2>3, <2>4 DEF Next, CallbackNext
<1>2. IInv /\ [Next]_vars => [cred' # cred /\ generation' # 0 => cred' = begun]_vars
  BY <1>1
<1> QED
  BY <1>2, Inductive, PTL DEF Spec, NewestWins

\* finishLogin, a late cancel, a status call or a newer attempt leave a final status alone.
THEOREM FinalStatus == Spec => StatusIsFinal
<1>1. ASSUME IInv, [Next]_vars, NEW i \in Ids, results[i] \notin {"none", "pending"}
      PROVE  results'[i] \in {results[i], "none"}
  <2> USE DEF attemptVars, credVars, histVars
  <2>1. ASSUME NEW b \in Callbacks, CallbackNext(b) PROVE results'[i] = results[i]
    <3>1. CASE Publish(b)
      BY <1>1, <3>1, PublishEffect DEF IInv, LocalInv, Publish
    <3>2. CASE Finish(b)
      BY <1>1, <3>2 DEF Finish, IInv, TypeOK
    <3> QED
      BY <2>1, <3>1, <3>2 DEF CallbackNext, CallbackStep, Claim, TooLate, Proceed, Refuse, NotWanted
  <2>2. ASSUME NEW c \in Clients, ClientStep(c) PROVE results'[i] \in {results[i], "none"}
    <3>1. CASE StartBegin(c)
      <4>1. i # begun + 1
        BY <1>1, <3>1 DEF StartBegin, BeginLogin, IInv, NewestInv, TypeOK
      <4> QED
        BY <1>1, <3>1, <4>1, ReplacedStatuses DEF StartBegin, BeginLogin, IInv
    <3>2. CASE StartBroken(c)
      BY <1>1, <3>2, ReplacedStatuses DEF StartBroken, IInv
    <3>3. CASE Poll(c)
      BY <1>1, <3>3, RecordedStatuses DEF Poll, IInv, TypeOK
    <3>4. CASE Cleanup(c)
      BY <1>1, <3>4, RecordedStatuses DEF Cleanup, IInv, TypeOK
    <3> QED
      BY <2>2, <3>1, <3>2, <3>3, <3>4
      DEF ClientStep, StartCheck, StartFails, GiveUp, CleanupLost
  <2>3. RefreshSide \/ Expire \/ Restart => results'[i] \in {results[i], "none"}
    BY DEF RefreshSide, Expire, Restart
  <2>4. UNCHANGED vars => results'[i] = results[i]
    BY DEF vars
  <2> QED
    BY <1>1, <2>1, <2>2, <2>3, <2>4 DEF Next, CallbackNext
<1>2. IInv /\ [Next]_vars =>
        [\A i \in Ids : results[i] \notin {"none", "pending"} =>
             results'[i] \in {results[i], "none"}]_vars
  BY <1>1
<1> QED
  BY <1>2, Inductive, PTL DEF Spec, StatusIsFinal

\* What cancelLogin has answered "cancelled" for is not published by a callback that was
\* at work, nor by anything else.
THEOREM CancelledStays == Spec => CancelledNeverPublished
<1>1. ASSUME IInv, [Next]_vars, NEW i \in acked, i \notin stable \cup {cred}
      PROVE  i \notin stable' \cup {cred'}
  <2> USE DEF attemptVars, credVars
  <2>1. i \in Ids /\ results[i] # "pending" /\ i # 0 /\ 0 \in 0..MaxAttempts
    BY <1>1, BoundsAssumption DEF IInv, TypeOK, CancelInv, Ids
  <2>2. ASSUME NEW b \in Callbacks, CallbackNext(b) PROVE i \notin stable' \cup {cred'}
    <3>1. ASSUME Publish(b) PROVE i \notin stable' \cup {cred'}
      <4>1. bid[b] \in Ids
        BY <1>1, <3>1 DEF IInv, LocalInv, Publish
      <4>2. results[bid[b]] = "pending"
        BY <3>1 DEF Publish, StillWanted
      <4> QED
        BY <1>1, <2>1, <3>1, <4>1, <4>2, PublishEffect DEF IInv
    <3> QED
      BY <1>1, <2>2, <3>1
      DEF CallbackNext, CallbackStep, Claim, TooLate, Proceed, Refuse, NotWanted, Finish
  <2>3. ASSUME NEW c \in Clients, ClientStep(c) PROVE i \notin stable' \cup {cred'}
    BY <1>1, <2>3 DEF ClientStep, StartCheck, StartBegin, StartBroken, StartFails, Poll, GiveUp,
                      Cleanup, CleanupLost
  <2>4. ASSUME RefreshSide PROVE i \notin stable' \cup {cred'}
    BY <1>1, <2>1, <2>4, FileTypes DEF RefreshSide, IInv, TypeOK
  <2>5. ASSUME Expire \/ UNCHANGED vars PROVE i \notin stable' \cup {cred'}
    BY <1>1, <2>5 DEF Expire, vars
  <2>6. ASSUME Restart PROVE i \notin stable' \cup {cred'}
    BY <1>1, <2>6, PowerLossTypes DEF Restart, IInv
  <2> QED
    BY <1>1, <2>2, <2>3, <2>4, <2>5, <2>6 DEF Next, CallbackNext
<1>2. IInv /\ [Next]_vars =>
        [\A i \in acked : i \notin stable \cup {cred} => i \notin stable' \cup {cred'}]_vars
  BY <1>1
<1> QED
  BY <1>2, Inductive, PTL DEF Spec, CancelledNeverPublished

-------------------------------------------------------------------------------
(* The limit on the results *)

Remembered == {i \in Ids : results[i] # "none"}
CountInv == Cardinality(Remembered) <= Cap

LEMMA LeastExists ==
    ASSUME NEW S \in SUBSET Nat, S # {}
    PROVE  \E i \in S : \A j \in S : i <= j
<1>1. PICK i \in S : \A j \in S : <<j, i>> \notin OpToRel(<, Nat)
  BY NatLessThanWellFounded, WFMin
<1>2. \A j \in S : ~(j < i)
  BY <1>1 DEF OpToRel
<1> QED
  BY <1>2

\* A full map loses the result that would expire first, and only that one.
LEMMA RoomIsMade ==
    ASSUME TypeOK, CountInv
    PROVE  IsFiniteSet(Kept \ Evicted) /\ Cardinality(Kept \ Evicted) + 1 <= Cap
<1>1. IsFiniteSet(Ids) /\ Remembered \subseteq Ids /\ Kept \subseteq Remembered
  BY BoundsAssumption, FS_Interval DEF Ids, Remembered, Kept
<1>2. IsFiniteSet(Remembered) /\ IsFiniteSet(Kept) /\ Cardinality(Kept) <= Cardinality(Remembered)
  BY <1>1, FS_Subset
<1>3. Cardinality(Kept) \in Nat /\ Cardinality(Remembered) \in Nat /\ Cardinality(Kept) <= Cap
  BY <1>2, FS_CardinalityType, BoundsAssumption DEF CountInv
<1>4. CASE Cardinality(Kept) >= Cap
  <2>1. Kept # {}
    BY <1>3, <1>4, FS_EmptySet, BoundsAssumption
  <2>2. Kept \in SUBSET Nat
    BY DEF Kept, Ids
  <2>3. PICK i \in Kept : \A j \in Kept : i <= j
    BY <2>1, <2>2, LeastExists
  <2>4. Evicted = {i}
    <3>1. Evicted = {j \in Kept : \A k \in Kept : j <= k}
      BY <1>4 DEF Evicted
    <3>2. \A j \in Kept : (\A k \in Kept : j <= k) <=> j = i
      BY <2>2, <2>3
    <3> QED
      BY <2>3, <3>1, <3>2
  <2>5. IsFiniteSet(Kept \ {i}) /\ Cardinality(Kept \ {i}) = Cardinality(Kept) - 1
    BY <1>2, <2>3, FS_RemoveElement
  <2> QED
    BY <1>3, <2>4, <2>5, BoundsAssumption
<1>5. CASE ~(Cardinality(Kept) >= Cap)
  <2>1. Kept \ Evicted = Kept
    BY <1>5 DEF Evicted
  <2> QED
    BY <1>2, <1>3, <1>5, <2>1, BoundsAssumption
<1> QED
  BY <1>4, <1>5

LEMMA CountFewer ==
    ASSUME CountInv, \A i \in Ids : results[i] = "none" => results'[i] = "none"
    PROVE  CountInv'
<1>1. IsFiniteSet(Remembered) /\ Remembered' \subseteq Remembered
  BY BoundsAssumption, FS_Interval, FS_Subset DEF Ids, Remembered
<1>2. Cardinality(Remembered') <= Cardinality(Remembered)
  BY <1>1, FS_Subset
<1>3. Cardinality(Remembered) \in Nat /\ Cardinality(Remembered') \in Nat
  BY <1>1, FS_Subset, FS_CardinalityType
<1> QED
  BY <1>2, <1>3, BoundsAssumption DEF CountInv

LEMMA CountPreserved == IInv /\ CountInv /\ [Next]_vars => CountInv'
<1> SUFFICES ASSUME IInv, CountInv, [Next]_vars PROVE CountInv'
  OBVIOUS
<1> USE DEF attemptVars
<1>1. ASSUME NEW b \in Callbacks, CallbackNext(b) PROVE CountInv'
  <2>1. CASE Publish(b)
    BY <2>1, PublishEffect, CountFewer DEF IInv, LocalInv, Publish
  <2>2. CASE Finish(b)
    BY <2>2, CountFewer DEF Finish, IInv, TypeOK
  <2>3. CASE ~Publish(b) /\ ~Finish(b)
    BY <1>1, <2>3, CountFewer
    DEF CallbackNext, CallbackStep, Claim, TooLate, Proceed, Refuse, NotWanted
  <2> QED
    BY <2>1, <2>2, <2>3
<1>2. ASSUME NEW c \in Clients, ClientStep(c) PROVE CountInv'
  <2>1. CASE StartBegin(c)
    <3>1. begun + 1 \in Ids /\ results' = [Replaced EXCEPT ![begun + 1] = "pending"]
      BY <2>1 DEF StartBegin, BeginLogin
    <3>2. Remembered' \subseteq (Kept \ Evicted) \cup {begun + 1}
      BY <3>1 DEF Remembered, Replaced
    <3>3. /\ IsFiniteSet(Kept \ Evicted) /\ Cardinality(Kept \ Evicted) + 1 <= Cap
          /\ Cardinality(Kept \ Evicted) \in Nat
      BY RoomIsMade, FS_CardinalityType DEF IInv
    <3>4. /\ IsFiniteSet((Kept \ Evicted) \cup {begun + 1})
          /\ Cardinality((Kept \ Evicted) \cup {begun + 1}) \in Nat
          /\ Cardinality((Kept \ Evicted) \cup {begun + 1}) <= Cap
      BY <3>3, FS_AddElement, BoundsAssumption
    <3>5. /\ Cardinality(Remembered') <= Cardinality((Kept \ Evicted) \cup {begun + 1})
          /\ Cardinality(Remembered') \in Nat
      BY <3>2, <3>4, FS_Subset, FS_CardinalityType
    <3> QED
      BY <3>4, <3>5, BoundsAssumption DEF CountInv
  <2>2. CASE StartBroken(c)
    BY <2>2, ReplacedStatuses, CountFewer DEF StartBroken, IInv
  <2>3. CASE Poll(c)
    BY <2>3, RecordedStatuses, CountFewer DEF Poll, IInv, TypeOK
  <2>4. CASE Cleanup(c)
    BY <2>4, RecordedStatuses, CountFewer DEF Cleanup, IInv, TypeOK
  <2> QED
    BY <1>2, <2>1, <2>2, <2>3, <2>4, CountFewer
    DEF ClientStep, StartCheck, StartFails, GiveUp, CleanupLost
<1>3. ASSUME RefreshSide \/ Expire \/ Restart PROVE CountInv'
  BY <1>3, CountFewer DEF RefreshSide, Expire, Restart
<1>4. ASSUME UNCHANGED vars PROVE CountInv'
  BY <1>4, CountFewer DEF vars
<1> QED
  BY <1>1, <1>2, <1>3, <1>4 DEF Next, CallbackNext

\* loginResults never exceeds its limit (maxLoginResults), and making room for an attempt
\* does not drop the result of one that can be claimed.
THEOREM ResultsLimited == Spec => []ResultsBounded
<1>1. Init => CountInv
  <2> SUFFICES ASSUME Init PROVE CountInv
    OBVIOUS
  <2>1. Remembered = {}
    BY DEF Init, Remembered
  <2> QED
    BY <2>1, FS_EmptySet, BoundsAssumption DEF CountInv
<1>2. IInv /\ CountInv => ResultsBounded
  BY DEF IInv, NewestInv, OnlyNewestClaimable, CountInv, Remembered, ResultsBounded
<1> QED
  BY <1>1, <1>2, CountPreserved, Inductive, PTL DEF Spec
===============================================================================
