--------------------------- MODULE AuthRefreshProofs ---------------------------
(* Theorems about AuthRefresh, for any set of callers and any number of tokens. *)
EXTENDS AuthRefresh, TLAPS

-------------------------------------------------------------------------------
(* The inductive invariant of every instance, in parts *)

\* Every number c carries is among the first n issued; only credential{} has none.
Issued(c, n) ==
    /\ c.tok <= n /\ c.rt <= n /\ c.login <= n
    /\ c.tok # 0 => c.rt # 0

Counted ==
    /\ gen <= ntok /\ owner <= ntok
    /\ \A t \in maybeSpent \cup rejected : t <= ntok
    /\ \A c \in stable : Issued(c, ntok)
    /\ Issued(mem, ntok)

\* A process that does not run has no goroutines.
Stopped == ~up => \A p \in Callers : pc[p] = "idle"

\* What an exchange was started for, until a login bumps the generation, is what
\* Auth holds.
Exchanging ==
    \A p \in Callers : InExchange(p) =>
        /\ work[p].old.tok # 0 /\ Issued(work[p].old, ntok)
        /\ work[p].g <= gen
        /\ work[p].g = gen => mem = work[p].old /\ rerr = "none"
        /\ work[p].g # gen => mem.rt # work[p].old.rt

\* What a successful exchange brings is newly issued, for the same login.
Brought ==
    \A p \in Callers : pc[p] = "settle" /\ work[p].out = "ok" =>
        /\ Issued(work[p].fresh, ntok) /\ work[p].fresh.tok \notin rejected
        /\ work[p].fresh.login = work[p].old.login

\* Auth itself does not go on with a rejected credential.
RejectedInMemory ==
    up /\ mem.tok \in rejected => mem.exp \/ rerr = "login"

IInv ==
    /\ TypeOK
    /\ Counted
    /\ Stopped
    /\ OneExchange
    /\ Exchanging
    /\ Brought
    /\ NoStaleOverwrite
    /\ RejectedStaysInvalid
    /\ RejectedInMemory

-------------------------------------------------------------------------------
(* What the refresh loop adds, when only 401 and 403 count as a rejection *)

\* One context for all callers.
SharedContext == \A p, q \in Callers : ctxDone[p] = ctxDone[q]

\* While a refresh token may be on its way its snapshots are all fenced.
FencedInFlight ==
    \A p \in Callers : pc[p] \in {"send", "reply"} =>
        \A c \in stable : c.rt = work[p].old.rt => c.pending

\* A token about to be sent, brought back, or refused has not been spent.
UnspentInHand ==
    \A p \in Callers : ~ctxDone[p] =>
        /\ pc[p] = "send" => work[p].old.rt \notin maybeSpent
        /\ pc[p] = "settle" /\ work[p].out = "ok" =>
               work[p].fresh.rt \notin maybeSpent
        /\ pc[p] = "settle" /\ work[p].out = "rejected" =>
               work[p].old.rt \notin maybeSpent

\* A token that may have been spent is not in memory as one that get would send:
\* an error is recorded, its exchange has not been settled, or the service stops.
UnspentInMemory ==
    up /\ mem.rt \in maybeSpent =>
        \/ rerr # "none"
        \/ \E p \in Callers : InExchange(p) /\ work[p].g = gen
        \/ \A p \in Callers : ctxDone[p]

ServiceInv ==
    /\ IInv
    /\ SharedContext
    /\ FenceCoversSpent
    /\ FencedInFlight
    /\ UnspentInHand
    /\ UnspentInMemory
    /\ UncertainNeverResent

-------------------------------------------------------------------------------
(* The operators the actions are built from *)

LEMMA NoCredType == NoCred \in Cred /\ NoWork \in Work
BY MaxTokAssumption DEF NoCred, NoWork, Cred, Work, Outcomes

LEMMA FencedType ==
    ASSUME NEW c \in Cred
    PROVE  /\ Fenced(c) \in Cred
           /\ Fenced(c).tok = c.tok /\ Fenced(c).rt = c.rt /\ Fenced(c).login = c.login
           /\ Fenced(c).pending /\ Fenced(c).exp = c.exp
BY DEF Fenced, Cred

LEMMA InvalidatedType ==
    ASSUME NEW c \in Cred
    PROVE  /\ Invalidated(c) \in Cred
           /\ Invalidated(c).tok = c.tok /\ Invalidated(c).rt = c.rt
           /\ Invalidated(c).login = c.login
           /\ ~Invalidated(c).pending /\ Invalidated(c).exp
BY DEF Invalidated, Cred

LEMMA ExchangedType ==
    ASSUME NEW old \in Cred, NEW reply, NEW n \in 0..MaxTok
    PROVE  LET c == Exchanged(old, reply, n) IN
           /\ c \in Cred
           /\ c.tok = n /\ c.login = old.login
           /\ c.rt = IF reply = "rotated" THEN n ELSE old.rt
BY DEF Exchanged, Cred

LEMMA NewLoginType ==
    ASSUME NEW n \in 0..MaxTok
    PROVE  /\ NewLogin(n) \in Cred
           /\ NewLogin(n).tok = n /\ NewLogin(n).rt = n /\ NewLogin(n).login = n
           /\ ~NewLogin(n).pending /\ ~NewLogin(n).exp
BY DEF NewLogin, Cred

\* What a register operation may do to the file.
LEMMA ReplaceEffect ==
    ASSUME disk \in stable, NEW c, NEW result, Reg!Replace(c, result)
    PROVE  /\ disk' \in stable'
           /\ \A d \in stable' : d \in stable \/ d = c
           /\ disk' = disk \/ disk' = c
           /\ result = "ok" => stable' = {c} /\ disk' = c
BY DEF Reg!Replace, Reg!regVars

LEMMA PowerLossEffect ==
    ASSUME Reg!PowerLoss
    PROVE  disk' \in stable /\ stable' = {disk'}
BY DEF Reg!PowerLoss

-------------------------------------------------------------------------------
(* Type correctness *)

\* What the register operations of an action leave in the file is well formed.
LEMMA ReplaceType ==
    ASSUME TypeOK, NEW c \in Cred, NEW result, Reg!Replace(c, result)
    PROVE  disk' \in Cred /\ stable' \in SUBSET Cred /\ disk' \in stable'
BY ReplaceEffect DEF TypeOK

LEMMA TypeStep ==
    ASSUME IInv, [Next]_vars
    PROVE  TypeOK'
<1> USE MaxTokAssumption
<1> USE DEF IInv, TypeOK, Places, At, Goto, procVars, diskVars, callVars, envVars, histVars
<1>1. ASSUME NEW p \in Callers, Call(p)
      PROVE  TypeOK'
  BY <1>1 DEF Call
<1>2. ASSUME NEW p \in Callers, Return(p) \/ Wait(p) \/ WaitCancelled(p)
      PROVE  TypeOK'
  BY <1>2 DEF Return, Wait, WaitCancelled
<1>3. ASSUME NEW p \in Callers, Fence(p)
      PROVE  TypeOK'
  <2>1. PICK result \in Reg!Results : Reg!Replace(Fenced(mem), result)
    BY <1>3 DEF Fence
  <2>2. disk' \in Cred /\ stable' \in SUBSET Cred /\ disk' \in stable'
    BY <2>1, FencedType, ReplaceType
  <2>3. [old |-> Fenced(mem), g |-> gen, client |-> 1,
         out |-> "none", fresh |-> NoCred] \in Work
    BY FencedType, NoCredType DEF Work, Outcomes
  <2> QED BY ZenonT(30), <1>3, <2>2, <2>3, FencedType DEF Fence
<1>4. ASSUME NEW p \in Callers, NEW out \in Outcomes, NEW fresh \in Cred,
             Ends(p, out, fresh)
      PROVE  /\ work' \in [Callers -> Work]
             /\ pc' \in [Callers -> Places]
  <2> DEFINE w == [work[p] EXCEPT !.out = out, !.fresh = fresh]
  <2>1. w \in Work
    <3>1. work[p] \in Work
      OBVIOUS
    <3> QED BY <1>4, <3>1 DEF Work
  <2>2. work' = [work EXCEPT ![p] = w]
    BY <1>4 DEF Ends
  <2> HIDE DEF w
  <2>3. pc' = [pc EXCEPT ![p] = "settle"]
    BY <1>4 DEF Ends
  <2> QED BY <2>1, <2>2, <2>3
<1>5. ASSUME NEW p \in Callers,
             RefuseLocally(p) \/ SendFails(p) \/ ReplyMismatch(p)
                 \/ ReplyUnusable(p) \/ ReplyCancelled(p)
      PROVE  TypeOK'
  <2>1. PICK out \in Outcomes : Ends(p, out, NoCred)
    BY <1>5 DEF RefuseLocally, SendFails, ReplyMismatch, ReplyUnusable,
                ReplyCancelled, Outcomes
  <2>2. /\ work' \in [Callers -> Work]
        /\ pc' \in [Callers -> Places]
    BY <1>4, <2>1, NoCredType
  <2> QED
    BY <1>5, <2>2
       DEF RefuseLocally, SendFails, ReplyMismatch, ReplyUnusable, ReplyCancelled
<1>6. ASSUME NEW p \in Callers, Send(p)
      PROVE  TypeOK'
  <2>1. work[p].old.rt \in Toks
    BY SMTT(30), <1>6 DEF Send, Exchanging, InExchange, Issued, Work, Cred, Toks
  <2> QED BY <1>6, <2>1 DEF Send
<1>7. ASSUME NEW p \in Callers, NEW reply, ReplyOk(p, reply)
      PROVE  TypeOK'
  <2>1. ntok + 1 \in 0..MaxTok
    BY <1>7 DEF ReplyOk
  <2>2. Exchanged(work[p].old, reply, ntok + 1) \in Cred
    BY <2>1, ExchangedType DEF Work
  <2>3. Ends(p, "ok", Exchanged(work[p].old, reply, ntok + 1))
    BY <1>7 DEF ReplyOk
  <2>4. /\ work' \in [Callers -> Work]
        /\ pc' \in [Callers -> Places]
    BY <1>4, <2>2, <2>3 DEF Outcomes
  <2> QED BY <1>7, <2>1, <2>4 DEF ReplyOk
<1>8. ASSUME NEW p \in Callers, ReplyRejected(p)
      PROVE  TypeOK'
  <2>1. CASE ClientsLeft(work[p].client)
    BY <1>8, <2>1 DEF ReplyRejected, ClientsLeft, Work
  <2>2. CASE ~ClientsLeft(work[p].client)
    BY <1>4, <1>8, <2>2, NoCredType DEF ReplyRejected, Outcomes
  <2> QED BY <2>1, <2>2
<1>9. ASSUME NEW p \in Callers, NEW where \in {"lock", "idle"}, Release(p, where)
      PROVE  /\ work' \in [Callers -> Work] /\ refreshing' \in BOOLEAN
             /\ pc' \in [Callers -> Places]
  BY <1>9, NoCredType DEF Release
<1>10. ASSUME NEW p \in Callers, SettleChanged(p) \/ SettleCancelled(p) \/ SettleUnknown(p)
       PROVE  TypeOK'
  BY <1>9, <1>10 DEF SettleChanged, SettleCancelled, SettleUnknown
<1>11. ASSUME NEW p \in Callers, SettleOk(p)
       PROVE  TypeOK'
  <2>1. work[p].fresh \in Cred
    BY DEF Work
  <2>2. PICK result \in Reg!Results : Reg!Replace(work[p].fresh, result)
    BY <1>11 DEF SettleOk
  <2>3. disk' \in Cred /\ stable' \in SUBSET Cred /\ disk' \in stable'
    BY <2>1, <2>2, ReplaceType
  <2> QED BY <1>9, <1>11, <2>1, <2>3 DEF SettleOk
<1>12. ASSUME NEW p \in Callers, SettleRejected(p)
       PROVE  TypeOK'
  <2>1. work[p].old \in Cred /\ work[p].old.tok \in Toks
    BY SMTT(30), <1>12 DEF SettleRejected, Settling, Exchanging, InExchange, Work, Cred, Toks
  <2>2. PICK result \in Reg!Results : Reg!Replace(Invalidated(work[p].old), result)
    BY <1>12 DEF SettleRejected
  <2>3. disk' \in Cred /\ stable' \in SUBSET Cred /\ disk' \in stable'
    BY <2>1, <2>2, InvalidatedType, ReplaceType
  <2> QED BY <1>9, <1>12, <2>1, <2>3 DEF SettleRejected
<1>13. ASSUME NEW p \in Callers, Quarantine(p)
       PROVE  TypeOK'
  <2>1. work[p].old \in Cred /\ work[p].old.tok \in Toks
    BY SMTT(30), <1>13 DEF Quarantine, Exchanging, InExchange, Work, Cred, Toks
  <2>2. PICK result \in Reg!Results : Reg!Replace(NoCred, result)
    BY <1>13 DEF Quarantine
  <2>3. disk' \in Cred /\ stable' \in SUBSET Cred /\ disk' \in stable'
    BY <2>2, NoCredType, ReplaceType
  <2> QED BY <1>9, <1>13, <2>1, <2>3 DEF Quarantine
<1>14. CASE PublishLogin
  <2> DEFINE c == NewLogin(ntok + 1)
  <2>1. ntok + 1 \in 0..MaxTok /\ gen + 1 \in 0..MaxTok
    BY <1>14 DEF PublishLogin, Counted
  <2>2. c \in Cred /\ c.login = ntok + 1
    BY <2>1, NewLoginType
  <2>3. PICK result \in Reg!Results : Reg!Replace(c, result)
    BY <1>14 DEF PublishLogin
  <2>4. disk' \in Cred /\ stable' \in SUBSET Cred /\ disk' \in stable'
    BY <2>2, <2>3, ReplaceType
  <2> QED BY <1>14, <2>1, <2>2, <2>4 DEF PublishLogin
<1>15. CASE Cancel
  BY <1>15 DEF Cancel
<1>16. ASSUME ProcessGone
       PROVE  /\ up' \in BOOLEAN /\ mem' \in Cred /\ gen' \in 0..MaxTok
              /\ rerr' \in {"none", "ambiguous", "login"}
              /\ uncertain' \in BOOLEAN /\ refreshing' \in BOOLEAN /\ backoff' \in BOOLEAN
              /\ pc' \in [Callers -> Places]
              /\ work' \in [Callers -> Work]
              /\ ctxDone' \in [Callers -> BOOLEAN]
  <2>1. 0 \in 0..MaxTok
    OBVIOUS
  <2> QED BY <1>16, <2>1, NoCredType DEF ProcessGone
<1>17. CASE Kill \/ PowerLoss
  <2>1. disk' \in Cred /\ stable' \in SUBSET Cred /\ disk' \in stable'
    BY <1>17, PowerLossEffect DEF Kill, PowerLoss
  <2> QED BY <1>16, <1>17, <2>1 DEF Kill, PowerLoss
<1>18. CASE Restart
  BY <1>18 DEF Restart, ErrOnLoad, Cred
<1>19. CASE Age
  BY <1>19 DEF Age, Older
<1>20. CASE BackoffEnds
  BY <1>20 DEF BackoffEnds
<1>21. CASE UNCHANGED vars
  BY <1>21 DEF vars
<1> QED
  BY <1>1, <1>2, <1>3, <1>5, <1>6, <1>7, <1>8, <1>10, <1>11, <1>12, <1>13, <1>14,
     <1>15, <1>17, <1>18, <1>19, <1>20, <1>21
     DEF Next, Step, Environment

-------------------------------------------------------------------------------
(* The other parts of the invariant *)

\* A step of get that stays outside the exchange, or inside it.
LEMMA OneExchangeStep ==
    ASSUME IInv, [Next]_vars
    PROVE  Stopped' /\ OneExchange'
<1> USE DEF IInv, TypeOK, Places, Stopped, OneExchange, InExchange, At, Goto
<1>1. ASSUME NEW p \in Callers, Call(p) \/ Return(p) \/ Wait(p) \/ WaitCancelled(p)
      PROVE  Stopped' /\ OneExchange'
  BY <1>1 DEF Call, Return, Wait, WaitCancelled, procVars
<1>2. ASSUME NEW p \in Callers, Fence(p)
      PROVE  Stopped' /\ OneExchange'
  BY <1>2 DEF Fence
<1>3. ASSUME NEW p \in Callers, InExchange(p), up, NEW where,
             where \in {"send", "reply", "settle", "quarantine"},
             Goto(p, where), up' = up, refreshing' = refreshing
      PROVE  Stopped' /\ OneExchange'
  BY <1>3
<1>4. ASSUME NEW p \in Callers,
             \/ RefuseLocally(p) \/ SendFails(p) \/ Send(p) \/ ReplyRejected(p)
             \/ ReplyMismatch(p) \/ ReplyUnusable(p) \/ ReplyCancelled(p)
             \/ \E reply \in Replies : ReplyOk(p, reply)
      PROVE  Stopped' /\ OneExchange'
  BY <1>3, <1>4
     DEF RefuseLocally, SendFails, Send, ReplyRejected, ReplyMismatch, ReplyUnusable,
         ReplyCancelled, ReplyOk, Ends, procVars
<1>5. ASSUME NEW p \in Callers, InExchange(p), up, NEW where \in {"lock", "idle"},
             Release(p, where), up' = up
      PROVE  Stopped' /\ OneExchange'
  BY <1>5 DEF Release
<1>6. ASSUME NEW p \in Callers,
             SettleChanged(p) \/ SettleCancelled(p) \/ SettleUnknown(p) \/ Quarantine(p)
      PROVE  Stopped' /\ OneExchange'
  BY <1>5, <1>6 DEF SettleChanged, SettleCancelled, SettleUnknown, Quarantine, Settling
<1>7. ASSUME NEW p \in Callers, SettleOk(p)
      PROVE  Stopped' /\ OneExchange'
  <2>1. PICK where \in {"lock", "idle"} : Release(p, where)
    BY <1>7 DEF SettleOk
  <2> QED BY <1>5, <1>7, <2>1 DEF SettleOk, Settling
<1>8. ASSUME NEW p \in Callers, SettleRejected(p)
      PROVE  Stopped' /\ OneExchange'
  BY <1>3, <1>5, <1>8 DEF SettleRejected, Settling
<1>9. CASE PublishLogin \/ Cancel \/ Age \/ BackoffEnds \/ UNCHANGED vars
  BY <1>9 DEF PublishLogin, Cancel, Age, BackoffEnds, procVars, callVars, vars
<1>10. CASE Kill \/ PowerLoss
  BY <1>10 DEF Kill, PowerLoss, ProcessGone
<1>11. CASE Restart
  BY <1>11 DEF Restart, callVars
<1> QED
  BY <1>1, <1>2, <1>4, <1>6, <1>7, <1>8, <1>9, <1>10, <1>11 DEF Next, Step, Environment

\* Numbers are issued in order, and nothing but what was issued is ever kept.
LEMMA CountedStep ==
    ASSUME IInv, [Next]_vars
    PROVE  Counted' /\ ntok <= ntok'
<1> USE DEF IInv, TypeOK, Counted, procVars, diskVars, callVars, envVars, histVars
<1>1. ASSUME NEW c \in Cred, Issued(c, ntok), ntok' \in Nat, ntok <= ntok'
      PROVE  Issued(c, ntok')
  BY <1>1 DEF Issued, Cred
<1>2. ASSUME ntok' \in Nat, ntok <= ntok', NEW c \in Cred, NEW result, Issued(c, ntok'),
             Reg!Replace(c, result)
      PROVE  \A d \in stable' : Issued(d, ntok')
  BY <1>1, <1>2, ReplaceEffect
<1>3. ASSUME ntok' = ntok, mem' = mem \/ Issued(mem', ntok'), UNCHANGED <<gen, owner>>,
             (maybeSpent \cup rejected)' \subseteq maybeSpent \cup rejected,
             \A d \in stable' : Issued(d, ntok')
      PROVE  Counted' /\ ntok <= ntok'
  BY <1>1, <1>3
<1>4. ASSUME ntok' = ntok
      PROVE  \A d \in stable : Issued(d, ntok')
  BY <1>1, <1>4
<1>5. Issued(NoCred, ntok')
  <2>1. ntok' \in 0..MaxTok
    BY TypeStep DEF TypeOK
  <2> QED BY <2>1, MaxTokAssumption DEF Issued, NoCred
<1>6. ASSUME NEW p \in Callers
      PROVE  /\ Call(p) \/ Return(p) \/ Wait(p) \/ WaitCancelled(p) \/ RefuseLocally(p)
                \/ SendFails(p) \/ ReplyRejected(p) \/ ReplyMismatch(p) \/ ReplyUnusable(p)
                \/ ReplyCancelled(p) \/ SettleChanged(p) \/ SettleCancelled(p)
                \/ SettleUnknown(p) => Counted' /\ ntok <= ntok'
  BY <1>3, <1>4
     DEF Call, Return, Wait, WaitCancelled, RefuseLocally, SendFails, ReplyRejected,
         ReplyMismatch, ReplyUnusable, ReplyCancelled, SettleChanged, SettleCancelled,
         SettleUnknown
<1>7. ASSUME NEW p \in Callers, Fence(p)
      PROVE  Counted' /\ ntok <= ntok'
  <2>1. PICK result \in Reg!Results : Reg!Replace(Fenced(mem), result)
    BY <1>7 DEF Fence
  <2>2. Issued(Fenced(mem), ntok') /\ ntok' = ntok
    BY <1>7, FencedType DEF Fence, Issued
  <2>3. \A d \in stable' : Issued(d, ntok')
    BY <1>2, <2>1, <2>2, FencedType
  <2> QED BY <1>3, <1>7, <2>2, <2>3 DEF Fence
<1>8. ASSUME NEW p \in Callers, Send(p)
      PROVE  Counted' /\ ntok <= ntok'
  <2>1. work[p].old.rt <= ntok
    BY <1>8 DEF Send, Exchanging, InExchange, Issued, At
  <2> QED BY <1>4, <1>8, <2>1 DEF Send, Issued
<1>9. ASSUME NEW p \in Callers, NEW reply \in Replies, ReplyOk(p, reply)
      PROVE  Counted' /\ ntok <= ntok'
  <2>1. ntok' = ntok + 1 /\ ntok' \in Nat /\ UNCHANGED <<mem, stable, gen, owner, rejected>>
    BY <1>9 DEF ReplyOk
  <2>2. maybeSpent' \subseteq maybeSpent
    BY <1>9 DEF ReplyOk
  <2>3. \A c \in stable \cup {mem} : Issued(c, ntok')
    BY <1>1, <2>1
  <2>4. \A t \in maybeSpent \cup rejected : t \in Nat
    BY DEF Toks
  <2> QED BY <2>1, <2>2, <2>3, <2>4
<1>10. ASSUME NEW p \in Callers, SettleOk(p)
       PROVE  Counted' /\ ntok <= ntok'
  <2>1. work[p].fresh \in Cred /\ Issued(work[p].fresh, ntok) /\ ntok' = ntok
    BY <1>10 DEF SettleOk, Settling, At, Brought, Work
  <2>2. PICK result \in Reg!Results : Reg!Replace(work[p].fresh, result)
    BY <1>10 DEF SettleOk
  <2>3. Issued(work[p].fresh, ntok')
    BY <1>1, <2>1
  <2> QED BY <1>2, <1>3, <1>10, <2>1, <2>2, <2>3 DEF SettleOk
<1>11. ASSUME NEW p \in Callers, SettleRejected(p) \/ Quarantine(p)
       PROVE  Counted' /\ ntok <= ntok'
  <2>1. work[p].old \in Cred /\ Issued(work[p].old, ntok) /\ ntok' = ntok
    BY <1>11 DEF SettleRejected, Quarantine, Settling, At, InExchange, Exchanging, Work
  <2>2. Issued(Invalidated(work[p].old), ntok')
    BY <2>1, InvalidatedType DEF Issued
  <2>3. PICK c \in {Invalidated(work[p].old), NoCred}, result \in Reg!Results :
            Reg!Replace(c, result)
    BY <1>11 DEF SettleRejected, Quarantine
  <2>4. \A d \in stable' : Issued(d, ntok')
    BY <1>2, <1>5, <2>1, <2>2, <2>3, InvalidatedType, NoCredType
  <2>5. work[p].old.tok <= ntok /\ rejected' \subseteq rejected \cup {work[p].old.tok}
    BY <1>11, <2>1 DEF SettleRejected, Quarantine, Issued
  <2>6. UNCHANGED <<mem, gen, owner, maybeSpent, ntok>>
    BY <1>11 DEF SettleRejected, Quarantine
  <2> QED BY <2>4, <2>5, <2>6 DEF Issued
<1>12. CASE PublishLogin
  <2> DEFINE c == NewLogin(ntok + 1)
  <2>1. c \in Cred /\ c.tok = ntok + 1 /\ c.rt = ntok + 1 /\ c.login = ntok + 1
    BY <1>12, MaxTokAssumption, NewLoginType DEF PublishLogin
  <2>2. PICK result \in Reg!Results : Reg!Replace(c, result)
    BY <1>12 DEF PublishLogin
  <2>3. ntok' = ntok + 1 /\ ntok' \in Nat /\ UNCHANGED <<maybeSpent, rejected>>
    BY <1>12 DEF PublishLogin
  <2>4. /\ mem' = mem \/ mem' = c
        /\ gen' = gen \/ gen' = gen + 1
        /\ owner' = owner \/ owner' = c.login
    BY <1>12 DEF PublishLogin
  <2> HIDE DEF c
  <2>5. Issued(c, ntok')
    BY <2>1, <2>3 DEF Issued
  <2>6. \A d \in stable' \cup {mem'} : Issued(d, ntok')
    BY <1>1, <1>2, <2>1, <2>2, <2>3, <2>4, <2>5
  <2>7. \A t \in maybeSpent \cup rejected : t \in Nat
    BY DEF Toks
  <2> QED BY <2>1, <2>3, <2>4, <2>6, <2>7
<1>13. CASE Kill \/ PowerLoss
  <2>1. \A d \in stable' : Issued(d, ntok')
    BY <1>4, <1>13, PowerLossEffect DEF Kill, PowerLoss
  <2>2. ntok' = ntok /\ mem' = NoCred /\ gen' = 0 /\ UNCHANGED <<owner, maybeSpent, rejected>>
    BY <1>13 DEF Kill, PowerLoss, ProcessGone
  <2> QED BY <1>5, <2>1, <2>2
<1>14. CASE Restart
  <2>1. Issued(disk, ntok') /\ owner' = disk.login /\ mem' = disk
    BY <1>4, <1>14 DEF Restart
  <2> QED BY <1>4, <1>14, <2>1 DEF Restart, Issued
<1>15. CASE Cancel \/ Age \/ BackoffEnds \/ UNCHANGED vars
  BY <1>3, <1>4, <1>15 DEF Cancel, Age, BackoffEnds, vars
<1> QED
  BY <1>6, <1>7, <1>8, <1>9, <1>10, <1>11, <1>12, <1>13, <1>14, <1>15
     DEF Next, Step, Environment

\* Only one caller is inside an exchange, so nobody is after a release.
LEMMA ReleaseEffect ==
    ASSUME IInv, NEW p \in Callers, NEW where \in {"lock", "idle"},
           up, InExchange(p), Release(p, where)
    PROVE  \A q \in Callers : pc'[q] \notin {"send", "reply", "settle", "quarantine"}
BY DEF IInv, TypeOK, OneExchange, InExchange, Release

\* The steps between the fence and the settlement keep what the exchange is for.
InsideExchange(p) ==
    \/ RefuseLocally(p) \/ SendFails(p) \/ Send(p) \/ ReplyRejected(p)
    \/ ReplyMismatch(p) \/ ReplyUnusable(p) \/ ReplyCancelled(p)
    \/ \E reply \in Replies : ReplyOk(p, reply)

LEMMA InsideEffect ==
    ASSUME IInv, NEW p \in Callers, InsideExchange(p)
    PROVE  /\ up /\ InExchange(p)
           /\ \A q \in Callers : q # p => pc'[q] = pc[q] /\ work'[q] = work[q]
           /\ work'[p].old = work[p].old /\ work'[p].g = work[p].g
           /\ UNCHANGED <<procVars, diskVars, ctxDone, owner, rejected>>
<1>1. pc \in [Callers -> Places] /\ work \in [Callers -> Work]
  BY DEF IInv, TypeOK
<1>2. ASSUME NEW out, NEW fresh, Ends(p, out, fresh)
      PROVE  /\ \A q \in Callers : q # p => pc'[q] = pc[q] /\ work'[q] = work[q]
             /\ work'[p].old = work[p].old /\ work'[p].g = work[p].g
  BY <1>1, <1>2 DEF Ends, Goto, Work
<1>3. CASE Send(p)
  BY <1>1, <1>3 DEF Send, Goto, At, InExchange
<1>4. CASE ReplyRejected(p)
  BY <1>1, <1>2, <1>4 DEF ReplyRejected, Goto, At, InExchange, Work, envVars
<1>5. CASE RefuseLocally(p) \/ SendFails(p) \/ ReplyMismatch(p) \/ ReplyUnusable(p)
              \/ ReplyCancelled(p) \/ \E reply \in Replies : ReplyOk(p, reply)
  BY <1>2, <1>5 DEF RefuseLocally, SendFails, ReplyMismatch, ReplyUnusable,
                    ReplyCancelled, ReplyOk, At, InExchange, histVars
<1> QED BY <1>3, <1>4, <1>5 DEF InsideExchange

\* The steps that settle an exchange.
Settled(p) ==
    \/ SettleChanged(p) \/ SettleCancelled(p) \/ SettleUnknown(p) \/ SettleOk(p)
    \/ SettleRejected(p) \/ Quarantine(p)

\* Either the exchange is over for everyone, or its rejection is still being
\* written and nothing but the file has changed.
LEMMA SettledEffect ==
    ASSUME IInv, NEW p \in Callers, Settled(p)
    PROVE  /\ up /\ InExchange(p)
           /\ UNCHANGED <<up, gen, ctxDone, envVars, owner, maybeSpent, resent>>
           /\ \/ \A q \in Callers :
                    pc'[q] \notin {"send", "reply", "settle", "quarantine"}
              \/ /\ SettleRejected(p)
                 /\ pc' = [pc EXCEPT ![p] = "quarantine"]
                 /\ UNCHANGED <<mem, rerr, work, rejected, backoff>>
<1>1. CASE SettleChanged(p) \/ SettleCancelled(p) \/ SettleUnknown(p) \/ Quarantine(p)
  <2>1. up /\ InExchange(p) /\ \E where \in {"lock", "idle"} : Release(p, where)
    BY <1>1 DEF SettleChanged, SettleCancelled, SettleUnknown, Quarantine, Settling, At,
                InExchange
  <2> QED
    BY <1>1, <2>1, ReleaseEffect
       DEF SettleChanged, SettleCancelled, SettleUnknown, Quarantine, histVars
<1>2. CASE SettleOk(p)
  <2>1. up /\ InExchange(p) /\ \E where \in {"lock", "idle"} : Release(p, where)
    BY <1>2 DEF SettleOk, Settling, At, InExchange
  <2> QED BY <1>2, <2>1, ReleaseEffect DEF SettleOk, histVars
<1>3. CASE SettleRejected(p)
  <2>1. up /\ InExchange(p)
    BY <1>3 DEF SettleRejected, Settling, At, InExchange
  <2> QED BY <1>3, <2>1, ReleaseEffect DEF SettleRejected, Goto
<1> QED BY <1>1, <1>2, <1>3 DEF Settled

\* Calls that do not get as far as an exchange.
LEMMA OutsideEffect ==
    ASSUME IInv, NEW p \in Callers, Call(p) \/ Return(p) \/ Wait(p) \/ WaitCancelled(p)
    PROVE  /\ UNCHANGED <<procVars, diskVars, work, envVars, histVars>>
           /\ \A q \in Callers : pc'[q] = pc[q]
                  \/ pc'[q] \notin {"send", "reply", "settle", "quarantine"}
           /\ InService => ctxDone' = ctxDone
BY DEF IInv, TypeOK, Call, Return, Wait, WaitCancelled, Goto, callVars

\* Every step, by the part of the system that takes it.
LEMMA NextCases ==
    ASSUME [Next]_vars
    PROVE  \/ \E p \in Callers : \/ Call(p) \/ Return(p) \/ Wait(p) \/ WaitCancelled(p)
                                 \/ Fence(p) \/ InsideExchange(p) \/ Settled(p)
           \/ PublishLogin \/ Kill \/ PowerLoss \/ Restart
           \/ Cancel \/ Age \/ BackoffEnds \/ UNCHANGED vars
BY DEF Next, Step, Environment, InsideExchange, Settled

LEMMA ExchangingStep ==
    ASSUME IInv, [Next]_vars
    PROVE  Exchanging'
<1> USE DEF IInv, TypeOK, Exchanging, InExchange, procVars, envVars
<1>1. \A c \in Cred : Issued(c, ntok) => Issued(c, ntok')
  <2>1. ntok' \in Nat /\ ntok <= ntok' /\ ntok \in Nat
    BY CountedStep, TypeStep, MaxTokAssumption
  <2> QED BY <2>1 DEF Issued, Cred
<1>2. \A q \in Callers : work[q].old \in Cred /\ work[q].g \in Nat
  BY MaxTokAssumption DEF Work
<1>3. ASSUME NEW p \in Callers, Call(p) \/ Return(p) \/ Wait(p) \/ WaitCancelled(p)
      PROVE  Exchanging'
  BY <1>3, OutsideEffect
<1>4. ASSUME NEW p \in Callers, Fence(p)
      PROVE  Exchanging'
  <2>1. Issued(Fenced(mem), ntok) /\ ntok' = ntok /\ Fenced(mem).tok = mem.tok
    BY <1>4, FencedType DEF Fence, Issued, Counted
  <2>2. \A q \in Callers : ~InExchange(q)
    BY <1>4 DEF Fence, OneExchange
  <2> QED BY <1>4, <2>1, <2>2 DEF Fence, Goto, NeedsRefresh
<1>5. ASSUME NEW p \in Callers, InsideExchange(p)
      PROVE  Exchanging'
  BY <1>1, <1>2, <1>5, InsideEffect
<1>6. ASSUME NEW p \in Callers, Settled(p)
      PROVE  Exchanging'
  BY <1>6, SettledEffect
<1>7. CASE PublishLogin
  <2>1. /\ pc' = pc /\ work' = work
        /\ \/ gen' = gen + 1 /\ mem' = NewLogin(ntok + 1)
           \/ UNCHANGED <<gen, mem, rerr>>
    BY <1>7 DEF PublishLogin, callVars
  <2>2. NewLogin(ntok + 1).rt = ntok + 1 /\ ntok \in Nat
    BY <1>7, NewLoginType, MaxTokAssumption DEF PublishLogin
  <2>3. \A q \in Callers : InExchange(q) => work[q].old.rt # ntok + 1
    BY <1>2, <2>2 DEF Issued, Cred
  <2> QED BY <1>1, <1>2, <2>1, <2>2, <2>3
<1>8. CASE Kill \/ PowerLoss
  BY <1>8 DEF Kill, PowerLoss, ProcessGone
<1>9. CASE Restart
  BY <1>9 DEF Restart, Stopped, callVars
<1>10. CASE Cancel \/ Age \/ BackoffEnds \/ UNCHANGED vars
  BY <1>10 DEF Cancel, Age, BackoffEnds, callVars, vars
<1> QED BY <1>3, <1>4, <1>5, <1>6, <1>7, <1>8, <1>9, <1>10, NextCases

LEMMA BroughtStep ==
    ASSUME IInv, [Next]_vars
    PROVE  Brought'
<1> USE DEF IInv, TypeOK, Places, Brought, procVars, envVars, histVars
<1>1. /\ \A c \in Cred : Issued(c, ntok) => Issued(c, ntok')
      /\ ntok' \in Nat /\ ntok \in Nat
  <2>1. ntok' \in Nat /\ ntok <= ntok' /\ ntok \in Nat
    BY CountedStep, TypeStep, MaxTokAssumption
  <2> QED BY <2>1 DEF Issued, Cred
<1>2. \A q \in Callers : work[q].old \in Cred /\ work[q].fresh \in Cred
  BY DEF Work
<1>3. ASSUME NEW p \in Callers, Call(p) \/ Return(p) \/ Wait(p) \/ WaitCancelled(p)
      PROVE  Brought'
  BY <1>3, OutsideEffect
<1>4. ASSUME NEW p \in Callers, Fence(p)
      PROVE  Brought'
  BY <1>4 DEF Fence, Goto, OneExchange, InExchange
<1>5. ASSUME NEW p \in Callers, InsideExchange(p), ~\E reply \in Replies : ReplyOk(p, reply)
      PROVE  Brought'
  <2>1. pc'[p] = "settle" => work'[p].out # "ok"
    BY <1>5, <1>2
       DEF InsideExchange, RefuseLocally, SendFails, Send, ReplyRejected, ReplyMismatch,
           ReplyUnusable, ReplyCancelled, Ends, Goto, At, Work, Outcomes
  <2>2. \A q \in Callers : q # p => pc'[q] # "settle"
    BY <1>5, InsideEffect DEF OneExchange, InExchange
  <2> QED BY <2>1, <2>2
<1>6. ASSUME NEW p \in Callers, NEW reply \in Replies, ReplyOk(p, reply)
      PROVE  Brought'
  <2> DEFINE c == Exchanged(work[p].old, reply, ntok + 1)
  <2>1. InsideExchange(p) /\ ntok + 1 \in 0..MaxTok /\ ntok' = ntok + 1 /\ rejected' = rejected
    BY <1>6, MaxTokAssumption DEF InsideExchange, ReplyOk
  <2>2. \A q \in Callers : q # p => pc'[q] # "settle"
    BY <2>1, InsideEffect DEF OneExchange, InExchange
  <2>3. work'[p].fresh = c /\ work'[p].old = work[p].old
    BY <1>6 DEF ReplyOk, Ends, Work
  <2>4. /\ c \in Cred /\ c.tok = ntok + 1 /\ c.login = work[p].old.login
        /\ c.rt = ntok + 1 \/ c.rt = work[p].old.rt
    BY <1>2, <2>1, ExchangedType
  <2>5. Issued(work[p].old, ntok) /\ work[p].old.tok # 0
    BY <1>6 DEF ReplyOk, At, Exchanging, InExchange
  <2> HIDE DEF c
  <2>6. Issued(c, ntok')
    BY <1>1, <1>2, <2>1, <2>4, <2>5 DEF Issued, Cred
  <2>7. c.tok \notin rejected
    BY <2>1, <2>4, <1>1 DEF Counted, Toks
  <2> QED BY <2>1, <2>2, <2>3, <2>4, <2>6, <2>7
<1>7. ASSUME NEW p \in Callers, Settled(p)
      PROVE  Brought'
  <2>1. CASE \A q \in Callers : pc'[q] \notin {"send", "reply", "settle", "quarantine"}
    BY <2>1
  <2>2. CASE pc' = [pc EXCEPT ![p] = "quarantine"] /\ UNCHANGED <<work, rejected, ntok>>
    BY <2>2
  <2> QED BY <1>7, <2>1, <2>2, SettledEffect
<1>8. CASE PublishLogin
  BY <1>1, <1>2, <1>8 DEF PublishLogin, callVars
<1>9. CASE Kill \/ PowerLoss
  BY <1>9 DEF Kill, PowerLoss, ProcessGone
<1>10. CASE Restart \/ Cancel \/ Age \/ BackoffEnds \/ UNCHANGED vars
  BY <1>10 DEF Restart, Cancel, Age, BackoffEnds, callVars, vars
<1> QED BY <1>3, <1>4, <1>5, <1>6, <1>7, <1>8, <1>9, <1>10, NextCases

\* A login bumps the generation, so what is settled into memory or onto disk
\* always belongs to the login that memory already holds.
LEMMA NoStaleOverwriteStep ==
    ASSUME IInv, [Next]_vars
    PROVE  NoStaleOverwrite'
<1> USE DEF IInv, TypeOK, NoStaleOverwrite, procVars, diskVars
<1>1. disk.login \in Nat /\ owner \in Nat /\ ntok \in Nat
  BY MaxTokAssumption DEF Cred
<1>2. ASSUME NEW p \in Callers, Call(p) \/ Return(p) \/ Wait(p) \/ WaitCancelled(p)
      PROVE  NoStaleOverwrite'
  BY <1>2, OutsideEffect DEF histVars
<1>3. ASSUME NEW p \in Callers, Fence(p)
      PROVE  NoStaleOverwrite'
  <2>1. PICK result \in Reg!Results : Reg!Replace(Fenced(mem), result)
    BY <1>3 DEF Fence
  <2>2. up /\ up' = up /\ owner' = owner /\ (mem' = mem \/ mem' = Fenced(mem))
    BY <1>3 DEF Fence, At, histVars
  <2> QED BY <1>1, <2>1, <2>2, ReplaceEffect, FencedType
<1>4. ASSUME NEW p \in Callers, InsideExchange(p)
      PROVE  NoStaleOverwrite'
  BY <1>4, InsideEffect
<1>5. ASSUME NEW p \in Callers, SettleChanged(p) \/ SettleCancelled(p) \/ SettleUnknown(p)
      PROVE  NoStaleOverwrite'
  BY <1>5 DEF SettleChanged, SettleCancelled, SettleUnknown, histVars
<1>6. ASSUME NEW p \in Callers, SettleOk(p)
      PROVE  NoStaleOverwrite'
  <2>1. PICK result \in Reg!Results : Reg!Replace(work[p].fresh, result)
    BY <1>6 DEF SettleOk
  <2>2. mem = work[p].old /\ work[p].fresh.login = work[p].old.login
    BY <1>6 DEF SettleOk, Settling, At, Changed, Exchanging, InExchange, Brought
  <2>3. up /\ up' = up /\ owner' = owner /\ (mem' = mem \/ mem' = work[p].fresh)
    BY <1>6 DEF SettleOk, Settling, At, histVars
  <2> QED BY <1>1, <2>1, <2>2, <2>3, ReplaceEffect
<1>7. ASSUME NEW p \in Callers, SettleRejected(p)
      PROVE  NoStaleOverwrite'
  <2>1. PICK result \in Reg!Results : Reg!Replace(Invalidated(work[p].old), result)
    BY <1>7 DEF SettleRejected
  <2>2. mem = work[p].old /\ work[p].old \in Cred
    BY <1>7 DEF SettleRejected, Settling, At, Changed, Exchanging, InExchange, Work
  <2>3. up /\ up' = up /\ owner' = owner /\ mem' = mem
    BY <1>7 DEF SettleRejected, Settling, At
  <2> QED BY <1>1, <2>1, <2>2, <2>3, ReplaceEffect, InvalidatedType
<1>8. ASSUME NEW p \in Callers, Quarantine(p)
      PROVE  NoStaleOverwrite'
  <2>1. PICK result \in Reg!Results : Reg!Replace(NoCred, result)
    BY <1>8 DEF Quarantine
  <2> QED BY <1>8, <2>1, ReplaceEffect DEF Quarantine, At
<1>9. CASE PublishLogin
  <2> DEFINE c == NewLogin(ntok + 1)
  <2>1. PICK result \in Reg!Results, readable \in BOOLEAN :
          /\ Reg!Replace(c, result)
          /\ IF result = "ok" \/ (readable /\ disk' = c)
             THEN mem' = c /\ owner' = c.login
             ELSE UNCHANGED <<mem, owner>>
    BY <1>9 DEF PublishLogin
  <2>2. c.login = ntok + 1 /\ owner <= ntok /\ up /\ up' = up
    BY <1>9, <1>1, NewLoginType, MaxTokAssumption DEF PublishLogin, Counted
  <2> HIDE DEF c
  <2>3. CASE result = "ok" \/ (readable /\ disk' = c)
    BY <1>1, <2>1, <2>2, <2>3, ReplaceEffect
  <2>4. CASE ~(result = "ok" \/ (readable /\ disk' = c))
    BY <1>1, <2>1, <2>2, <2>4, ReplaceEffect
  <2> QED BY <2>3, <2>4
<1>10. CASE Kill \/ PowerLoss
  BY <1>10 DEF Kill, PowerLoss, ProcessGone
<1>11. CASE Restart
  BY <1>1, <1>11 DEF Restart
<1>12. CASE Cancel \/ Age \/ BackoffEnds \/ UNCHANGED vars
  BY <1>12 DEF Cancel, Age, BackoffEnds, histVars, vars
<1> QED
  BY <1>2, <1>3, <1>4, <1>5, <1>6, <1>7, <1>8, <1>9, <1>10, <1>11, <1>12, NextCases
     DEF Settled

\* A rejection is recorded in memory in the step that puts it on disk, and what
\* get writes afterwards is either still expired or newly issued.
LEMMA RejectedStep ==
    ASSUME IInv, [Next]_vars
    PROVE  RejectedStaysInvalid' /\ RejectedInMemory'
<1> USE DEF IInv, TypeOK, RejectedStaysInvalid, RejectedInMemory, procVars, diskVars
<1> DEFINE Good == RejectedStaysInvalid' /\ RejectedInMemory'
<1>1. ASSUME NEW p \in Callers, Call(p) \/ Return(p) \/ Wait(p) \/ WaitCancelled(p)
      PROVE  Good
  BY <1>1, OutsideEffect DEF histVars
<1>2. ASSUME NEW p \in Callers, Fence(p)
      PROVE  Good
  <2>1. PICK result \in Reg!Results : Reg!Replace(Fenced(mem), result)
    BY <1>2 DEF Fence
  <2>2. /\ up /\ rerr = "none" /\ UNCHANGED <<up, rerr, rejected>>
        /\ mem' = mem \/ mem' = Fenced(mem)
    BY <1>2 DEF Fence, At, NeedsRefresh, histVars
  <2> QED BY <2>1, <2>2, ReplaceEffect, FencedType
<1>3. ASSUME NEW p \in Callers, InsideExchange(p)
      PROVE  Good
  BY <1>3, InsideEffect
<1>4. ASSUME NEW p \in Callers, SettleChanged(p) \/ SettleCancelled(p)
      PROVE  Good
  BY <1>4 DEF SettleChanged, SettleCancelled, histVars
<1>5. ASSUME NEW p \in Callers, Settling(p), ~Changed(work[p].g)
      PROVE  /\ up /\ mem = work[p].old /\ rerr = "none"
             /\ work[p].old \in Cred /\ work[p].old.tok # 0
  BY <1>5 DEF Settling, At, Changed, Exchanging, InExchange, Work
<1>6. ASSUME NEW p \in Callers, SettleUnknown(p)
      PROVE  Good
  BY <1>5, <1>6 DEF SettleUnknown, histVars
<1>7. ASSUME NEW p \in Callers, SettleOk(p)
      PROVE  Good
  <2>1. PICK result \in Reg!Results : Reg!Replace(work[p].fresh, result)
    BY <1>7 DEF SettleOk
  <2>2. rerr = "none" /\ up /\ work[p].fresh.tok \notin rejected
    BY <1>5, <1>7 DEF SettleOk, Settling, At, Brought
  <2>3. UNCHANGED <<up, rejected>> /\ (mem' = mem \/ mem' = work[p].fresh)
    BY <1>7 DEF SettleOk, histVars
  <2> QED BY <2>1, <2>2, <2>3, ReplaceEffect
<1>8. ASSUME NEW p \in Callers, SettleRejected(p)
      PROVE  Good
  <2>1. PICK result \in Reg!Results :
          /\ Reg!Replace(Invalidated(work[p].old), result)
          /\ IF result = "ok" THEN /\ rerr' = "login"
                                   /\ rejected' = rejected \cup {work[p].old.tok}
                              ELSE UNCHANGED <<rerr, rejected>>
    BY <1>8 DEF SettleRejected
  <2>2. Invalidated(work[p].old).exp
    BY <1>5, <1>8, InvalidatedType DEF SettleRejected
  <2>3. rerr = "none" /\ UNCHANGED <<up, mem>>
    BY <1>5, <1>8 DEF SettleRejected
  <2>4. CASE result = "ok"
    BY <2>1, <2>2, <2>3, <2>4, ReplaceEffect
  <2>5. CASE result # "ok"
    BY <2>1, <2>2, <2>3, <2>5, ReplaceEffect
  <2> QED BY <2>4, <2>5
<1>9. ASSUME NEW p \in Callers, Quarantine(p)
      PROVE  Good
  <2>1. PICK result \in Reg!Results :
          /\ Reg!Replace(NoCred, result)
          /\ rejected' = IF result = "ok" THEN rejected \cup {work[p].old.tok} ELSE rejected
    BY <1>9 DEF Quarantine
  <2>2. rerr' = "login" /\ work[p].old.tok # 0 /\ 0 \notin rejected
    BY <1>9 DEF Quarantine, At, Exchanging, InExchange, Toks
  <2>3. NoCred.tok = 0
    BY DEF NoCred
  <2>4. NoCred.tok \notin rejected'
    BY <2>1, <2>2, <2>3
  <2>5. CASE result = "ok"
    BY <2>1, <2>2, <2>4, <2>5, ReplaceEffect
  <2>6. CASE result # "ok"
    BY <2>1, <2>2, <2>4, <2>6, ReplaceEffect
  <2> QED BY <2>5, <2>6
<1>10. CASE PublishLogin
  <2> DEFINE c == NewLogin(ntok + 1)
  <2>1. PICK result \in Reg!Results : Reg!Replace(c, result)
    BY <1>10 DEF PublishLogin
  <2>2. c.tok = ntok + 1 /\ ntok \in Nat
    BY <1>10, NewLoginType, MaxTokAssumption DEF PublishLogin
  <2>3. c.tok \notin rejected
    BY <2>2 DEF Counted
  <2>4. UNCHANGED <<up, rejected>> /\ (UNCHANGED <<mem, rerr>> \/ mem' = c)
    BY <1>10 DEF PublishLogin
  <2> HIDE DEF c
  <2> QED BY <2>1, <2>3, <2>4, ReplaceEffect
<1>11. CASE Kill \/ PowerLoss
  BY <1>11, PowerLossEffect DEF Kill, PowerLoss, ProcessGone, histVars
<1>12. CASE Restart
  BY <1>12 DEF Restart
<1>13. CASE Cancel \/ Age \/ BackoffEnds \/ UNCHANGED vars
  BY <1>13 DEF Cancel, Age, BackoffEnds, histVars, vars
<1> QED
  BY <1>1, <1>2, <1>3, <1>4, <1>6, <1>7, <1>8, <1>9, <1>10, <1>11, <1>12, <1>13, NextCases
     DEF Settled

-------------------------------------------------------------------------------
(* Theorems about every instance *)

LEMMA IInvInit == Init => IInv
<1> SUFFICES ASSUME Init PROVE IInv
  OBVIOUS
<1>1. 0 \in 0..MaxTok
  BY MaxTokAssumption
<1>2. TypeOK
  BY <1>1, NoCredType DEF Init, TypeOK, Places
<1>3. Counted /\ RejectedStaysInvalid /\ RejectedInMemory /\ NoStaleOverwrite
  BY DEF Init, Counted, Issued, RejectedStaysInvalid, RejectedInMemory,
         NoStaleOverwrite, NoCred
<1>4. Stopped /\ OneExchange /\ Exchanging /\ Brought
  BY DEF Init, Stopped, OneExchange, Exchanging, Brought, InExchange
<1> QED BY <1>2, <1>3, <1>4 DEF IInv

LEMMA IInvStep == IInv /\ [Next]_vars => IInv'
BY TypeStep, OneExchangeStep, CountedStep, ExchangingStep, BroughtStep,
   NoStaleOverwriteStep, RejectedStep
   DEF IInv

LEMMA Invariance == Spec => []IInv
BY IInvInit, IInvStep, PTL DEF Spec

\* Every variable of authManager, of the file and of the callers keeps its type.
THEOREM TypeCorrect == Spec => []TypeOK
BY Invariance, PTL DEF IInv

\* At most one exchange is in flight, and `refreshing` says so (get).
THEOREM SingleExchange == Spec => []OneExchange
BY Invariance, PTL DEF IInv

\* An exchange that a login has overtaken changes neither memory nor disk
\* (the generation that get compares, that callback increments).
THEOREM LoginNotOverwritten == Spec => []NoStaleOverwrite
BY Invariance, PTL DEF IInv

\* A rejection that get has put on disk is final for the API, across every crash,
\* power loss and restart.
THEOREM RejectionIsFinal == Spec => []RejectedStaysInvalid
BY Invariance, PTL DEF IInv

-------------------------------------------------------------------------------
(* What the API is served *)

\* While no error is recorded and no rejection is being written, the file has the
\* credential in memory, or a newer login that memory does not know about.
Served == up /\ MuFree /\ mem.tok # 0 /\ rerr = "none"
Own == disk.tok = mem.tok /\ disk.rt = mem.rt /\ disk.exp = mem.exp
Unknown == disk.login > owner /\ disk = NewLogin(disk.login)
ServedInv == Served => Own \/ Unknown

LEMMA ServedStep ==
    ASSUME IInv, ServedInv, [Next]_vars
    PROVE  ServedInv'
<1> USE DEF IInv, TypeOK, ServedInv, Served, Own, Unknown, procVars, diskVars
<1>1. ASSUME UNCHANGED <<up, mem, rerr, diskVars, owner>>, MuFree' => MuFree
      PROVE  ServedInv'
  BY <1>1
<1>2. ASSUME NEW p \in Callers, Call(p) \/ Return(p) \/ Wait(p) \/ WaitCancelled(p)
      PROVE  ServedInv'
  <2>1. MuFree' => MuFree
    BY <1>2 DEF Call, Return, Wait, WaitCancelled, MuFree, At, Goto
  <2> QED BY <1>1, <1>2, <2>1, OutsideEffect DEF histVars
<1>3. ASSUME NEW p \in Callers, Fence(p)
      PROVE  ServedInv'
  <2>1. PICK result \in Reg!Results : Reg!Replace(Fenced(mem), result)
    BY <1>3 DEF Fence
  <2>2. up /\ MuFree /\ UNCHANGED <<up, rerr, owner>> /\ (mem' = mem \/ mem' = Fenced(mem))
    BY <1>3 DEF Fence, At, histVars
  <2> QED BY <2>1, <2>2, ReplaceEffect, FencedType
<1>4. ASSUME NEW p \in Callers, InsideExchange(p)
      PROVE  ServedInv'
  <2>1. pc[p] \in {"send", "reply"}
    BY <1>4 DEF InsideExchange, RefuseLocally, SendFails, Send, ReplyRejected, ReplyMismatch,
                ReplyUnusable, ReplyCancelled, ReplyOk, At
  <2>2. MuFree' => MuFree
    BY <1>4, <2>1, InsideEffect DEF MuFree
  <2> QED BY <1>1, <1>4, <2>2, InsideEffect
<1>5. ASSUME NEW p \in Callers, SettleChanged(p) \/ SettleCancelled(p)
      PROVE  ServedInv'
  BY <1>1, <1>5 DEF SettleChanged, SettleCancelled, Settling, histVars
<1>6. ASSUME NEW p \in Callers, SettleUnknown(p) \/ Quarantine(p)
      PROVE  ServedInv'
  BY <1>6 DEF SettleUnknown, Quarantine
<1>7. ASSUME NEW p \in Callers, SettleOk(p)
      PROVE  ServedInv'
  <2>1. PICK result \in Reg!Results, readable \in BOOLEAN :
          /\ Reg!Replace(work[p].fresh, result)
          /\ IF result = "ok" \/ (readable /\ disk' = work[p].fresh)
             THEN mem' = work[p].fresh
             ELSE rerr' = "ambiguous"
    BY <1>7 DEF SettleOk
  <2>2. result = "ok" => disk' = work[p].fresh
    BY <2>1, ReplaceEffect
  <2> QED BY <2>1, <2>2
<1>8. ASSUME NEW p \in Callers, SettleRejected(p)
      PROVE  ServedInv'
  <2>1. rerr' = "login" \/ pc'[p] = "quarantine"
    BY <1>8 DEF SettleRejected, Goto
  <2> QED BY <2>1 DEF MuFree
<1>9. CASE PublishLogin
  <2> DEFINE c == NewLogin(ntok + 1)
  <2>1. PICK result \in Reg!Results, readable \in BOOLEAN :
          /\ Reg!Replace(c, result)
          /\ IF result = "ok" \/ (readable /\ disk' = c)
             THEN mem' = c /\ owner' = c.login
             ELSE UNCHANGED <<mem, rerr, owner>>
    BY <1>9 DEF PublishLogin
  <2>2. c.login = ntok + 1 /\ owner <= ntok /\ owner \in Nat /\ ntok \in Nat
    BY <1>9, NewLoginType, MaxTokAssumption DEF PublishLogin, Counted
  <2>3. up /\ up' = up /\ MuFree
    BY <1>9 DEF PublishLogin
  <2>6. c = NewLogin(c.login)
    BY <2>2
  <2> HIDE DEF c
  <2>4. CASE result = "ok" \/ (readable /\ disk' = c)
    BY <2>1, <2>4, ReplaceEffect
  <2>5. CASE ~(result = "ok" \/ (readable /\ disk' = c))
    <3>1. UNCHANGED <<mem, rerr, owner>> /\ (disk' = disk \/ disk' = c)
      BY <2>1, <2>5, ReplaceEffect
    <3>2. CASE disk' = c
      BY <2>2, <2>6, <3>1, <3>2
    <3>3. CASE disk' = disk
      BY <2>3, <3>1, <3>3
    <3> QED BY <3>1, <3>2, <3>3
  <2> QED BY <2>4, <2>5
<1>10. CASE Kill \/ PowerLoss
  BY <1>10 DEF Kill, PowerLoss, ProcessGone
<1>11. CASE Restart
  BY <1>11 DEF Restart
<1>12. CASE Cancel \/ Age \/ BackoffEnds \/ UNCHANGED vars
  BY <1>1, <1>12 DEF Cancel, Age, BackoffEnds, histVars, callVars, vars, MuFree
<1> QED
  BY <1>2, <1>3, <1>4, <1>5, <1>6, <1>7, <1>8, <1>9, <1>10, <1>11, <1>12, NextCases
     DEF Settled

\* When startLogin says already_logged_in, the API reads that very credential, or
\* the newer login that callback has put in place and reported as not saved.
THEOREM LoggedInIsServed == Spec => []AlreadyLoggedInIsServed
<1>1. Init => ServedInv
  BY DEF Init, ServedInv, Served, NoCred
<1>2. IInv /\ ServedInv /\ [Next]_vars => ServedInv'
  BY ServedStep
<1>3. ServedInv => AlreadyLoggedInIsServed
  BY DEF ServedInv, Served, Own, Unknown, AlreadyLoggedInIsServed, LoggedIn, Expired
<1> QED BY <1>1, <1>2, <1>3, Invariance, PTL DEF Spec

-------------------------------------------------------------------------------
(* The refresh loop *)

\* Callers share one context, and upstream does not answer for another UserID.
ServiceAssumption == InService /\ "mismatch" \notin Replies

LEMMA SharedContextStep ==
    ASSUME ServiceAssumption, IInv, SharedContext, [Next]_vars
    PROVE  SharedContext'
<1> USE DEF ServiceAssumption, IInv, TypeOK, SharedContext
<1>1. ASSUME NEW p \in Callers, Call(p) \/ Return(p) \/ Wait(p) \/ WaitCancelled(p)
      PROVE  ctxDone' = ctxDone
  BY <1>1, OutsideEffect
<1>2. ASSUME NEW p \in Callers, Fence(p) \/ InsideExchange(p) \/ Settled(p)
      PROVE  ctxDone' = ctxDone
  BY <1>2, InsideEffect, SettledEffect DEF Fence
<1>3. CASE Cancel
  BY <1>3 DEF Cancel
<1>4. CASE Kill \/ PowerLoss
  <2>1. ctxDone' = [q \in Callers |-> FALSE]
    BY <1>4 DEF Kill, PowerLoss, ProcessGone
  <2> QED BY <2>1
<1>5. CASE PublishLogin \/ Restart \/ Age \/ BackoffEnds \/ UNCHANGED vars
  BY <1>5 DEF PublishLogin, Restart, Age, BackoffEnds, callVars, vars
<1> QED BY <1>1, <1>2, <1>3, <1>4, <1>5, NextCases

\* A caller that decides to fence holds a refresh token that was never sent.
LEMMA UnspentAtFence ==
    ASSUME IInv, SharedContext, UnspentInMemory, NEW p \in Callers, Fence(p), ~ctxDone[p]
    PROVE  mem.rt \notin maybeSpent
BY DEF IInv, TypeOK, OneExchange, SharedContext, UnspentInMemory, Fence, At, NeedsRefresh

LEMMA UnspentInHandStep ==
    ASSUME ServiceAssumption, ServiceInv, [Next]_vars
    PROVE  UnspentInHand'
<1> USE DEF ServiceInv, IInv, TypeOK, Places, UnspentInHand
<1>1. ASSUME NEW p \in Callers, Call(p) \/ Return(p) \/ Wait(p) \/ WaitCancelled(p)
      PROVE  UnspentInHand'
  BY <1>1, OutsideEffect DEF ServiceAssumption, histVars
<1>2. ASSUME NEW p \in Callers, Fence(p)
      PROVE  UnspentInHand'
  <2>1. \A q \in Callers : ~InExchange(q)
    BY <1>2 DEF Fence, OneExchange
  <2>2. UNCHANGED <<ctxDone, maybeSpent>>
    BY <1>2 DEF Fence, histVars
  <2>3. \/ \A q \in Callers : pc'[q] \notin {"send", "settle"}
        \/ /\ pc' = [pc EXCEPT ![p] = "send"]
           /\ work'[p].old = Fenced(mem)
    BY <1>2, <2>1 DEF Fence, Goto, InExchange
  <2>4. ~ctxDone[p] => Fenced(mem).rt \notin maybeSpent
    BY <1>2, FencedType, UnspentAtFence
  <2> QED BY <2>1, <2>2, <2>3, <2>4 DEF InExchange
<1>3. ASSUME NEW p \in Callers, InsideExchange(p)
      PROVE  UnspentInHand'
  <2>1. /\ \A q \in Callers : q # p => pc'[q] \notin {"send", "settle"}
        /\ ctxDone' = ctxDone /\ work'[p].old = work[p].old
    BY <1>3, InsideEffect DEF OneExchange, InExchange
  <2>2. ASSUME NEW out, NEW fresh, Ends(p, out, fresh)
        PROVE  work'[p].out = out /\ work'[p].fresh = fresh /\ pc'[p] = "settle"
    BY <2>2 DEF Ends, Goto, Work
  <2>3. CASE RefuseLocally(p)
    BY <2>1, <2>2, <2>3 DEF RefuseLocally, At, histVars
  <2>4. CASE SendFails(p) \/ ReplyUnusable(p) \/ ReplyCancelled(p)
    BY <2>1, <2>2, <2>4 DEF SendFails, ReplyUnusable, ReplyCancelled
  <2>5. CASE Send(p)
    BY <2>1, <2>5 DEF Send, Goto
  <2>6. CASE ReplyRejected(p)
    BY <2>1, <2>2, <2>6 DEF ReplyRejected, Goto
  <2>7. ASSUME NEW reply \in Replies, ReplyOk(p, reply)
        PROVE  UnspentInHand'
    <3>1. ntok + 1 \in 0..MaxTok /\ work[p].old \in Cred /\ ntok \in Nat
      BY <2>7, MaxTokAssumption DEF ReplyOk, Work
    <3>2. work'[p].out = "ok" /\ work'[p].fresh = Exchanged(work[p].old, reply, ntok + 1)
      BY <2>2, <2>7 DEF ReplyOk
    <3>3. ntok + 1 \notin maybeSpent
      BY <3>1 DEF Counted
    <3>4. CASE reply = "rotated"
      <4>1. work'[p].fresh.rt = ntok + 1 /\ maybeSpent' = maybeSpent
        BY <2>7, <3>1, <3>2, <3>4, ExchangedType DEF ReplyOk
      <4> QED BY <2>1, <2>2, <2>7, <3>2, <3>3, <4>1 DEF ReplyOk
    <3>5. CASE reply = "kept"
      <4>1. work'[p].fresh.rt = work[p].old.rt /\ work[p].old.rt \notin maybeSpent'
        BY <2>7, <3>1, <3>2, <3>5, ExchangedType DEF ReplyOk
      <4> QED BY <2>1, <2>2, <2>7, <3>2, <4>1 DEF ReplyOk
    <3> QED BY <2>7, <3>4, <3>5 DEF ReplyOk
  <2>8. ~ReplyMismatch(p)
    BY DEF ServiceAssumption, ReplyMismatch
  <2> QED BY <1>3, <2>3, <2>4, <2>5, <2>6, <2>7, <2>8 DEF InsideExchange
<1>4. ASSUME NEW p \in Callers, Settled(p)
      PROVE  UnspentInHand'
  BY <1>4, SettledEffect DEF OneExchange, InExchange
<1>5. CASE PublishLogin
  BY <1>5 DEF PublishLogin, callVars
<1>6. CASE Kill \/ PowerLoss
  BY <1>6 DEF Kill, PowerLoss, ProcessGone
<1>7. CASE Restart \/ Age \/ BackoffEnds \/ UNCHANGED vars
  BY <1>7 DEF Restart, Age, BackoffEnds, callVars, histVars, vars
<1>8. CASE Cancel
  BY <1>8 DEF ServiceAssumption, Cancel, histVars
<1> QED BY <1>1, <1>2, <1>3, <1>4, <1>5, <1>6, <1>7, <1>8, NextCases

\* Every write that drops the fence is of a refresh token that has not been spent.
LEMMA FenceStep ==
    ASSUME ServiceAssumption, ServiceInv, [Next]_vars
    PROVE  FenceCoversSpent' /\ FencedInFlight'
<1> DEFINE Good == FenceCoversSpent' /\ FencedInFlight'
<1> USE DEF ServiceInv, IInv, TypeOK, Places, FenceCoversSpent, FencedInFlight,
            procVars, diskVars
<1>1. ASSUME NEW p \in Callers, Call(p) \/ Return(p) \/ Wait(p) \/ WaitCancelled(p)
      PROVE  Good
  BY <1>1, OutsideEffect DEF histVars
<1>2. ASSUME NEW p \in Callers, Fence(p)
      PROVE  Good
  <2>1. PICK result \in Reg!Results :
          /\ Reg!Replace(Fenced(mem), result)
          /\ \/ /\ result = "ok"
                /\ pc' = [pc EXCEPT ![p] = "send"]
                /\ work'[p].old = Fenced(mem)
             \/ pc' = [pc EXCEPT ![p] = "idle"]
    BY <1>2 DEF Fence, FenceHolds, Goto
  <2>2. maybeSpent' = maybeSpent /\ \A q \in Callers : ~InExchange(q)
    BY <1>2 DEF Fence, OneExchange, histVars
  <2>3. \A d \in stable' : d \in stable \/ d = Fenced(mem)
    BY <2>1, ReplaceEffect
  <2>4. FenceCoversSpent'
    BY <2>2, <2>3, FencedType
  <2>5. FencedInFlight'
    BY <2>1, <2>2, ReplaceEffect, FencedType DEF InExchange
  <2> QED BY <2>4, <2>5
<1>3. ASSUME NEW p \in Callers, InsideExchange(p)
      PROVE  Good
  <2>1. /\ stable' = stable /\ work'[p].old = work[p].old
        /\ \A q \in Callers : q # p => pc'[q] \notin {"send", "reply"}
    BY <1>3, InsideEffect DEF OneExchange, InExchange
  <2>2. ASSUME NEW out, NEW fresh, Ends(p, out, fresh)
        PROVE  pc'[p] = "settle"
    BY <2>2 DEF Ends, Goto
  <2>3. CASE Send(p)
    BY <2>1, <2>3 DEF Send, At
  <2>4. CASE ReplyRejected(p)
    BY <2>1, <2>2, <2>4 DEF ReplyRejected, At
  <2>5. CASE RefuseLocally(p) \/ SendFails(p) \/ ReplyMismatch(p) \/ ReplyUnusable(p)
                \/ ReplyCancelled(p) \/ \E reply \in Replies : ReplyOk(p, reply)
    <3>1. maybeSpent' \subseteq maybeSpent
      BY <2>5 DEF RefuseLocally, SendFails, ReplyMismatch, ReplyUnusable, ReplyCancelled,
                  ReplyOk, histVars
    <3>2. pc'[p] = "settle"
      BY <2>2, <2>5 DEF RefuseLocally, SendFails, ReplyMismatch, ReplyUnusable,
                        ReplyCancelled, ReplyOk
    <3> QED BY <2>1, <3>1, <3>2
  <2> QED BY <1>3, <2>3, <2>4, <2>5 DEF InsideExchange
<1>4. ASSUME NEW p \in Callers, NEW c, NEW result, Reg!Replace(c, result),
             c.rt \notin maybeSpent, maybeSpent' = maybeSpent,
             \A q \in Callers : pc'[q] \notin {"send", "reply"}
      PROVE  Good
  BY <1>4, ReplaceEffect
<1>5. ASSUME NEW p \in Callers, Settled(p)
      PROVE  \A q \in Callers : pc'[q] \notin {"send", "reply"}
  <2>1. CASE \A q \in Callers : pc'[q] \notin {"send", "reply", "settle", "quarantine"}
    BY <2>1
  <2>2. CASE pc' = [pc EXCEPT ![p] = "quarantine"] /\ InExchange(p)
    BY <2>2 DEF OneExchange, InExchange
  <2> QED BY <1>5, <2>1, <2>2, SettledEffect
<1>6. ASSUME NEW p \in Callers, SettleChanged(p) \/ SettleCancelled(p) \/ SettleUnknown(p)
      PROVE  Good
  BY <1>5, <1>6 DEF Settled, SettleChanged, SettleCancelled, SettleUnknown, histVars
<1>7. ASSUME NEW p \in Callers, SettleOk(p)
      PROVE  Good
  <2>1. work[p].fresh.rt \notin maybeSpent /\ maybeSpent' = maybeSpent
    BY <1>7 DEF SettleOk, Settling, At, UnspentInHand, histVars
  <2> QED BY <1>4, <1>5, <1>7, <2>1 DEF Settled, SettleOk
<1>8. ASSUME NEW p \in Callers, SettleRejected(p)
      PROVE  Good
  <2>1. work[p].old.rt \notin maybeSpent /\ maybeSpent' = maybeSpent
    BY <1>8 DEF SettleRejected, Settling, At, UnspentInHand
  <2>2. Invalidated(work[p].old).rt \notin maybeSpent
    BY <2>1, InvalidatedType DEF Work
  <2> QED BY <1>4, <1>5, <1>8, <2>1, <2>2 DEF Settled, SettleRejected
<1>9. ASSUME NEW p \in Callers, Quarantine(p)
      PROVE  Good
  <2>1. NoCred.rt \notin maybeSpent /\ maybeSpent' = maybeSpent
    BY <1>9 DEF Quarantine, NoCred, Toks
  <2> QED BY <1>4, <1>5, <1>9, <2>1 DEF Settled, Quarantine
<1>10. CASE PublishLogin
  <2> DEFINE c == NewLogin(ntok + 1)
  <2>1. PICK result \in Reg!Results : Reg!Replace(c, result)
    BY <1>10 DEF PublishLogin
  <2>2. c.rt = ntok + 1 /\ ntok \in Nat
    BY <1>10, NewLoginType, MaxTokAssumption DEF PublishLogin
  <2>3. c.rt \notin maybeSpent /\ \A q \in Callers : InExchange(q) => work[q].old.rt # c.rt
    BY <2>2 DEF Counted, Exchanging, Issued
  <2>4. UNCHANGED <<maybeSpent, pc, work>>
    BY <1>10 DEF PublishLogin, callVars
  <2> HIDE DEF c
  <2>5. FenceCoversSpent'
    BY <2>1, <2>3, <2>4, ReplaceEffect
  <2>6. FencedInFlight'
    BY <2>1, <2>3, <2>4, ReplaceEffect DEF InExchange
  <2> QED BY <2>5, <2>6
<1>11. CASE Kill \/ PowerLoss
  BY <1>11, PowerLossEffect DEF Kill, PowerLoss, ProcessGone, histVars
<1>12. CASE Restart \/ Cancel \/ Age \/ BackoffEnds \/ UNCHANGED vars
  BY <1>12 DEF Restart, Cancel, Age, BackoffEnds, callVars, histVars, vars
<1> QED
  BY <1>1, <1>2, <1>3, <1>6, <1>7, <1>8, <1>9, <1>10, <1>11, <1>12, NextCases
     DEF Settled

\* What memory would send has not been spent; the fence hands that on to the next
\* process, which records an error for what it finds fenced.
LEMMA UnspentInMemoryStep ==
    ASSUME ServiceAssumption, ServiceInv, [Next]_vars
    PROVE  UnspentInMemory'
<1> USE DEF ServiceInv, IInv, TypeOK, UnspentInMemory, procVars
<1>1. ASSUME NEW p \in Callers, Call(p) \/ Return(p) \/ Wait(p) \/ WaitCancelled(p)
      PROVE  UnspentInMemory'
  <2>1. \A q \in Callers : InExchange(q) => pc'[q] = pc[q] /\ work'[q] = work[q]
    BY <1>1 DEF Call, Return, Wait, WaitCancelled, At, Goto, InExchange, callVars
  <2>2. UNCHANGED <<up, mem, rerr, gen, ctxDone, maybeSpent>>
    BY <1>1, OutsideEffect DEF ServiceAssumption, histVars
  <2> QED BY <2>1, <2>2 DEF InExchange
<1>2. ASSUME NEW p \in Callers, Fence(p)
      PROVE  UnspentInMemory'
  <2>1. ~ctxDone[p] => mem.rt \notin maybeSpent
    BY <1>2, UnspentAtFence
  <2>2. /\ UNCHANGED <<maybeSpent, ctxDone, rerr>>
        /\ mem' = mem \/ mem' = Fenced(mem)
    BY <1>2 DEF Fence, histVars
  <2> QED BY <2>1, <2>2, FencedType DEF SharedContext
<1>3. ASSUME NEW p \in Callers, InsideExchange(p)
      PROVE  UnspentInMemory'
  <2>1. up /\ InExchange(p) /\ InExchange(p)'
    BY ZenonT(30), <1>3, InsideEffect
       DEF InsideExchange, RefuseLocally, SendFails, Send, ReplyRejected, ReplyMismatch,
           ReplyUnusable, ReplyCancelled, ReplyOk, Ends, Goto, InExchange
  <2>2. UNCHANGED <<up, mem, rerr, gen, ctxDone>> /\ work'[p].g = work[p].g
    BY <1>3, InsideEffect
  <2>3. CASE work[p].g = gen
    BY <2>1, <2>2, <2>3
  <2>4. CASE work[p].g # gen
    <3>0. mem.rt # work[p].old.rt
      BY <2>1, <2>4 DEF Exchanging
    <3>1. mem.rt \in maybeSpent => rerr # "none" \/ \A q \in Callers : ctxDone[q]
      BY <2>1, <2>4 DEF OneExchange
    <3>2. mem.rt \in maybeSpent' => mem.rt \in maybeSpent \/ mem.rt = work[p].old.rt
      BY <1>3 DEF InsideExchange, RefuseLocally, SendFails, Send, ReplyRejected,
                  ReplyMismatch, ReplyUnusable, ReplyCancelled, ReplyOk, histVars
    <3> QED BY <2>2, <3>0, <3>1, <3>2
  <2> QED BY <2>3, <2>4
<1>4. ASSUME NEW p \in Callers, Settled(p), UNCHANGED mem
      PROVE  UnspentInMemory'
  <2>1. /\ up /\ InExchange(p)
        /\ UNCHANGED <<up, gen, ctxDone, maybeSpent>>
    BY <1>4, SettledEffect
  <2>2. CASE work[p].g # gen
    <3>1. mem.rt \in maybeSpent => rerr # "none" \/ \A q \in Callers : ctxDone[q]
      BY <2>1, <2>2 DEF OneExchange
    <3>2. rerr' # "none" \/ rerr' = rerr
      BY <1>4 DEF Settled, SettleChanged, SettleCancelled, SettleUnknown, SettleOk,
                  SettleRejected, Quarantine
    <3> QED BY <1>4, <2>1, <3>1, <3>2
  <2>3. CASE SettleCancelled(p)
    BY <1>4, <2>1, <2>3 DEF SettleCancelled, SharedContext
  <2>4. CASE SettleUnknown(p) \/ Quarantine(p)
    BY <2>4 DEF SettleUnknown, Quarantine
  <2>5. CASE SettleRejected(p)
    BY <1>4, <2>1, <2>5 DEF SettleRejected, Settling, At, UnspentInHand, Exchanging, Changed
  <2>6. CASE SettleOk(p)
    <3>1. PICK result \in Reg!Results, readable \in BOOLEAN :
            \/ mem' = work[p].fresh
            \/ rerr' = "ambiguous"
      BY <2>6 DEF SettleOk
    <3>2. work[p].fresh.rt \notin maybeSpent
      BY <2>6 DEF SettleOk, Settling, At, UnspentInHand
    <3> QED BY <2>1, <3>1, <3>2
  <2>7. CASE SettleChanged(p)
    BY <2>2, <2>7 DEF SettleChanged, Changed
  <2> QED BY <1>4, <2>3, <2>4, <2>5, <2>6, <2>7 DEF Settled
<1>5. ASSUME NEW p \in Callers, Settled(p), mem' # mem
      PROVE  UnspentInMemory'
  <2>1. SettleOk(p) /\ mem' = work[p].fresh /\ maybeSpent' = maybeSpent
    BY <1>5, SettledEffect
       DEF Settled, SettleChanged, SettleCancelled, SettleUnknown, SettleOk,
           SettleRejected, Quarantine
  <2>2. work[p].fresh.rt \notin maybeSpent
    BY <2>1 DEF SettleOk, Settling, At, UnspentInHand
  <2> QED BY <2>1, <2>2
<1>6. CASE PublishLogin
  <2>1. NewLogin(ntok + 1).rt \notin maybeSpent
    BY <1>6, NewLoginType, MaxTokAssumption DEF PublishLogin, Counted
  <2>2. /\ UNCHANGED <<up, pc, work, ctxDone, maybeSpent>>
        /\ mem' = NewLogin(ntok + 1) \/ UNCHANGED <<mem, gen, rerr>>
    BY <1>6 DEF PublishLogin, callVars
  <2> QED BY <2>1, <2>2 DEF InExchange
<1>7. CASE Kill \/ PowerLoss
  BY <1>7 DEF Kill, PowerLoss, ProcessGone
<1>8. CASE Restart
  <2>1. disk.rt \in maybeSpent => ErrOnLoad(disk) # "none"
    BY DEF FenceCoversSpent, ErrOnLoad
  <2> QED BY <1>8, <2>1 DEF Restart
<1>9. CASE Cancel
  BY <1>9 DEF ServiceAssumption, Cancel, InExchange, histVars
<1>10. CASE Age \/ BackoffEnds \/ UNCHANGED vars
  <2>1. UNCHANGED <<up, mem, rerr, gen, pc, work, ctxDone, maybeSpent>>
    BY <1>10 DEF Age, BackoffEnds, callVars, histVars, vars
  <2> QED BY <2>1 DEF InExchange
<1> QED BY <1>1, <1>2, <1>3, <1>4, <1>5, <1>6, <1>7, <1>8, <1>9, <1>10, NextCases

LEMMA NeverResentStep ==
    ASSUME ServiceAssumption, ServiceInv, [Next]_vars
    PROVE  UncertainNeverResent'
<1> USE DEF ServiceInv, UncertainNeverResent
<1>1. ASSUME NEW p \in Callers, Send(p)
      PROVE  UncertainNeverResent'
  <2>1. work[p].old.rt \notin maybeSpent
    BY <1>1 DEF Send, At, UnspentInHand
  <2> QED BY <1>1, <2>1 DEF Send
<1>2. CASE resent' = resent
  BY <1>2
<1> QED
  BY <1>1, <1>2
     DEF Next, Step, Environment, Call, Return, Wait, WaitCancelled, Fence, RefuseLocally,
         SendFails, ReplyOk, ReplyRejected, ReplyMismatch, ReplyUnusable, ReplyCancelled,
         SettleChanged, SettleCancelled, SettleOk, SettleUnknown, SettleRejected, Quarantine,
         PublishLogin, Cancel, Kill, PowerLoss, Restart, Age, BackoffEnds, histVars, vars

LEMMA ServiceInvariance ==
    ASSUME ServiceAssumption
    PROVE  Spec => []ServiceInv
<1>1. Init => ServiceInv
  <2>1. Init => FenceCoversSpent /\ UncertainNeverResent /\ UnspentInMemory
    BY DEF Init, FenceCoversSpent, UncertainNeverResent, UnspentInMemory
  <2>2. Init => SharedContext /\ FencedInFlight /\ UnspentInHand
    BY DEF Init, SharedContext, FencedInFlight, UnspentInHand
  <2> QED BY <2>1, <2>2, IInvInit DEF ServiceInv
<1>2. ServiceInv /\ [Next]_vars => ServiceInv'
  BY ServiceAssumption, IInvStep, SharedContextStep, FenceStep, UnspentInHandStep,
     UnspentInMemoryStep, NeverResentStep
     DEF ServiceInv
<1> QED BY <1>1, <1>2, PTL DEF Spec

\* In the service a refresh token that may have been spent is never sent again:
\* fence, refreshErr and the shared context of the refresh loop are enough, for
\* any number of calls, crashes, power losses and restarts.
THEOREM NeverResent ==
    ASSUME ServiceAssumption
    PROVE  Spec => []UncertainNeverResent
BY ServiceInvariance, PTL DEF ServiceInv

\* In the service every snapshot a power loss may leave fences what may be spent.
THEOREM FenceIsDurable ==
    ASSUME ServiceAssumption
    PROVE  Spec => []FenceCoversSpent
BY ServiceInvariance, PTL DEF ServiceInv

-------------------------------------------------------------------------------
(* The file, as Auth uses it, is the register of SnapshotRegister *)

\* No step of Auth touches the file but through Save and QuarantineRejected.
THEOREM FileIsRegister == Spec => Reg!Spec
<1>1. Init => Reg!Init
  BY NoCredType DEF Init, Reg!Init
<1>2. ASSUME IInv, [Next]_vars
      PROVE  [Reg!Next]_(Reg!regVars)
  <2> USE DEF IInv, TypeOK, Reg!Next, Reg!regVars
  <2>1. ASSUME NEW c \in Cred \cup {NoCred}, NEW result \in Reg!Results, Reg!Replace(c, result)
        PROVE  Reg!Next
    BY <2>1
  <2>2. \A q \in Callers : work[q].old \in Cred /\ work[q].fresh \in Cred
    BY <1>2 DEF Work
  <2>3. ASSUME NEW p \in Callers, Fence(p)
        PROVE  Reg!Next
    BY <1>2, <2>1, <2>3, FencedType DEF Fence
  <2>4. ASSUME NEW p \in Callers, SettleOk(p) \/ SettleRejected(p) \/ Quarantine(p)
        PROVE  Reg!Next
    BY <2>1, <2>2, <2>4, InvalidatedType DEF SettleOk, SettleRejected, Quarantine
  <2>5. CASE PublishLogin
    <3>1. NewLogin(ntok + 1) \in Cred
      BY <1>2, <2>5, NewLoginType, MaxTokAssumption DEF PublishLogin
    <3> QED BY <2>1, <2>5, <3>1 DEF PublishLogin
  <2>6. CASE PowerLoss
    BY <2>6 DEF PowerLoss
  <2>7. CASE UNCHANGED diskVars
    BY <2>7 DEF diskVars
  <2>8. \/ \E p \in Callers : Fence(p) \/ SettleOk(p) \/ SettleRejected(p) \/ Quarantine(p)
        \/ PublishLogin \/ PowerLoss \/ UNCHANGED diskVars
    BY <1>2
       DEF Next, Step, Environment, Call, Return, Wait, WaitCancelled, RefuseLocally,
           SendFails, Send, ReplyOk, ReplyRejected, ReplyMismatch, ReplyUnusable,
           ReplyCancelled, SettleChanged, SettleCancelled, SettleUnknown, Cancel, Kill,
           Restart, Age, BackoffEnds, vars
  <2> QED BY <2>3, <2>4, <2>5, <2>6, <2>7, <2>8
<1> QED BY <1>1, <1>2, Invariance, PTL DEF Spec, Reg!Spec
-------------------------------------------------------------------------------
(* What LoginFlow takes for granted of the refresh loop *)

\* What LoginFlow calls `usable`: startLogin need not begin an attempt.
Usable == up /\ mem.tok # 0 /\ rerr = "none" /\ ~Expired(mem)

\* LoginFlow's view: of a credential, the login it comes from.  The attempts, and those
\* who wait for them, are not seen from here.
Logins == {c.login : c \in stable}
LF == INSTANCE LoginFlow
          WITH cred <- owner, usable <- Usable, disk <- disk.login, stable <- Logins,
               MaxAttempts <- MaxTok, Cap <- 1, Clients <- {}, Callbacks <- {},
               pending <- {}, results <- <<>>, generation <- 0, bornIn <- <<>>, latest <- 0,
               expired <- {}, bpc <- <<>>, bid <- <<>>, cpc <- <<>>, cid <- <<>>,
               outcome <- <<>>, begun <- 0, claims <- <<>>, acked <- {}

\* A credential comes from a login.
Named(c) == c.tok # 0 => c.login # 0
NamedInv == Named(mem) /\ \A c \in stable : Named(c)

LEMMA NamedStep ==
    ASSUME IInv, NamedInv, [Next]_vars
    PROVE  NamedInv'
<1> USE DEF IInv, TypeOK, NamedInv, procVars, diskVars
<1>1. ASSUME NEW c \in Cred, NEW result, Reg!Replace(c, result), Named(c),
             mem' \in {mem, c}
      PROVE  NamedInv'
  BY <1>1, ReplaceEffect
<1>2. ASSUME NEW p \in Callers, Call(p) \/ Return(p) \/ Wait(p) \/ WaitCancelled(p)
      PROVE  NamedInv'
  BY <1>2, OutsideEffect
<1>3. ASSUME NEW p \in Callers, Fence(p)
      PROVE  NamedInv'
  <2>1. PICK result \in Reg!Results : Reg!Replace(Fenced(mem), result)
    BY <1>3 DEF Fence
  <2>2. mem' \in {mem, Fenced(mem)}
    BY <1>3 DEF Fence
  <2> QED BY <1>1, <2>1, <2>2, FencedType DEF Named
<1>4. ASSUME NEW p \in Callers, InsideExchange(p)
      PROVE  NamedInv'
  BY <1>4, InsideEffect
<1>5. ASSUME NEW p \in Callers, SettleChanged(p) \/ SettleCancelled(p) \/ SettleUnknown(p)
      PROVE  NamedInv'
  BY <1>5 DEF SettleChanged, SettleCancelled, SettleUnknown
<1>6. ASSUME NEW p \in Callers, SettleOk(p)
      PROVE  NamedInv'
  <2>1. PICK result \in Reg!Results : Reg!Replace(work[p].fresh, result)
    BY <1>6 DEF SettleOk
  <2>2. /\ mem = work[p].old /\ mem.tok # 0 /\ work[p].fresh.login = mem.login
        /\ work[p].fresh \in Cred
    BY <1>6 DEF SettleOk, Settling, At, Changed, Exchanging, InExchange, Brought, Work
  <2>3. mem' \in {mem, work[p].fresh}
    BY <1>6 DEF SettleOk
  <2> QED BY <1>1, <2>1, <2>2, <2>3 DEF Named
<1>7. ASSUME NEW p \in Callers, SettleRejected(p)
      PROVE  NamedInv'
  <2>1. PICK result \in Reg!Results : Reg!Replace(Invalidated(work[p].old), result)
    BY <1>7 DEF SettleRejected
  <2>2. mem = work[p].old /\ mem' = mem
    BY <1>7 DEF SettleRejected, Settling, At, Changed, Exchanging, InExchange
  <2> QED BY <1>1, <2>1, <2>2, InvalidatedType DEF Named
<1>8. ASSUME NEW p \in Callers, Quarantine(p)
      PROVE  NamedInv'
  <2>1. PICK result \in Reg!Results : Reg!Replace(NoCred, result)
    BY <1>8 DEF Quarantine
  <2>2. Named(NoCred) /\ mem' = mem
    BY <1>8 DEF Quarantine, Named, NoCred
  <2> QED BY <1>1, <2>1, <2>2, NoCredType
<1>9. CASE PublishLogin
  <2>1. PICK result \in Reg!Results : Reg!Replace(NewLogin(ntok + 1), result)
    BY <1>9 DEF PublishLogin
  <2>2. NewLogin(ntok + 1) \in Cred /\ Named(NewLogin(ntok + 1))
    BY <1>9, NewLoginType, MaxTokAssumption DEF PublishLogin, Named
  <2>3. mem' \in {mem, NewLogin(ntok + 1)}
    BY <1>9 DEF PublishLogin
  <2> QED BY <1>1, <2>1, <2>2, <2>3
<1>10. CASE Kill \/ PowerLoss
  <2>1. mem' = NoCred /\ \A c \in stable' : c \in stable
    BY <1>10, PowerLossEffect DEF Kill, PowerLoss, ProcessGone
  <2> QED BY <2>1 DEF Named, NoCred
<1>11. CASE Restart \/ Cancel \/ Age \/ BackoffEnds \/ UNCHANGED vars
  BY <1>11 DEF Restart, Cancel, Age, BackoffEnds, vars
<1> QED
  BY <1>2, <1>3, <1>4, <1>5, <1>6, <1>7, <1>8, <1>9, <1>10, <1>11, NextCases DEF Settled

\* There is a login while its token is exchanged.
OwnerInv == (\E p \in Callers : InExchange(p)) => owner # 0

\* The login that memory is of.
LEMMA OwnerNamed ==
    ASSUME IInv, NamedInv, up, mem.tok # 0
    PROVE  owner # 0 /\ mem.login = owner
BY DEF IInv, NoStaleOverwrite, NamedInv, Named

LEMMA OwnerStep ==
    ASSUME IInv, NamedInv, OwnerInv, [Next]_vars
    PROVE  OwnerInv'
<1>1. ASSUME NEW p \in Callers, Call(p) \/ Return(p) \/ Wait(p) \/ WaitCancelled(p)
      PROVE  OwnerInv'
  BY <1>1, OutsideEffect DEF OwnerInv, InExchange, histVars
<1>2. ASSUME NEW p \in Callers, Fence(p)
      PROVE  OwnerInv'
  BY <1>2, OwnerNamed DEF Fence, At, NeedsRefresh, OwnerInv, histVars
<1>3. ASSUME NEW p \in Callers, InsideExchange(p)
      PROVE  OwnerInv'
  BY <1>3, InsideEffect DEF OwnerInv
<1>4. ASSUME NEW p \in Callers, Settled(p)
      PROVE  OwnerInv'
  BY <1>4, SettledEffect DEF OwnerInv
<1>5. CASE PublishLogin
  <2>1. owner' = owner \/ owner' = NewLogin(ntok + 1).login
    BY <1>5 DEF PublishLogin
  <2>2. NewLogin(ntok + 1).login # 0
    BY <1>5, NewLoginType, MaxTokAssumption DEF PublishLogin, IInv, TypeOK
  <2> QED BY <1>5, <2>1, <2>2 DEF PublishLogin, callVars, OwnerInv, InExchange
<1>6. CASE Kill \/ PowerLoss
  BY <1>6 DEF Kill, PowerLoss, ProcessGone, OwnerInv, InExchange
<1>7. CASE Restart
  BY <1>7 DEF Restart, callVars, IInv, Stopped, OwnerInv, InExchange
<1>8. CASE Cancel \/ Age \/ BackoffEnds \/ UNCHANGED vars
  BY <1>8 DEF Cancel, Age, BackoffEnds, callVars, histVars, vars, OwnerInv, InExchange
<1> QED
  BY <1>1, <1>2, <1>3, <1>4, <1>5, <1>6, <1>7, <1>8, NextCases

\* A write of the refresh loop, as LoginFlow sees it.
LEMMA SeenAsRefresh ==
    ASSUME IInv, owner # 0, owner' = owner, uncertain' \in BOOLEAN,
           NEW c \in Cred, NEW result \in Reg!Results, Reg!Replace(c, result),
           c.login = owner \/ (c.login = 0 /\ ~Usable')
    PROVE  LF!RefreshSide
<1>1. LF!Reg!Replace(c.login, result)
  BY DEF Reg!Replace, Reg!regVars, LF!Reg!Replace, LF!Reg!regVars, Logins
<1>2. result \in LF!Reg!Results
  BY DEF Reg!Results, LF!Reg!Results
<1>3. Usable' \in BOOLEAN
  BY DEF Usable
<1> QED
  BY <1>1, <1>2, <1>3
     DEF LF!RefreshSide, LF!attemptVars, LF!browserVars, LF!cliVars, LF!histVars

\* A step that leaves the file alone.
LEMMA SeenAsTime ==
    ASSUME IInv, UNCHANGED <<diskVars, owner>>, uncertain' \in BOOLEAN,
           owner # 0 \/ UNCHANGED <<Usable, uncertain>>
    PROVE  LF!RefreshSide \/ UNCHANGED LF!credVars
<1>1. disk'.login = disk.login /\ Logins' = Logins
  BY DEF diskVars, Logins
<1>2. CASE owner # 0
  <2>1. LF!Reg!Replace(owner, "before")
    BY <1>1 DEF LF!Reg!Replace, LF!Reg!regVars
  <2>2. "before" \in LF!Reg!Results
    BY DEF LF!Reg!Results
  <2>3. Usable' \in BOOLEAN
    BY DEF Usable
  <2> QED
    BY <1>2, <2>1, <2>2, <2>3
       DEF LF!RefreshSide, LF!attemptVars, LF!browserVars, LF!cliVars, LF!histVars
<1>3. CASE UNCHANGED <<Usable, uncertain>>
  BY <1>1, <1>3 DEF LF!credVars
<1> QED
  BY <1>2, <1>3

\* Every step that is not a login's publication, nor the end or the start of the
\* process, is one that LoginFlow lets the refresh loop take.
RefreshAsAssumed ==
    [][PublishLogin \/ Kill \/ PowerLoss \/ Restart \/ LF!RefreshSide]_(LF!credVars)

\* The refresh loop does to the credential of the current login what LoginFlow assumes,
\* and nothing else: in memory and in the file, what get leaves is of that login, or the
\* file is moved away and startLogin begins an attempt.
THEOREM RefreshSideHolds == Spec => RefreshAsAssumed
<1>1. ASSUME IInv, NamedInv, OwnerInv, [Next]_vars
      PROVE  [PublishLogin \/ Kill \/ PowerLoss \/ Restart \/ LF!RefreshSide]_(LF!credVars)
  <2> DEFINE Good == LF!RefreshSide \/ UNCHANGED LF!credVars
  <2>1. mem \in Cred /\ uncertain \in BOOLEAN /\ \A p \in Callers : work[p] \in Work
    BY <1>1 DEF IInv, TypeOK
  <2>2. ASSUME NEW p \in Callers, Call(p) \/ Return(p) \/ Wait(p) \/ WaitCancelled(p)
        PROVE  Good
    <3>1. UNCHANGED <<up, mem, rerr, age, uncertain, owner, diskVars>>
      BY <1>1, <2>2, OutsideEffect DEF procVars, diskVars, envVars, histVars
    <3> QED BY <1>1, <2>1, <3>1, SeenAsTime DEF Usable, Expired
  <2>3. ASSUME NEW p \in Callers, InsideExchange(p)
        PROVE  Good
    <3>1. UNCHANGED <<uncertain, owner, diskVars>> /\ owner # 0
      BY <1>1, <2>3, InsideEffect DEF procVars, diskVars, OwnerInv
    <3> QED BY <1>1, <2>1, <3>1, SeenAsTime
  <2>4. ASSUME NEW p \in Callers, Fence(p)
        PROVE  Good
    <3>1. PICK result \in Reg!Results : Reg!Replace(Fenced(mem), result)
      BY <2>4 DEF Fence
    <3>2. owner # 0 /\ mem.login = owner /\ UNCHANGED <<owner, uncertain>>
      BY <1>1, <2>4, OwnerNamed DEF Fence, At, NeedsRefresh, histVars
    <3> QED BY <1>1, <2>1, <3>1, <3>2, FencedType, SeenAsRefresh
  <2>5. ASSUME NEW p \in Callers, SettleChanged(p) \/ SettleCancelled(p) \/ SettleUnknown(p)
        PROVE  Good
    <3>1. UNCHANGED <<uncertain, owner, diskVars>> /\ owner # 0
      BY <1>1, <2>5, SettledEffect
         DEF Settled, SettleChanged, SettleCancelled, SettleUnknown, OwnerInv
    <3> QED BY <1>1, <2>1, <3>1, SeenAsTime
  <2>6. ASSUME NEW p \in Callers, SettleOk(p)
        PROVE  Good
    <3>1. PICK result \in Reg!Results : Reg!Replace(work[p].fresh, result)
      BY <2>6 DEF SettleOk
    <3>2. up /\ mem = work[p].old /\ mem.tok # 0 /\ work[p].fresh.login = mem.login
      BY <1>1, <2>6 DEF SettleOk, Settling, At, Changed, IInv, Exchanging, InExchange, Brought
    <3>3. owner' = owner /\ uncertain' \in BOOLEAN
      BY <2>1, <2>6 DEF SettleOk, histVars
    <3>4. work[p].fresh \in Cred
      BY <2>1 DEF Work
    <3> QED BY <1>1, <3>1, <3>2, <3>3, <3>4, OwnerNamed, SeenAsRefresh
  <2>7. ASSUME NEW p \in Callers, SettleRejected(p)
        PROVE  Good
    <3>1. PICK result \in Reg!Results : Reg!Replace(Invalidated(work[p].old), result)
      BY <2>7 DEF SettleRejected
    <3>2. up /\ mem = work[p].old /\ mem.tok # 0
      BY <1>1, <2>7 DEF SettleRejected, Settling, At, Changed, IInv, Exchanging, InExchange
    <3>3. UNCHANGED <<owner, uncertain>>
      BY <2>7 DEF SettleRejected
    <3> QED BY <1>1, <2>1, <3>1, <3>2, <3>3, OwnerNamed, InvalidatedType, SeenAsRefresh
  <2>8. ASSUME NEW p \in Callers, Quarantine(p)
        PROVE  Good
    <3>1. PICK result \in Reg!Results : Reg!Replace(NoCred, result)
      BY <2>8 DEF Quarantine
    <3>2. owner # 0 /\ UNCHANGED <<owner, uncertain>> /\ ~Usable'
      BY <1>1, <2>8 DEF Quarantine, At, OwnerInv, InExchange, Usable
    <3>3. NoCred \in Cred /\ NoCred.login = 0
      BY NoCredType DEF NoCred
    <3> QED BY <1>1, <2>1, <3>1, <3>2, <3>3, SeenAsRefresh
  <2>9. CASE Cancel \/ BackoffEnds \/ UNCHANGED vars
    <3>1. UNCHANGED <<up, mem, rerr, age, uncertain, owner, diskVars>>
      BY <2>9 DEF Cancel, BackoffEnds, procVars, diskVars, envVars, histVars, vars
    <3> QED BY <1>1, <2>1, <3>1, SeenAsTime DEF Usable, Expired
  <2>10. CASE Age
    <3>1. UNCHANGED <<up, mem, uncertain, owner, diskVars>>
      BY <2>10 DEF Age, procVars, diskVars, histVars
    <3>2. owner # 0 \/ Usable' = Usable
      BY <1>1, <3>1, OwnerNamed DEF Usable
    <3> QED BY <1>1, <2>1, <3>1, <3>2, SeenAsTime
  <2> QED
    BY <1>1, <2>2, <2>3, <2>4, <2>5, <2>6, <2>7, <2>8, <2>9, <2>10, NextCases DEF Settled
<1>2. Init => NamedInv /\ OwnerInv
  BY DEF Init, NamedInv, Named, NoCred, OwnerInv, InExchange
<1>3. IInv /\ NamedInv /\ OwnerInv /\ [Next]_vars => NamedInv' /\ OwnerInv'
  BY NamedStep, OwnerStep
<1> QED BY <1>1, <1>2, <1>3, Invariance, PTL DEF Spec, RefreshAsAssumed
===============================================================================
