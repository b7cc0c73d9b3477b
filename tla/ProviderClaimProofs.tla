------------------------ MODULE ProviderClaimProofs ------------------------
(***************************************************************************)
(* What ProviderClaim guarantees for any providers, tokens and claims,     *)
(* whatever the providers answer and whether or not the directory sync may *)
(* fail.                                                                   *)
(*                                                                         *)
(* The argument: a provider sells an access URL once, so one claim at most *)
(* was answered with it (OneBuyer) and it is stored under that claim's     *)
(* provider only (AllVouched).  What replaces it, or loses it to a power   *)
(* cut, therefore takes it out of the store altogether, which is what the  *)
(* histories record (SavedIsKept).                                         *)
(***************************************************************************)
EXTENDS ProviderClaim, TLAPS

(* A claim has POSTed a token whose claim URL is under its provider's root. *)
Entered(c) ==
    /\ provider[c] \in Providers
    /\ token[c] \in Tokens
    /\ Origin[token[c]] = sees[c][provider[c]]

(* How far a claim, its POST and its answer are. *)
ProgressOf(c) ==
    /\ pc[c] \in {"idle", "asked"} => provider[c] = None /\ token[c] = None
    /\ pc[c] \in ({"posting", "answered", "saving", "saved", "claimed"} \union Failed) =>
          Entered(c)
    /\ c \in inflight =>
          pc[c] \in {"posting", "unreachable", "died"} /\ reply[c] = None /\ Entered(c)
    /\ reply[c] # None => pc[c] \notin {"idle", "asked", "refused"} /\ Entered(c)
    /\ reply[c] \in {"ok", "forbidden"} => url[token[c]] # None
    /\ pc[c] \in {"answered", "saving", "saved", "claimed"} => reply[c] = "ok"
    /\ pc[c] = "rejected" => reply[c] = "forbidden"
    /\ pc[c] \in {"saving", "saved", "claimed"} => url[token[c]] = sees[c][provider[c]]

Progress == \A c \in Claims : ProgressOf(c)

(* A token buys one answer. *)
OneBuyer ==
    \A c, d \in Claims :
        reply[c] = "ok" /\ reply[d] = "ok" /\ token[c] = token[d] => c = d

(* A claim was answered with this access URL, for this provider. *)
Vouched(p, t) ==
    \E c \in Claims :
        /\ provider[c] = p /\ token[c] = t /\ reply[c] = "ok"
        /\ sees[c][p] = Origin[t] /\ sees[c][p] = url[t]

AllVouched ==
    \A p \in Providers, t \in Tokens : t \in {store[p], durable[p]} => Vouched(p, t)

(* What a running server holds was vouched for, and is under its own roots. *)
ServingIsOwn ==
    serving # Stopped =>
        /\ trusted # None
        /\ \A p \in Configured : serving[p] # None
        /\ \A p \in Configured, t \in Tokens : serving[p] = t =>
              Vouched(p, t) /\ url[t] = trusted[p]

(* A saved access URL is in the store until another replaces it, and on    *)
(* the disk once it was reported and could sync.                           *)
SavedIsKept ==
    \A c \in Claims :
        /\ pc[c] = "saved" => store[provider[c]] = token[c] \/ token[c] \in replaced
        /\ pc[c] = "claimed" =>
              /\ store[provider[c]] = token[c] \/ token[c] \in replaced \union undone
              /\ token[c] \notin unsynced =>
                    \/ durable[provider[c]] = token[c]
                    \/ token[c] \in replaced \union undone

(* The claim whose POST bought an access URL, and who may yet have lost it. *)
Buyer(c, t) ==
    /\ token[c] = t
    /\ c \notin inflight
    /\ reply[c] # "forbidden"
    /\ pc[c] \in (Running \union Failed \union {"died"}) \ {"rejected"}

Accounted ==
    \A t \in Tokens : url[t] # None =>
        \/ t \in Held(store) \union replaced \union undone
        \/ \E c \in Claims : Buyer(c, t)

(* The inductive invariant. *)
Inv ==
    /\ TypeOK
    /\ Progress
    /\ OneBuyer
    /\ AllVouched
    /\ ServingIsOwn
    /\ SavedIsKept
    /\ Accounted

-----------------------------------------------------------------------------
(* Type correctness: no action takes a variable out of its type. *)
LEMMA TypeInit == Init => TypeOK
  BY DEF Init, TypeOK, Stores, NoUrls, Stopped

LEMMA TypeStep == Inv /\ [Next]_vars => TypeOK'
  <1> SUFFICES ASSUME Inv, [Next]_vars PROVE TypeOK'
    OBVIOUS
  <1> TypeOK /\ Progress
    BY DEF Inv
  <1> USE OriginAssumption, ConfiguredAssumption
  <1> USE DEF TypeOK, Stores, Replies, Running, Failed, Ended, outside, claimVars,
        serverVars, storeVars
  <1>1. ASSUME NEW c \in Claims, Start(c) PROVE TypeOK'
    BY <1>1 DEF Start, Goto
  <1>2. ASSUME NEW c \in Claims, RefuseStart(c) PROVE TypeOK'
    BY <1>2 DEF RefuseStart, Goto
  <1>3. ASSUME NEW c \in Claims, Post(c) PROVE TypeOK'
    BY <1>3 DEF Post, Goto, Enter
  <1>4. ASSUME NEW c \in Claims, RefuseToken(c) PROVE TypeOK'
    <2>1. pc' \in [Claims -> {"idle"} \union Running \union Ended] /\ inflight' = inflight
      BY <1>4 DEF RefuseToken, Goto
    <2>2. ASSUME NEW p \in Providers, NEW t \in Tokens, Enter(c, p, t) PROVE TypeOK'
      BY <2>1, <2>2 DEF Enter
    <2>3. CASE UNCHANGED <<outside, reply, sees, provider, token, serverVars, storeVars>>
      BY <2>1, <2>3
    <2> QED
      BY <1>4, <2>2, <2>3 DEF RefuseToken
  <1>5. ASSUME NEW c \in Claims, Timeout(c) PROVE TypeOK'
    BY <1>5 DEF Timeout, Goto
  <1>6. ASSUME NEW c \in Claims, Receive(c) PROVE TypeOK'
    BY <1>6 DEF Receive, Goto
  <1>7. ASSUME NEW c \in Claims, Validate(c) PROVE TypeOK'
    BY <1>7 DEF Validate, Goto
  <1>8. ASSUME NEW c \in Claims, Save(c) PROVE TypeOK'
    BY <1>8 DEF Save, Goto, Held, Progress, ProgressOf, Entered
  <1>9. ASSUME NEW c \in Claims, SaveFails(c) PROVE TypeOK'
    BY <1>9 DEF SaveFails, Goto
  <1>10. ASSUME NEW c \in Claims, Report(c) PROVE TypeOK'
    BY <1>10 DEF Report, Goto, Progress, ProgressOf, Entered
  <1>11. ASSUME NEW c \in Claims, Redeem(c) PROVE TypeOK'
    BY <1>11 DEF Redeem
  <1>12. ASSUME NEW c \in Claims, Die(c) PROVE TypeOK'
    BY <1>12 DEF Die
  <1>13. CASE ReadConfig
    BY <1>13 DEF ReadConfig
  <1>14. CASE StartServer
    BY <1>14 DEF StartServer
  <1>15. CASE StopServer
    BY <1>15 DEF StopServer, Stopped
  <1>16. CASE EditConfig
    BY <1>16 DEF EditConfig
  <1>17. CASE Writeback
    BY <1>17 DEF Writeback
  <1>18. CASE PowerCut
    BY <1>18 DEF PowerCut, Stopped, Held
  <1>19. CASE UNCHANGED vars
    BY <1>19 DEF vars
  <1> QED
    BY <1>1, <1>2, <1>3, <1>4, <1>5, <1>6, <1>7, <1>8, <1>9, <1>10, <1>11,
       <1>12, <1>13, <1>14, <1>15, <1>16, <1>17, <1>18, <1>19 DEF Next,
       Advance

(* Where a claim, its POST and its answer are. *)
LEMMA ProgressStep == Inv /\ [Next]_vars => Progress'
  <1> SUFFICES ASSUME Inv, [Next]_vars PROVE Progress'
    OBVIOUS
  <1> TypeOK /\ Progress
    BY DEF Inv
  <1> USE OriginAssumption, ConfiguredAssumption, NoneAssumption
  <1> USE DEF TypeOK, Stores, Replies, Running, Failed, Ended, outside, claimVars,
        serverVars, storeVars
  <1> USE DEF Progress, ProgressOf, Entered
  <1>1. ASSUME NEW c \in Claims, Start(c) PROVE Progress'
    BY <1>1 DEF Start, Goto
  <1>2. ASSUME NEW c \in Claims, RefuseStart(c) PROVE Progress'
    BY <1>2 DEF RefuseStart, Goto
  <1>3. ASSUME NEW c \in Claims, Post(c) PROVE Progress'
    <2> SUFFICES ASSUME NEW d \in Claims PROVE ProgressOf(d)'
      OBVIOUS
    <2>1. CASE d = c
      BY <1>3, <2>1 DEF Post, Goto, Enter
    <2>2. CASE d # c
      BY <1>3, <2>2 DEF Post, Goto, Enter
    <2> QED
      BY <2>1, <2>2
  <1>4. ASSUME NEW c \in Claims, RefuseToken(c) PROVE Progress'
    <2> SUFFICES ASSUME NEW d \in Claims PROVE ProgressOf(d)'
      OBVIOUS
    <2>1. CASE d = c
      BY <1>4, <2>1 DEF RefuseToken, Goto, Enter
    <2>2. CASE d # c
      BY <1>4, <2>2 DEF RefuseToken, Goto, Enter
    <2> QED
      BY <2>1, <2>2
  <1>5. ASSUME NEW c \in Claims, Timeout(c) PROVE Progress'
    BY <1>5 DEF Timeout, Goto
  <1>6. ASSUME NEW c \in Claims, Receive(c) PROVE Progress'
    <2> SUFFICES ASSUME NEW d \in Claims PROVE ProgressOf(d)'
      OBVIOUS
    <2>1. CASE d = c
      BY <1>6, <2>1 DEF Receive, Goto
    <2>2. CASE d # c
      BY <1>6, <2>2 DEF Receive, Goto
    <2> QED
      BY <2>1, <2>2
  <1>7. ASSUME NEW c \in Claims, Validate(c) PROVE Progress'
    BY <1>7 DEF Validate, Goto
  <1>8. ASSUME NEW c \in Claims, Save(c) PROVE Progress'
    BY <1>8 DEF Save, Goto
  <1>9. ASSUME NEW c \in Claims, SaveFails(c) PROVE Progress'
    BY <1>9 DEF SaveFails, Goto
  <1>10. ASSUME NEW c \in Claims, Report(c) PROVE Progress'
    BY <1>10 DEF Report, Goto
  <1>11. ASSUME NEW c \in Claims, Redeem(c) PROVE Progress'
    BY <1>11 DEF Redeem
  <1>12. ASSUME NEW c \in Claims, Die(c) PROVE Progress'
    BY <1>12 DEF Die
  <1>13. CASE ReadConfig
    BY <1>13 DEF ReadConfig
  <1>14. CASE StartServer
    BY <1>14 DEF StartServer
  <1>15. CASE StopServer
    BY <1>15 DEF StopServer
  <1>16. CASE EditConfig
    BY <1>16 DEF EditConfig
  <1>17. CASE Writeback
    BY <1>17 DEF Writeback
  <1>18. CASE PowerCut
    BY <1>18 DEF PowerCut
  <1>19. CASE UNCHANGED vars
    BY <1>19 DEF vars
  <1> QED
    BY <1>1, <1>2, <1>3, <1>4, <1>5, <1>6, <1>7, <1>8, <1>9, <1>10, <1>11,
       <1>12, <1>13, <1>14, <1>15, <1>16, <1>17, <1>18, <1>19 DEF Next,
       Advance

(* What a claim that has asked was told, and what was bought, stays. *)
LEMMA Stays ==
  ASSUME Inv, [Next]_vars
  PROVE  /\ \A c \in Claims : pc[c] \notin {"idle", "asked"} =>
               /\ provider'[c] = provider[c]
               /\ token'[c] = token[c]
               /\ sees'[c] = sees[c]
         /\ \A c \in Claims : reply[c] # None => reply'[c] = reply[c]
         /\ \A t \in Tokens : url[t] # None => url'[t] = url[t]
         /\ replaced \subseteq replaced' /\ undone \subseteq undone'
  <1> DEFINE Goal ==
         /\ \A c \in Claims : pc[c] \notin {"idle", "asked"} =>
               /\ provider'[c] = provider[c]
               /\ token'[c] = token[c]
               /\ sees'[c] = sees[c]
         /\ \A c \in Claims : reply[c] # None => reply'[c] = reply[c]
         /\ \A t \in Tokens : url[t] # None => url'[t] = url[t]
         /\ replaced \subseteq replaced' /\ undone \subseteq undone'
  <1> SUFFICES Goal
    OBVIOUS
  <1> TypeOK /\ Progress
    BY DEF Inv
  <1> USE OriginAssumption, ConfiguredAssumption, NoneAssumption
  <1> USE DEF TypeOK, Stores, Replies, Running, Failed, Ended, outside, claimVars,
        serverVars, storeVars
  <1>1. ASSUME NEW c \in Claims, Start(c) PROVE Goal
    BY <1>1 DEF Start, Goto
  <1>2. ASSUME NEW c \in Claims, RefuseStart(c) PROVE Goal
    BY <1>2 DEF RefuseStart, Goto
  <1>3. ASSUME NEW c \in Claims, Post(c) PROVE Goal
    BY <1>3 DEF Post, Goto, Enter
  <1>4. ASSUME NEW c \in Claims, RefuseToken(c) PROVE Goal
    BY <1>4 DEF RefuseToken, Goto, Enter
  <1>5. ASSUME NEW c \in Claims, Timeout(c) PROVE Goal
    BY <1>5 DEF Timeout, Goto
  <1>6. ASSUME NEW c \in Claims, Receive(c) PROVE Goal
    BY <1>6 DEF Receive, Goto
  <1>7. ASSUME NEW c \in Claims, Validate(c) PROVE Goal
    BY <1>7 DEF Validate, Goto
  <1>8. ASSUME NEW c \in Claims, Save(c) PROVE Goal
    BY <1>8 DEF Save, Goto
  <1>9. ASSUME NEW c \in Claims, SaveFails(c) PROVE Goal
    BY <1>9 DEF SaveFails, Goto
  <1>10. ASSUME NEW c \in Claims, Report(c) PROVE Goal
    BY <1>10 DEF Report, Goto
  <1>11. ASSUME NEW c \in Claims, Redeem(c) PROVE Goal
    BY <1>11 DEF Redeem, Progress, ProgressOf, Entered
  <1>12. ASSUME NEW c \in Claims, Die(c) PROVE Goal
    BY <1>12 DEF Die
  <1>13. CASE ReadConfig
    BY <1>13 DEF ReadConfig
  <1>14. CASE StartServer
    BY <1>14 DEF StartServer
  <1>15. CASE StopServer
    BY <1>15 DEF StopServer
  <1>16. CASE EditConfig
    BY <1>16 DEF EditConfig
  <1>17. CASE Writeback
    BY <1>17 DEF Writeback
  <1>18. CASE PowerCut
    BY <1>18 DEF PowerCut
  <1>19. CASE UNCHANGED vars
    BY <1>19 DEF vars
  <1> QED
    BY <1>1, <1>2, <1>3, <1>4, <1>5, <1>6, <1>7, <1>8, <1>9, <1>10, <1>11,
       <1>12, <1>13, <1>14, <1>15, <1>16, <1>17, <1>18, <1>19 DEF Next,
       Advance

(* What was vouched for stays vouched for. *)
LEMMA VouchedStays ==
  ASSUME Inv, [Next]_vars, NEW p \in Providers, NEW t \in Tokens, Vouched(p, t)
  PROVE  Vouched(p, t)'
  <1>1. PICK c \in Claims :
          /\ provider[c] = p /\ token[c] = t /\ reply[c] = "ok"
          /\ sees[c][p] = Origin[t] /\ sees[c][p] = url[t]
    BY DEF Vouched
  <1>2. pc[c] \notin {"idle", "asked"} /\ url[t] # None /\ reply[c] # None
    BY <1>1, NoneAssumption DEF Inv, TypeOK, Progress, ProgressOf, Replies
  <1> QED
    BY <1>1, <1>2, Stays DEF Vouched

(* Vouched for means stored by the only claim that was answered with it. *)
LEMMA OnePlace ==
  ASSUME Inv, NEW p \in Providers, NEW t, Vouched(p, t),
         NEW c \in Claims, reply[c] = "ok", token[c] = t
  PROVE  provider[c] = p
  BY DEF Inv, OneBuyer, Vouched

(* A token buys one answer. *)
LEMMA OneBuyerStep == Inv /\ [Next]_vars => OneBuyer'
  <1> SUFFICES ASSUME Inv, [Next]_vars PROVE OneBuyer'
    OBVIOUS
  <1> TypeOK /\ Progress /\ OneBuyer
    BY DEF Inv
  <1> USE OriginAssumption, ConfiguredAssumption, NoneAssumption
  <1> USE DEF TypeOK, Stores, Replies, Running, Failed, Ended, outside, claimVars,
        serverVars, storeVars
  <1> USE DEF OneBuyer
  <1>1. ASSUME NEW c \in Claims, Start(c) PROVE OneBuyer'
    BY <1>1 DEF Start, Goto
  <1>2. ASSUME NEW c \in Claims, RefuseStart(c) PROVE OneBuyer'
    BY <1>2 DEF RefuseStart, Goto
  <1>3. ASSUME NEW c \in Claims, Post(c) PROVE OneBuyer'
    BY <1>3 DEF Post, Goto, Enter, Progress, ProgressOf
  <1>4. ASSUME NEW c \in Claims, RefuseToken(c) PROVE OneBuyer'
    <2>1. reply' = reply /\ reply[c] = None
      BY <1>4 DEF RefuseToken, Goto, Enter, Progress, ProgressOf
    <2>2. \A d \in Claims : d # c => token'[d] = token[d]
      BY <1>4 DEF RefuseToken, Enter
    <2> QED
      BY <2>1, <2>2
  <1>5. ASSUME NEW c \in Claims, Timeout(c) PROVE OneBuyer'
    BY <1>5 DEF Timeout, Goto
  <1>6. ASSUME NEW c \in Claims, Receive(c) PROVE OneBuyer'
    BY <1>6 DEF Receive, Goto
  <1>7. ASSUME NEW c \in Claims, Validate(c) PROVE OneBuyer'
    BY <1>7 DEF Validate, Goto
  <1>8. ASSUME NEW c \in Claims, Save(c) PROVE OneBuyer'
    BY <1>8 DEF Save, Goto
  <1>9. ASSUME NEW c \in Claims, SaveFails(c) PROVE OneBuyer'
    BY <1>9 DEF SaveFails, Goto
  <1>10. ASSUME NEW c \in Claims, Report(c) PROVE OneBuyer'
    BY <1>10 DEF Report, Goto
  <1>11. ASSUME NEW c \in Claims, Redeem(c) PROVE OneBuyer'
    BY <1>11 DEF Redeem, Progress, ProgressOf, Entered
  <1>12. ASSUME NEW c \in Claims, Die(c) PROVE OneBuyer'
    BY <1>12 DEF Die
  <1>13. CASE ReadConfig
    BY <1>13 DEF ReadConfig
  <1>14. CASE StartServer
    BY <1>14 DEF StartServer
  <1>15. CASE StopServer
    BY <1>15 DEF StopServer
  <1>16. CASE EditConfig
    BY <1>16 DEF EditConfig
  <1>17. CASE Writeback
    BY <1>17 DEF Writeback
  <1>18. CASE PowerCut
    BY <1>18 DEF PowerCut
  <1>19. CASE UNCHANGED vars
    BY <1>19 DEF vars
  <1> QED
    BY <1>1, <1>2, <1>3, <1>4, <1>5, <1>6, <1>7, <1>8, <1>9, <1>10, <1>11,
       <1>12, <1>13, <1>14, <1>15, <1>16, <1>17, <1>18, <1>19 DEF Next,
       Advance

(* The only steps that touch the store. *)
LEMMA StoreSteps ==
  ASSUME [Next]_vars
  PROVE  \/ \E c \in Claims : Save(c) \/ Report(c)
         \/ Writeback
         \/ PowerCut
         \/ UNCHANGED storeVars
  BY DEF Next, Advance, vars, storeVars, Start, RefuseStart, Post, RefuseToken,
     Enter, Timeout, Receive, Validate, SaveFails, Redeem, Die, ReadConfig,
     StartServer, StopServer, EditConfig

(* Every stored access URL was vouched for. *)
LEMMA AllVouchedStep == Inv /\ [Next]_vars => AllVouched'
  <1> SUFFICES ASSUME Inv, [Next]_vars,
                      NEW p \in Providers, NEW t \in Tokens,
                      t \in {store'[p], durable'[p]}
               PROVE  Vouched(p, t)'
    BY DEF AllVouched
  <1> TypeOK /\ Progress /\ AllVouched
    BY DEF Inv
  <1>1. CASE t \in {store[p], durable[p]}
    BY <1>1, VouchedStays DEF AllVouched
  <1>2. CASE t \notin {store[p], durable[p]}
    <2>1. PICK c \in Claims : Save(c)
      BY <1>2, StoreSteps DEF Report, Writeback, PowerCut, storeVars
    <2>2. Entered(c) /\ reply[c] = "ok" /\ url[token[c]] = sees[c][provider[c]]
      BY <2>1 DEF Save, Goto, Progress, ProgressOf
    <2>3. provider[c] = p /\ token[c] = t
      BY <1>2, <2>1, <2>2 DEF Save, TypeOK, Stores, Entered
    <2>4. Vouched(p, t)
      BY <2>2, <2>3 DEF Vouched, Entered
    <2> QED
      BY <2>4, VouchedStays
  <1> QED
    BY <1>1, <1>2

(* What is stored in two places is stored in one. *)
LEMMA StoredOnce ==
  ASSUME Inv, NEW c \in Claims, pc[c] \in {"answered", "saving", "saved", "claimed"},
         NEW p \in Providers, token[c] \in {store[p], durable[p]}
  PROVE  p = provider[c]
  BY OnePlace DEF Inv, Progress, ProgressOf, Entered, AllVouched

(* A server uses only what was vouched for, under the roots it has read. *)
LEMMA ServingStep == Inv /\ [Next]_vars => ServingIsOwn'
  <1> SUFFICES ASSUME Inv, [Next]_vars, (serving # Stopped)'
               PROVE  /\ trusted' # None
                      /\ \A p \in Configured : serving'[p] # None
                      /\ \A p \in Configured, t \in Tokens : serving'[p] = t =>
                            Vouched(p, t)' /\ url'[t] = trusted'[p]
    BY DEF ServingIsOwn
  <1> TypeOK /\ AllVouched /\ ServingIsOwn
    BY DEF Inv
  <1> USE ConfiguredAssumption, NoneAssumption DEF TypeOK, Stores
  <1>1. CASE StartServer
    <2>1. ASSUME NEW p \in Configured, NEW t \in Tokens, serving'[p] = t
          PROVE  Vouched(p, t)' /\ url'[t] = trusted'[p]
      <3>1. t = store[p] /\ url[t] = trusted[p] /\ p \in Providers
        BY <1>1, <2>1 DEF StartServer
      <3>2. Vouched(p, t)
        BY <3>1 DEF AllVouched
      <3> QED
        BY <1>1, <3>1, <3>2, VouchedStays DEF StartServer, outside
    <2> QED
      BY <1>1, <2>1 DEF StartServer
  <1>2. CASE UNCHANGED serverVars /\ ~StartServer
    <2>1. ASSUME NEW p \in Configured, NEW t \in Tokens, serving'[p] = t
          PROVE  Vouched(p, t)' /\ url'[t] = trusted'[p]
      <3>1. Vouched(p, t) /\ url[t] = trusted[p] /\ p \in Providers
        BY <1>2, <2>1 DEF ServingIsOwn, serverVars, Stopped
      <3>2. url[t] # None
        BY <3>1, OriginAssumption DEF Vouched
      <3> QED
        BY <1>2, <3>1, <3>2, VouchedStays, Stays DEF serverVars
    <2> QED
      BY <1>2, <2>1 DEF ServingIsOwn, serverVars, Stopped
  <1>3. CASE ReadConfig
    BY <1>3 DEF ReadConfig, ServingIsOwn, Stopped
  <1>4. CASE StopServer
    BY <1>4 DEF StopServer, Stopped
  <1>5. CASE PowerCut
    BY <1>5 DEF PowerCut, Stopped
  <1> QED
    BY <1>1, <1>2, <1>3, <1>4, <1>5 DEF Next, Advance, vars, serverVars, Start,
       RefuseStart, Post, RefuseToken, Enter, Timeout, Receive, Validate, Save,
       SaveFails, Report, Redeem, Die, EditConfig, Writeback

(* A claim gets to "saved" and "claimed" by these steps only, and keeps what *)
(* it asked for.                                                             *)
LEMMA SavedSteps ==
  ASSUME Inv, [Next]_vars, NEW c \in Claims, pc'[c] \in {"saved", "claimed"}
  PROVE  /\ \/ pc[c] = "saving" /\ Save(c)
            \/ pc[c] = "saved" /\ pc'[c] = "claimed" /\ Report(c)
            \/ pc[c] = pc'[c]
         /\ provider'[c] = provider[c] /\ token'[c] = token[c]
         /\ Entered(c)
         /\ PowerCut => pc[c] = "claimed"
  <1>1. \/ pc[c] = "saving" /\ Save(c)
        \/ pc[c] = "saved" /\ pc'[c] = "claimed" /\ Report(c)
        \/ pc[c] = pc'[c]
    BY DEF Inv, TypeOK, Next, Advance, vars, claimVars, Goto, Start, RefuseStart,
       Post, RefuseToken, Enter, Timeout, Receive, Validate, Save, SaveFails,
       Report, Redeem, Die, ReadConfig, StartServer, StopServer, EditConfig,
       Writeback, PowerCut
  <1>2. pc[c] \in {"saving", "saved", "claimed"}
    BY <1>1
  <1>3. Entered(c)
    BY <1>2 DEF Inv, Progress, ProgressOf
  <1>4. PowerCut => pc[c] = "claimed"
    BY <1>2 DEF PowerCut, Running, Inv, TypeOK
  <1> QED
    BY <1>1, <1>2, <1>3, <1>4, Stays

(* What replaces an access URL takes it out of the store altogether. *)
LEMMA KeptUnlessReplaced ==
  ASSUME Inv, [Next]_vars, ~PowerCut,
         NEW c \in Claims, pc[c] \in {"saving", "saved", "claimed"},
         store[provider[c]] = token[c]
  PROVE  store'[provider[c]] = token[c] \/ token[c] \in replaced'
  <1> TypeOK /\ Progress /\ Entered(c)
    BY DEF Inv, Progress, ProgressOf
  <1>1. CASE \E d \in Claims : Save(d)
    <2>1. PICK d \in Claims : Save(d)
      BY <1>1
    <2>2. provider[d] \in Providers /\ token[d] \in Tokens
      BY <2>1 DEF Save, Goto, Progress, ProgressOf, Entered
    <2>3. CASE provider[d] # provider[c] \/ token[d] = token[c]
      BY <2>1, <2>2, <2>3 DEF Save, TypeOK, Stores, Entered
    <2>4. CASE provider[d] = provider[c] /\ token[d] # token[c]
      <3>1. \A p \in Providers : store'[p] # token[c]
        BY <2>1, <2>2, <2>4, StoredOnce DEF Save, TypeOK, Stores
      <3>2. DOMAIN store = Providers /\ DOMAIN store' = Providers
        BY <2>1 DEF Save, TypeOK, Stores
      <3>3. token[c] \in Held(store) /\ token[c] \notin Held(store')
        BY <3>1, <3>2, NoneAssumption DEF Held, Entered
      <3> QED
        BY <2>1, <3>3 DEF Save
    <2> QED
      BY <2>3, <2>4
  <1>2. CASE ~ \E d \in Claims : Save(d)
    BY <1>2, StoreSteps DEF Report, Writeback, storeVars
  <1> QED
    BY <1>1, <1>2

(* A saved access URL is in the store until another replaces it. *)
LEMMA SavedIsKeptStep == Inv /\ [Next]_vars => SavedIsKept'
  <1> SUFFICES ASSUME Inv, [Next]_vars, NEW c \in Claims,
                      pc'[c] \in {"saved", "claimed"}
               PROVE  /\ pc'[c] = "saved" =>
                            store'[provider[c]] = token[c] \/ token[c] \in replaced'
                      /\ pc'[c] = "claimed" =>
                            /\ \/ store'[provider[c]] = token[c]
                               \/ token[c] \in replaced' \union undone'
                            /\ token[c] \notin unsynced' =>
                                  \/ durable'[provider[c]] = token[c]
                                  \/ token[c] \in replaced' \union undone'
    BY SavedSteps DEF SavedIsKept
  <1> TypeOK /\ Progress /\ SavedIsKept /\ Entered(c)
    BY SavedSteps DEF Inv
  <1> USE NoneAssumption
  <1>1. CASE PowerCut
    <2>1. pc[c] = "claimed" /\ pc'[c] = "claimed"
      BY <1>1, SavedSteps
    <2>2. store' = durable /\ durable' = durable /\ replaced' = replaced
      BY <1>1 DEF PowerCut
    <2>3. CASE durable[provider[c]] = token[c] \/ token[c] \in replaced \union undone
      BY <2>1, <2>2, <2>3, Stays
    <2>4. CASE durable[provider[c]] # token[c] /\ token[c] \notin replaced \union undone
      <3>1. token[c] \in unsynced /\ store[provider[c]] = token[c]
        BY <2>1, <2>4 DEF SavedIsKept
      <3>2. \A p \in Providers : durable[p] # token[c]
        BY <2>1, <2>4, StoredOnce
      <3>3. DOMAIN store = Providers /\ DOMAIN durable = Providers
        BY DEF TypeOK, Stores
      <3>4. token[c] \in Held(store) /\ token[c] \notin Held(durable)
        BY <3>1, <3>2, <3>3 DEF Held, Entered
      <3>5. token[c] \in undone'
        BY <1>1, <3>1, <3>4 DEF PowerCut
      <3> QED
        BY <2>1, <3>5
    <2> QED
      BY <2>3, <2>4
  <1>2. CASE ~PowerCut
    <2>1. pc[c] \in {"saved", "claimed"} =>
            \/ store'[provider[c]] = token[c]
            \/ token[c] \in replaced'
            \/ pc[c] = "claimed" /\ token[c] \in undone'
      BY <1>2, KeptUnlessReplaced, Stays DEF SavedIsKept
    <2>2. CASE pc[c] = "saving" /\ Save(c)
      BY <2>2 DEF Save, Goto, TypeOK, Stores, Entered
    <2>3. CASE pc[c] = "saved" /\ pc'[c] = "claimed" /\ Report(c)
      BY <2>1, <2>3 DEF Report, SavedIsKept
    <2>4. CASE pc[c] = pc'[c]
      <3>1. pc[c] = "claimed" /\ token[c] \notin unsynced' =>
              \/ durable'[provider[c]] = token[c]
              \/ token[c] \in replaced' \union undone'
        <4>1. CASE durable' = durable /\ unsynced \subseteq unsynced'
          BY <4>1, Stays DEF SavedIsKept
        <4>2. CASE durable' = store /\ replaced' = replaced /\ undone' = undone
          BY <4>2 DEF SavedIsKept
        <4> QED
          BY <1>2, <4>1, <4>2, StoreSteps DEF Save, Report, Writeback, storeVars
      <3> QED
        BY <2>1, <2>4, <3>1
    <2> QED
      BY <2>2, <2>3, <2>4, SavedSteps
  <1> QED
    BY <1>1, <1>2

(* What was in the store is in it or in the histories, or its claim died    *)
(* before it could report.                                                 *)
LEMMA HeldIsRemembered ==
  ASSUME Inv, [Next]_vars, NEW t \in Tokens,
         t \in Held(store) \union replaced \union undone
  PROVE  \/ t \in (Held(store) \union replaced \union undone)'
         \/ \E c \in Claims : Buyer(c, t)'
  <1>1. CASE \E c \in Claims : Save(c)
    BY <1>1 DEF Save, Held
  <1>2. CASE PowerCut
    <2> SUFFICES ASSUME t \in Held(store), t \notin replaced \union undone
                 PROVE  \/ t \in (Held(store) \union replaced \union undone)'
                        \/ \E c \in Claims : Buyer(c, t)'
      BY Stays
    <2> TypeOK /\ Progress /\ SavedIsKept /\ AllVouched
      BY DEF Inv
    <2>1. PICK p \in Providers : store[p] = t
      BY DEF Held, TypeOK, Stores
    <2>2. PICK c \in Claims : provider[c] = p /\ token[c] = t /\ reply[c] = "ok"
      BY <2>1 DEF AllVouched, Vouched
    <2>3. c \notin inflight /\ pc[c] \notin {"idle", "asked", "refused", "rejected"}
      BY <2>2, NoneAssumption DEF Progress, ProgressOf, Replies
    <2>4. CASE pc[c] = "claimed"
      <3>1. CASE durable[p] = t
        BY <1>2, <2>1, <3>1, NoneAssumption DEF PowerCut, Held, TypeOK, Stores
      <3>2. CASE durable[p] # t
        <4>1. t \in unsynced
          BY <2>2, <2>4, <3>2 DEF SavedIsKept
        <4>2. t \notin Held(durable)
          BY <2>2, <2>4, <3>2, StoredOnce DEF Held, TypeOK, Stores
        <4> QED
          BY <1>2, <4>1, <4>2 DEF PowerCut
      <3> QED
        BY <3>1, <3>2
    <2>5. CASE pc[c] # "claimed"
      <3>1. Buyer(c, t)'
        BY <1>2, <2>2, <2>3, <2>5 DEF PowerCut, Buyer, Running, Failed, Ended, TypeOK
      <3> QED
        BY <3>1
    <2> QED
      BY <2>4, <2>5
  <1>3. CASE store' = store
    BY <1>3, Stays DEF Held
  <1> QED
    BY <1>1, <1>2, <1>3, StoreSteps DEF Report, Writeback, storeVars

(* A buyer stays one, or its access URL is in the store or the histories. *)
LEMMA BuyerStays ==
  ASSUME Inv, [Next]_vars, NEW t \in Tokens, NEW c \in Claims, Buyer(c, t)
  PROVE  \/ \E d \in Claims : Buyer(d, t)'
         \/ t \in (Held(store) \union replaced \union undone)'
  <1> TypeOK /\ Progress /\ SavedIsKept
    BY DEF Inv
  <1> USE NoneAssumption DEF TypeOK, Running, Failed
  <1>1. pc[c] \notin {"idle", "asked"}
    BY DEF Buyer, Progress, ProgressOf
  <1>2. token'[c] = token[c]
    BY <1>1, Stays
  <1>3. CASE Report(c)
    <2>1. provider[c] \in Providers /\ (store[provider[c]] = t \/ t \in replaced)
      BY <1>3 DEF Report, Goto, SavedIsKept, Progress, ProgressOf, Entered, Buyer
    <2>2. t \in Held(store) \union replaced
      BY <2>1 DEF Held, Stores
    <2> QED
      BY <2>2, HeldIsRemembered
  <1>4. CASE UNCHANGED <<inflight, reply, pc>>
    BY <1>2, <1>4 DEF Buyer
  <1>5. CASE PowerCut \/ \E d \in Claims : Die(d)
    BY <1>2, <1>5 DEF PowerCut, Die, Buyer
  <1>6. CASE \E d \in Claims : Redeem(d)
    BY <1>2, <1>6 DEF Redeem, Buyer
  <1>7. ASSUME NEW d \in Claims, Post(d)
        PROVE  Buyer(c, t)'
    BY <1>1, <1>2, <1>7 DEF Post, Goto, Enter, Buyer
  <1>8. ASSUME NEW d \in Claims, Start(d) \/ RefuseStart(d) \/ RefuseToken(d)
        PROVE  Buyer(c, t)'
    BY <1>1, <1>2, <1>8 DEF Start, RefuseStart, RefuseToken, Goto, Enter, Buyer
  <1>9. ASSUME NEW d \in Claims,
               Timeout(d) \/ Receive(d) \/ Validate(d) \/ Save(d) \/ SaveFails(d)
        PROVE  Buyer(c, t)'
    BY <1>2, <1>9 DEF Timeout, Receive, Validate, Save, SaveFails, Goto, Buyer
  <1>10. ASSUME NEW d \in Claims, d # c, Report(d)
         PROVE  Buyer(c, t)'
    BY <1>2, <1>10 DEF Report, Goto, Buyer
  <1> QED
    BY <1>3, <1>4, <1>5, <1>6, <1>7, <1>8, <1>9, <1>10 DEF Next, Advance, vars,
       claimVars, ReadConfig, StartServer, StopServer, EditConfig, Writeback

(* Every access URL that was bought is accounted for. *)
LEMMA AccountedStep == Inv /\ [Next]_vars => Accounted'
  <1> SUFFICES ASSUME Inv, [Next]_vars, NEW t \in Tokens, url'[t] # None
               PROVE  \/ t \in (Held(store) \union replaced \union undone)'
                      \/ \E c \in Claims : Buyer(c, t)'
    BY DEF Accounted
  <1> TypeOK /\ Progress /\ Accounted
    BY DEF Inv
  <1>1. CASE url[t] # None
    BY <1>1, BuyerStays, HeldIsRemembered DEF Accounted
  <1>2. CASE url[t] = None
    <2>1. PICK c \in Claims : Redeem(c)
      BY <1>2 DEF Next, Advance, vars, outside, Start, RefuseStart, Post,
         RefuseToken, Enter, Timeout, Receive, Validate, Save, SaveFails, Report,
         Die, ReadConfig, StartServer, StopServer, EditConfig, Writeback, PowerCut
    <2>2. token[c] = t
      BY <1>2, <2>1 DEF Redeem, TypeOK
    <2>3. Buyer(c, t)'
      BY <1>2, <2>1, <2>2, NoneAssumption DEF Redeem, Buyer, Progress, ProgressOf,
         TypeOK, Replies, Running, Failed
    <2> QED
      BY <2>3
  <1> QED
    BY <1>1, <1>2

-----------------------------------------------------------------------------
LEMMA InvInit == Init => Inv
  <1> SUFFICES ASSUME Init PROVE Inv
    OBVIOUS
  <1> USE NoneAssumption
  <1>1. TypeOK
    BY TypeInit
  <1>2. Progress /\ OneBuyer /\ SavedIsKept
    BY DEF Init, Progress, ProgressOf, OneBuyer, SavedIsKept, Replies, Failed
  <1>3. AllVouched /\ ServingIsOwn /\ Accounted
    BY DEF Init, AllVouched, ServingIsOwn, Accounted, NoUrls
  <1> QED
    BY <1>1, <1>2, <1>3 DEF Inv

LEMMA InvStep == Inv /\ [Next]_vars => Inv'
  BY TypeStep, ProgressStep, OneBuyerStep, AllVouchedStep, ServingStep,
     SavedIsKeptStep, AccountedStep DEF Inv

THEOREM Inductive == Spec => []Inv
  BY InvInit, InvStep, PTL DEF Spec

(* Every variable keeps its type, for any providers, tokens and claims. *)
THEOREM TypeCorrect == Spec => []TypeOK
  <1>1. Inv => TypeOK
    BY DEF Inv
  <1> QED
    BY <1>1, Inductive, PTL

(* What claim reported as claimed is in the store until a later claim for  *)
(* the same provider replaces it, unless the power is cut when its own     *)
(* directory sync has failed and none has worked since.                    *)
THEOREM ReportedIsStored == Spec => []ClaimedIsKept
  <1>1. Inv => ClaimedIsKept
    BY DEF Inv, SavedIsKept, ClaimedIsKept
  <1> QED
    BY <1>1, Inductive, PTL

(* No access URL a provider has sold is lost without a failure or a death  *)
(* that somebody saw; in particular, a 403 never hides one.                *)
THEOREM NothingSpentInSilence == Spec => []SpentIsAccountedFor
  <1>1. Inv => SpentIsAccountedFor
    BY DEF Inv, Accounted, Buyer, SpentIsAccountedFor
  <1> QED
    BY <1>1, Inductive, PTL

(* Every stored access URL was claimed for its provider, from that         *)
(* provider's root.                                                        *)
THEOREM StoredFromItsRoot == Spec => []StoredWasVouchedFor
  <1>1. Inv => StoredWasVouchedFor
    BY DEF Inv, TypeOK, Stores, AllVouched, Vouched, StoredWasVouchedFor
  <1> QED
    BY <1>1, Inductive, PTL

(* A running server uses, for each provider, an access URL claimed for it  *)
(* and under the root of the server's own config.                          *)
THEOREM ServedFromItsRoot == Spec => []ServedIsOwn
  <1>1. Inv => ServedIsOwn
    BY DEF Inv, TypeOK, ServingIsOwn, Vouched, ServedIsOwn
  <1> QED
    BY <1>1, Inductive, PTL
=============================================================================
