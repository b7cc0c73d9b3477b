-------------------------- MODULE AppTokensProofs --------------------------
(***************************************************************************)
(* What AppTokens guarantees for any keys, commands, claims and requests,  *)
(* whether or not the directory sync may fail.                             *)
(*                                                                         *)
(* The argument: a secret is in the store only at the key of the call that *)
(* minted it, so an update that takes it out takes it out everywhere       *)
(* (Provenance, Gone); nobody can take it out twice (ReplacedOnce); and    *)
(* what an update put in stays until somebody takes it out (Kept).  Both    *)
(* hold on the disk as well, once the update or a later one has synced; so  *)
(* a power cut undoes nothing but updates that could not.                  *)
(* Below, of the URLs an app holds: what quote leaves of a credential ends  *)
(* no part of a URL, so a client cuts it where it was put together.        *)
(***************************************************************************)
EXTENDS AppRegistry, ClientUrls, NamespacingProofs, TLAPS

(* Where an update is once its rename is done. *)
Past == {"saved", "released", "ok"}

(* The secret an update leaves in the store. *)
Minted(c) == IF op[c] = "revoke" THEN None ELSE c

(* What each kind of call is and where it can be. *)
Kinds ==
    /\ \A c \in Commands :
          /\ op[c] # "claim"
          /\ pc[c] \notin {"idle", "queued"} => op[c] # None /\ key[c] \in Keys
          /\ pc[c] # "queued"
    /\ \A q \in Claims :
          /\ op[q] \in {"claim", None}
          /\ pc[q] # "idle" => op[q] = "claim" /\ token[q] # None
          /\ pc[q] \in {"updating"} \union Past =>
                replaced[q] = token[q] /\ key[q] \in Keys /\ token[q] \in Commands
    /\ \A r \in Requests : pc[r] \in {"idle", "queued", "refused", "admitted", "lost"}

(* The lock is held exactly while its update runs. *)
HolderIsLocked ==
    \A c \in Updaters : holder = c <=> pc[c] \in {"updating", "saved"}

(* What an update is about to save is the current store and its own change. *)
DraftIsFresh ==
    \A c \in Updaters : pc[c] = "updating" =>
        /\ draft = [apps EXCEPT ![key[c]] = Minted(c)]
        /\ replaced[c] = apps[key[c]]

(* A secret is recognised at the key its call changed, and nowhere else. *)
Provenance ==
    \A k \in Keys, s \in Secrets : s \in {apps[k], durable[k]} =>
        pc[s] \in Past \union {"lost"} /\ key[s] = k /\ op[s] # "revoke"

(* What an update replaced had been saved before. *)
ReplacedWasSaved ==
    \A c \in Updaters : pc[c] \in {"updating"} \union Past /\ replaced[c] # None =>
        replaced[c] \in Secrets /\ pc[replaced[c]] \in Past \union {"lost"}

(* What an update took out is out, and on the disk too once it has synced. *)
Gone ==
    \A c \in Updaters : pc[c] \in Past /\ replaced[c] \notin undone \union {None} =>
        \A k \in Keys :
            /\ apps[k] # replaced[c]
            /\ pc[c] # "saved" /\ c \notin unsynced => durable[k] # replaced[c]

(* What an update put in is in until taken out, and on the disk once synced. *)
Kept ==
    \A c \in Updaters :
        pc[c] \in Past /\ op[c] # "revoke" /\ c \notin retired \union undone =>
            /\ apps[key[c]] = c
            /\ pc[c] # "saved" /\ c \notin unsynced => durable[key[c]] = c

(* No two updates take out the same secret. *)
ReplacedOnce ==
    \A c, d \in Updaters :
        /\ pc[c] \in {"updating"} \union Past
        /\ pc[d] \in {"updating"} \union Past
        /\ replaced[c] = replaced[d]
        /\ replaced[c] \notin undone \union {None}
        => c = d

(* Every secret reported dead was taken out by an update that ended well. *)
DeadWasReported ==
    \A s \in dead : s # None /\ \E c \in Updaters : pc[c] = "ok" /\ replaced[c] = s

(* Every secret handed out is that of an update that ended well. *)
KnownWasReported ==
    \A s \in known : pc[s] = "ok" /\ op[s] # "revoke"

(* A call that came with a dead secret is still holding it, or has failed. *)
LateIsNotServed ==
    /\ \A q \in late \intersect Claims :
          /\ pc[q] \in {"queued", "waiting", "refused", "error", "lost"}
          /\ pc[q] \in {"queued", "waiting"} => token[q] \in dead \ undone
    /\ \A r \in late \intersect Requests :
          /\ pc[r] \notin {"idle", "admitted"}
          /\ pc[r] = "queued" =>
                login[r][1] \in dead \ undone \/ login[r][2] \in dead \ undone

(* Both halves of an admitted login come from one claim. *)
AdmittedHoldsOneLogin ==
    \A r \in Requests :
        pc[r] = "admitted" => \E q \in Claims : login[r] = <<q, q>>

(* The inductive invariant. *)
Inv ==
    /\ TypeOK
    /\ Kinds
    /\ HolderIsLocked
    /\ DraftIsFresh
    /\ Provenance
    /\ ReplacedWasSaved
    /\ Gone
    /\ Kept
    /\ ReplacedOnce
    /\ DeadWasReported
    /\ KnownWasReported
    /\ LateIsNotServed
    /\ AdmittedHoldsOneLogin

-----------------------------------------------------------------------------
(* Type correctness: no action takes a variable out of its type. *)
LEMMA TypeInit == Init => TypeOK
  BY CallsDiffer DEF Init, TypeOK, callVars, history, Secrets, Updaters,
     Served, Ops, Stores, InUpdate, InFlight, Ended, Recognised, Taken,
     NoApps, Past, Minted

LEMMA TypeStep == Inv /\ [Next]_vars => TypeOK'
  <1> SUFFICES ASSUME Inv, [Next]_vars PROVE TypeOK'
    OBVIOUS
  <1> TypeOK /\ Kinds
    BY DEF Inv
  <1> USE CallsDiffer DEF TypeOK, callVars, history, Secrets, Updaters,
        Served, Ops, Stores, InUpdate, InFlight, Ended, Recognised, Taken,
        NoApps, Past, Minted
  <1>1. ASSUME NEW c \in Commands, BeginCommand(c) PROVE TypeOK'
    BY <1>1 DEF BeginCommand, Goto
  <1>2. ASSUME NEW c \in Commands, AppNew(c) PROVE TypeOK'
    BY <1>2 DEF AppNew, LockFree, Change, Refuse, Kinds
  <1>3. ASSUME NEW c \in Commands, AppRegen(c) PROVE TypeOK'
    BY <1>3 DEF AppRegen, LockFree, Change, Refuse, Kinds
  <1>4. ASSUME NEW c \in Commands, AppRevoke(c) PROVE TypeOK'
    BY <1>4 DEF AppRevoke, LockFree, Change, Refuse, Kinds
  <1>5. ASSUME NEW q \in Claims, SpendSetupToken(q) PROVE TypeOK'
    BY <1>5 DEF SpendSetupToken, LockFree, Change, Refuse
  <1>6. ASSUME NEW c \in Updaters, Fail(c) PROVE TypeOK'
    BY <1>6 DEF Fail, Unlock
  <1>7. ASSUME NEW c \in Updaters, Save(c) PROVE TypeOK'
    BY <1>7 DEF Save, Goto
  <1>8. ASSUME NEW c \in Updaters, Release(c) PROVE TypeOK'
    BY <1>8 DEF Release, Goto, Unlock
  <1>9. ASSUME NEW c \in Commands, Report(c) PROVE TypeOK'
    BY <1>9 DEF Report, HandOver, Goto
  <1>10. ASSUME NEW q \in Claims, Answer(q) PROVE TypeOK'
    BY <1>10 DEF Answer, HandOver, Goto
  <1>11. ASSUME NEW q \in Claims, ClaimArrives(q) PROVE TypeOK'
    BY <1>11 DEF ClaimArrives, Goto, Late
  <1>12. ASSUME NEW q \in Claims, DispatchClaim(q) PROVE TypeOK'
    BY <1>12 DEF DispatchClaim, Goto
  <1>13. ASSUME NEW q \in Claims, Disconnect(q) PROVE TypeOK'
    BY <1>13 DEF Disconnect, Goto
  <1>14. ASSUME NEW r \in Requests, RefuseNoCredentials(r) PROVE TypeOK'
    BY <1>14 DEF RefuseNoCredentials, Goto
  <1>15. ASSUME NEW r \in Requests, RequestArrives(r) PROVE TypeOK'
    BY <1>15 DEF RequestArrives, Goto, Late
  <1>16. ASSUME NEW r \in Requests, Authenticate(r) PROVE TypeOK'
    BY <1>16 DEF Authenticate, Goto, Matches
  <1>17. ASSUME NEW c \in Commands, Die(c) PROVE TypeOK'
    BY <1>17 DEF Die, End, Unlock
  <1>18. ASSUME ServerCrash PROVE TypeOK'
    BY <1>18 DEF ServerCrash, End, Unlock
  <1>19. ASSUME Writeback PROVE TypeOK'
    BY <1>19 DEF Writeback
  <1>20. ASSUME PowerCut PROVE TypeOK'
    <2>1. \A s \in UnsyncedSecrets : s \in Secrets
      BY DEF UnsyncedSecrets
    <2>2. undone' \subseteq Secrets /\ unsynced' \subseteq Updaters
      BY <1>20, <2>1 DEF PowerCut
    <2>3. pc' \in [Updaters \union Requests -> {"idle"} \union InFlight \union Ended]
      BY <1>20 DEF PowerCut, End
    <2> QED
      BY <1>20, <2>2, <2>3 DEF PowerCut
  <1>21. ASSUME UNCHANGED vars PROVE TypeOK'
    BY <1>21 DEF vars
  <1> HIDE DEF Inv, TypeOK
  <1>22. ASSUME NEW c \in Commands, BeginCommand(c) \/ CommandNext(c) \/ Fail(c) \/ Die(c)
         PROVE  TypeOK'
    BY <1>1, <1>2, <1>3, <1>4, <1>6, <1>7, <1>8, <1>9, <1>17, <1>22 DEF CommandNext
  <1>23. ASSUME NEW q \in Claims,
                ClaimArrives(q) \/ ClaimNext(q) \/ Fail(q) \/ Disconnect(q)
         PROVE  TypeOK'
    BY <1>5, <1>6, <1>7, <1>8, <1>10, <1>11, <1>12, <1>13, <1>23 DEF ClaimNext
  <1> QED
    BY <1>14, <1>15, <1>16, <1>18, <1>19, <1>20, <1>21, <1>22, <1>23 DEF Next

(* Inv is inductive. *)
LEMMA InvInit == Init => Inv
  <1> SUFFICES ASSUME Init PROVE Inv
    OBVIOUS
  <1> USE CallsDiffer DEF Init, Secrets, Updaters, Served, NoApps, Past
  <1>1. TypeOK
    BY TypeInit
  <1>2. Kinds
    BY DEF Kinds, Ops
  <1>3. HolderIsLocked
    BY DEF HolderIsLocked
  <1>4. DraftIsFresh
    BY DEF DraftIsFresh
  <1>5. Provenance
    BY DEF Provenance
  <1>6. ReplacedWasSaved
    BY DEF ReplacedWasSaved
  <1>7. Gone
    BY DEF Gone
  <1>8. Kept
    BY DEF Kept
  <1>9. ReplacedOnce
    BY DEF ReplacedOnce
  <1>10. DeadWasReported
    BY DEF DeadWasReported
  <1>11. KnownWasReported
    BY DEF KnownWasReported
  <1>12. LateIsNotServed
    BY DEF LateIsNotServed
  <1>13. AdmittedHoldsOneLogin
    BY DEF AdmittedHoldsOneLogin
  <1> QED
    BY <1>1, <1>2, <1>3, <1>4, <1>5, <1>6, <1>7, <1>8, <1>9, <1>10, <1>11,
       <1>12, <1>13 DEF Inv

(* Under each action, the parts it can disturb with the parts they need,   *)
(* and last the parts that only need themselves.                           *)
LEMMA InvStep == Inv /\ [Next]_vars => Inv'
  <1> SUFFICES ASSUME Inv, [Next]_vars PROVE Inv'
    OBVIOUS
  <1> TypeOK /\ TypeOK'
    BY TypeStep DEF Inv
  <1> USE CallsDiffer DEF Inv, TypeOK, callVars, history, Secrets, Updaters,
        Served, Ops, Stores, InUpdate, InFlight, Ended, Recognised, Taken,
        NoApps, Past, Minted
  <1>1. ASSUME NEW c \in Commands, BeginCommand(c) PROVE Inv'
    <2>1. Kinds'
      <3>1. PICK o \in Ops \ {"claim"}, k \in Keys :
               op' = [op EXCEPT ![c] = o] /\ key' = [key EXCEPT ![c] = k]
        BY <1>1 DEF BeginCommand
      <3> QED
        BY <1>1, <3>1 DEF BeginCommand, Goto, Kinds
    <2>2. HolderIsLocked' /\ DraftIsFresh' /\ Provenance'
      BY <1>1 DEF BeginCommand, Goto, HolderIsLocked, DraftIsFresh, Provenance
    <2>3. ReplacedWasSaved' /\ Gone' /\ Kept'
      BY <1>1 DEF BeginCommand, Goto, ReplacedWasSaved, Gone, Kept
    <2>4. ReplacedOnce' /\ DeadWasReported' /\ KnownWasReported'
      BY <1>1 DEF BeginCommand, Goto, ReplacedOnce, DeadWasReported,
         KnownWasReported
    <2>5. LateIsNotServed' /\ AdmittedHoldsOneLogin'
      BY <1>1 DEF BeginCommand, Goto, LateIsNotServed, AdmittedHoldsOneLogin
    <2> QED
      BY <2>1, <2>2, <2>3, <2>4, <2>5
  <1>2. ASSUME NEW c \in Commands, AppNew(c) PROVE Inv'
    <2>1. DraftIsFresh'
      BY <1>2 DEF AppNew, LockFree, Change, Refuse, HolderIsLocked,
         DraftIsFresh
    <2>2. Kinds' /\ HolderIsLocked' /\ Provenance'
      <3>1. Kinds'
        BY <1>2 DEF AppNew, LockFree, Change, Refuse, Kinds
      <3>2. HolderIsLocked'
        BY <1>2 DEF AppNew, LockFree, Change, Refuse, HolderIsLocked
      <3>3. Provenance'
        BY <1>2, SMTT(60) DEF AppNew, LockFree, Change, Refuse, Provenance
      <3> QED
        BY <3>1, <3>2, <3>3
    <2>3. ReplacedWasSaved' /\ Gone' /\ Kept'
      <3>1. ReplacedWasSaved'
        BY <1>2 DEF AppNew, LockFree, Change, Refuse, ReplacedWasSaved
      <3>2. Gone' /\ Kept'
        BY <1>2 DEF AppNew, LockFree, Change, Refuse, Gone, Kept
      <3> QED
        BY <3>1, <3>2
    <2>4. ReplacedOnce' /\ DeadWasReported' /\ KnownWasReported'
      <3>1. ReplacedOnce'
        BY <1>2 DEF AppNew, LockFree, Change, Refuse, ReplacedOnce
      <3>2. DeadWasReported' /\ KnownWasReported'
        BY <1>2 DEF AppNew, LockFree, Change, Refuse, DeadWasReported,
           KnownWasReported
      <3> QED
        BY <3>1, <3>2
    <2>5. LateIsNotServed' /\ AdmittedHoldsOneLogin'
      BY <1>2 DEF AppNew, LockFree, Change, Refuse, LateIsNotServed,
         AdmittedHoldsOneLogin
    <2> QED
      BY <2>1, <2>2, <2>3, <2>4, <2>5
  <1>3. ASSUME NEW c \in Commands, AppRegen(c) PROVE Inv'
    <2>1. DraftIsFresh'
      BY <1>3 DEF AppRegen, LockFree, Change, Refuse, HolderIsLocked,
         DraftIsFresh
    <2>2. ReplacedWasSaved'
      BY <1>3 DEF AppRegen, LockFree, Change, Refuse, Kinds, Provenance,
         ReplacedWasSaved
    <2>3. ReplacedOnce'
      BY <1>3 DEF AppRegen, LockFree, Change, Refuse, Kinds, HolderIsLocked,
         Gone, ReplacedOnce
    <2>4. Kinds' /\ HolderIsLocked' /\ Provenance'
      <3>1. Kinds'
        BY <1>3 DEF AppRegen, LockFree, Change, Refuse, Kinds
      <3>2. HolderIsLocked'
        BY <1>3 DEF AppRegen, LockFree, Change, Refuse, HolderIsLocked
      <3>3. Provenance'
        BY <1>3, SMTT(60) DEF AppRegen, LockFree, Change, Refuse, Provenance
      <3> QED
        BY <3>1, <3>2, <3>3
    <2>5. Gone' /\ Kept' /\ DeadWasReported'
      BY <1>3 DEF AppRegen, LockFree, Change, Refuse, Gone, Kept,
         DeadWasReported
    <2>6. KnownWasReported' /\ LateIsNotServed' /\ AdmittedHoldsOneLogin'
      BY <1>3 DEF AppRegen, LockFree, Change, Refuse, KnownWasReported,
         LateIsNotServed, AdmittedHoldsOneLogin
    <2> QED
      BY <2>1, <2>2, <2>3, <2>4, <2>5, <2>6
  <1>4. ASSUME NEW c \in Commands, AppRevoke(c) PROVE Inv'
    <2>1. DraftIsFresh'
      BY <1>4 DEF AppRevoke, LockFree, Change, Refuse, HolderIsLocked,
         DraftIsFresh
    <2>2. ReplacedWasSaved'
      BY <1>4 DEF AppRevoke, LockFree, Change, Refuse, Kinds, Provenance,
         ReplacedWasSaved
    <2>3. ReplacedOnce'
      BY <1>4 DEF AppRevoke, LockFree, Change, Refuse, Kinds, HolderIsLocked,
         Gone, ReplacedOnce
    <2>4. Kinds' /\ HolderIsLocked' /\ Provenance'
      <3>1. Kinds'
        BY <1>4 DEF AppRevoke, LockFree, Change, Refuse, Kinds
      <3>2. HolderIsLocked'
        BY <1>4 DEF AppRevoke, LockFree, Change, Refuse, HolderIsLocked
      <3>3. Provenance'
        BY <1>4, SMTT(60) DEF AppRevoke, LockFree, Change, Refuse, Provenance
      <3> QED
        BY <3>1, <3>2, <3>3
    <2>5. Gone' /\ Kept' /\ DeadWasReported'
      BY <1>4 DEF AppRevoke, LockFree, Change, Refuse, Gone, Kept,
         DeadWasReported
    <2>6. KnownWasReported' /\ LateIsNotServed' /\ AdmittedHoldsOneLogin'
      BY <1>4 DEF AppRevoke, LockFree, Change, Refuse, KnownWasReported,
         LateIsNotServed, AdmittedHoldsOneLogin
    <2> QED
      BY <2>1, <2>2, <2>3, <2>4, <2>5, <2>6
  <1>5. ASSUME NEW q \in Claims, SpendSetupToken(q) PROVE Inv'
    <2>1. Kinds'
      <3>1. ASSUME Refuse(q) PROVE Kinds'
        BY <1>5, <3>1 DEF SpendSetupToken, Refuse, Kinds
      <3>2. ASSUME NEW k \in Keys, apps[k] = token[q], Change(q, k, q, token[q])
            PROVE  Kinds'
        <4>1. token[q] \in Commands
          BY <1>5, <3>2 DEF SpendSetupToken, Kinds
        <4>2. \A r \in Requests \union Commands : pc'[r] = pc[r]
          BY <3>2 DEF Change
        <4> QED
          BY <1>5, <3>2, <4>1, <4>2 DEF SpendSetupToken, Change, Kinds
      <3> QED
        BY <1>5, <3>1, <3>2 DEF SpendSetupToken
    <2>2. DraftIsFresh'
      BY <1>5 DEF SpendSetupToken, LockFree, Change, Refuse, HolderIsLocked,
         DraftIsFresh
    <2>3. ReplacedWasSaved'
      BY <1>5, SMTT(60) DEF SpendSetupToken, LockFree, Change, Refuse, Provenance,
         ReplacedWasSaved
    <2>4. ReplacedOnce'
      BY <1>5 DEF SpendSetupToken, LockFree, Change, Refuse, HolderIsLocked,
         Gone, ReplacedOnce
    <2>5. LateIsNotServed'
      BY <1>5 DEF SpendSetupToken, LockFree, Change, Refuse, Gone,
         DeadWasReported, LateIsNotServed
    <2>6. HolderIsLocked' /\ Provenance' /\ Gone'
      BY <1>5 DEF SpendSetupToken, LockFree, Change, Refuse, HolderIsLocked,
         Provenance, Gone
    <2>7. Kept' /\ DeadWasReported' /\ KnownWasReported'
      BY <1>5 DEF SpendSetupToken, LockFree, Change, Refuse, Kept,
         DeadWasReported, KnownWasReported
    <2>8. AdmittedHoldsOneLogin'
      BY <1>5 DEF SpendSetupToken, LockFree, Change, Refuse,
         AdmittedHoldsOneLogin
    <2> QED
      BY <2>1, <2>2, <2>3, <2>4, <2>5, <2>6, <2>7, <2>8
  <1>6. ASSUME NEW c \in Updaters, Fail(c) PROVE Inv'
    <2>1. DraftIsFresh'
      BY <1>6 DEF Fail, Unlock, HolderIsLocked, DraftIsFresh
    <2>2. Kinds' /\ HolderIsLocked' /\ Provenance'
      BY <1>6 DEF Fail, Unlock, Kinds, HolderIsLocked, Provenance
    <2>3. ReplacedWasSaved' /\ Gone' /\ Kept'
      BY <1>6 DEF Fail, Unlock, ReplacedWasSaved, Gone, Kept
    <2>4. ReplacedOnce' /\ DeadWasReported' /\ KnownWasReported'
      BY <1>6 DEF Fail, Unlock, ReplacedOnce, DeadWasReported,
         KnownWasReported
    <2>5. LateIsNotServed' /\ AdmittedHoldsOneLogin'
      BY <1>6 DEF Fail, Unlock, LateIsNotServed, AdmittedHoldsOneLogin
    <2> QED
      BY <2>1, <2>2, <2>3, <2>4, <2>5
  <1>7. ASSUME NEW c \in Updaters, Save(c) PROVE Inv'
    <2>1. DraftIsFresh'
      BY <1>7 DEF Save, Goto, HolderIsLocked, DraftIsFresh
    <2>2. Provenance'
      BY <1>7 DEF Save, Goto, DraftIsFresh, Provenance
    <2>3. Gone'
      BY <1>7 DEF Save, Goto, Kinds, DraftIsFresh, Provenance,
         ReplacedWasSaved, Gone
    <2>4. Kept'
      BY <1>7 DEF Save, Goto, Kinds, DraftIsFresh, Kept
    <2>5. Kinds' /\ HolderIsLocked' /\ ReplacedWasSaved'
      BY <1>7 DEF Save, Goto, Kinds, HolderIsLocked, ReplacedWasSaved
    <2>6. ReplacedOnce' /\ DeadWasReported' /\ KnownWasReported'
      BY <1>7 DEF Save, Goto, ReplacedOnce, DeadWasReported, KnownWasReported
    <2>7. LateIsNotServed' /\ AdmittedHoldsOneLogin'
      BY <1>7 DEF Save, Goto, LateIsNotServed, AdmittedHoldsOneLogin
    <2> QED
      BY <2>1, <2>2, <2>3, <2>4, <2>5, <2>6, <2>7
  <1>8. ASSUME NEW c \in Updaters, Release(c) PROVE Inv'
    <2>1. DraftIsFresh'
      BY <1>8 DEF Release, Goto, Unlock, HolderIsLocked, DraftIsFresh
    <2>2. Kinds' /\ HolderIsLocked' /\ Provenance'
      BY <1>8 DEF Release, Goto, Unlock, Kinds, HolderIsLocked, Provenance
    <2>3. ReplacedWasSaved' /\ Gone' /\ Kept'
      BY <1>8 DEF Release, Goto, Unlock, ReplacedWasSaved, Gone, Kept
    <2>4. ReplacedOnce' /\ DeadWasReported' /\ KnownWasReported'
      BY <1>8 DEF Release, Goto, Unlock, ReplacedOnce, DeadWasReported,
         KnownWasReported
    <2>5. LateIsNotServed' /\ AdmittedHoldsOneLogin'
      BY <1>8 DEF Release, Goto, Unlock, LateIsNotServed,
         AdmittedHoldsOneLogin
    <2> QED
      BY <2>1, <2>2, <2>3, <2>4, <2>5
  <1>9. ASSUME NEW c \in Commands, Report(c) PROVE Inv'
    <2>1. Kinds' /\ HolderIsLocked' /\ DraftIsFresh'
      BY <1>9 DEF Report, HandOver, Goto, Kinds, HolderIsLocked, DraftIsFresh
    <2>2. Provenance' /\ ReplacedWasSaved' /\ Gone'
      BY <1>9 DEF Report, HandOver, Goto, Provenance, ReplacedWasSaved, Gone
    <2>3. Kept' /\ ReplacedOnce' /\ DeadWasReported'
      BY <1>9 DEF Report, HandOver, Goto, Kept, ReplacedOnce, DeadWasReported
    <2>4. KnownWasReported' /\ LateIsNotServed' /\ AdmittedHoldsOneLogin'
      BY <1>9 DEF Report, HandOver, Goto, KnownWasReported, LateIsNotServed,
         AdmittedHoldsOneLogin
    <2> QED
      BY <2>1, <2>2, <2>3, <2>4
  <1>10. ASSUME NEW q \in Claims, Answer(q) PROVE Inv'
    <2>1. KnownWasReported'
      BY <1>10 DEF Answer, HandOver, Goto, Kinds, KnownWasReported
    <2>2. Kinds' /\ HolderIsLocked' /\ DraftIsFresh'
      BY <1>10 DEF Answer, HandOver, Goto, Kinds, HolderIsLocked, DraftIsFresh
    <2>3. Provenance' /\ ReplacedWasSaved' /\ Gone'
      BY <1>10 DEF Answer, HandOver, Goto, Provenance, ReplacedWasSaved, Gone
    <2>4. Kept' /\ ReplacedOnce' /\ DeadWasReported'
      BY <1>10 DEF Answer, HandOver, Goto, Kept, ReplacedOnce, DeadWasReported
    <2>5. LateIsNotServed' /\ AdmittedHoldsOneLogin'
      BY <1>10 DEF Answer, HandOver, Goto, LateIsNotServed,
         AdmittedHoldsOneLogin
    <2> QED
      BY <2>1, <2>2, <2>3, <2>4, <2>5
  <1>11. ASSUME NEW q \in Claims, ClaimArrives(q) PROVE Inv'
    <2>1. Kinds' /\ HolderIsLocked' /\ DraftIsFresh'
      BY <1>11 DEF ClaimArrives, Goto, Late, Kinds, HolderIsLocked,
         DraftIsFresh
    <2>2. Provenance' /\ ReplacedWasSaved' /\ Gone'
      BY <1>11 DEF ClaimArrives, Goto, Late, Provenance, ReplacedWasSaved,
         Gone
    <2>3. Kept' /\ ReplacedOnce' /\ DeadWasReported'
      BY <1>11 DEF ClaimArrives, Goto, Late, Kept, ReplacedOnce,
         DeadWasReported
    <2>4. KnownWasReported' /\ LateIsNotServed' /\ AdmittedHoldsOneLogin'
      BY <1>11 DEF ClaimArrives, Goto, Late, KnownWasReported,
         LateIsNotServed, AdmittedHoldsOneLogin
    <2> QED
      BY <2>1, <2>2, <2>3, <2>4
  <1>12. ASSUME NEW q \in Claims, DispatchClaim(q) PROVE Inv'
    <2>1. Kinds' /\ HolderIsLocked' /\ DraftIsFresh'
      BY <1>12 DEF DispatchClaim, Goto, Kinds, HolderIsLocked, DraftIsFresh
    <2>2. Provenance' /\ ReplacedWasSaved' /\ Gone'
      BY <1>12 DEF DispatchClaim, Goto, Provenance, ReplacedWasSaved, Gone
    <2>3. Kept' /\ ReplacedOnce' /\ DeadWasReported'
      BY <1>12 DEF DispatchClaim, Goto, Kept, ReplacedOnce, DeadWasReported
    <2>4. KnownWasReported' /\ LateIsNotServed' /\ AdmittedHoldsOneLogin'
      BY <1>12 DEF DispatchClaim, Goto, KnownWasReported, LateIsNotServed,
         AdmittedHoldsOneLogin
    <2> QED
      BY <2>1, <2>2, <2>3, <2>4
  <1>13. ASSUME NEW q \in Claims, Disconnect(q) PROVE Inv'
    <2>1. Kinds' /\ HolderIsLocked' /\ DraftIsFresh'
      BY <1>13 DEF Disconnect, Goto, Kinds, HolderIsLocked, DraftIsFresh
    <2>2. Provenance' /\ ReplacedWasSaved' /\ Gone'
      BY <1>13 DEF Disconnect, Goto, Provenance, ReplacedWasSaved, Gone
    <2>3. Kept' /\ ReplacedOnce' /\ DeadWasReported'
      BY <1>13 DEF Disconnect, Goto, Kept, ReplacedOnce, DeadWasReported
    <2>4. KnownWasReported' /\ LateIsNotServed' /\ AdmittedHoldsOneLogin'
      BY <1>13 DEF Disconnect, Goto, KnownWasReported, LateIsNotServed,
         AdmittedHoldsOneLogin
    <2> QED
      BY <2>1, <2>2, <2>3, <2>4
  <1>14. ASSUME NEW r \in Requests, RefuseNoCredentials(r) PROVE Inv'
    <2>1. Kinds' /\ HolderIsLocked' /\ DraftIsFresh'
      BY <1>14 DEF RefuseNoCredentials, Goto, Kinds, HolderIsLocked,
         DraftIsFresh
    <2>2. Provenance' /\ ReplacedWasSaved' /\ Gone'
      BY <1>14 DEF RefuseNoCredentials, Goto, Provenance, ReplacedWasSaved,
         Gone
    <2>3. Kept' /\ ReplacedOnce' /\ DeadWasReported'
      BY <1>14 DEF RefuseNoCredentials, Goto, Kept, ReplacedOnce,
         DeadWasReported
    <2>4. KnownWasReported' /\ LateIsNotServed' /\ AdmittedHoldsOneLogin'
      BY <1>14 DEF RefuseNoCredentials, Goto, KnownWasReported,
         LateIsNotServed, AdmittedHoldsOneLogin
    <2> QED
      BY <2>1, <2>2, <2>3, <2>4
  <1>15. ASSUME NEW r \in Requests, RequestArrives(r) PROVE Inv'
    <2>1. LateIsNotServed'
      <3>1. PICK name, code \in (known \intersect Claims) \union {Wrong} :
               /\ login' = [login EXCEPT ![r] = <<name, code>>]
               /\ Late(r, {name, code})
        BY <1>15 DEF RequestArrives
      <3>2. \A s \in late' \intersect Requests : s # r => s \in late
        BY <3>1 DEF Late
      <3>3. login'[r][1] = name /\ login'[r][2] = code
        BY <3>1
      <3>4. r \in late' => name \in dead \ undone \/ code \in dead \ undone
        BY <1>15, <3>1 DEF Late, RequestArrives, Goto, LateIsNotServed
      <3> QED
        BY <1>15, <3>1, <3>2, <3>3, <3>4 DEF RequestArrives, Goto, Late, LateIsNotServed
    <2>2. AdmittedHoldsOneLogin'
      BY <1>15 DEF RequestArrives, Goto, AdmittedHoldsOneLogin
    <2>3. Kinds' /\ HolderIsLocked' /\ DraftIsFresh'
      BY <1>15 DEF RequestArrives, Goto, Late, Kinds, HolderIsLocked,
         DraftIsFresh
    <2>4. Provenance' /\ ReplacedWasSaved' /\ Gone'
      BY <1>15 DEF RequestArrives, Goto, Late, Provenance, ReplacedWasSaved,
         Gone
    <2>5. Kept' /\ ReplacedOnce' /\ DeadWasReported'
      BY <1>15 DEF RequestArrives, Goto, Late, Kept, ReplacedOnce,
         DeadWasReported
    <2>6. KnownWasReported'
      BY <1>15 DEF RequestArrives, Goto, Late, KnownWasReported
    <2> QED
      BY <2>1, <2>2, <2>3, <2>4, <2>5, <2>6
  <1>16. ASSUME NEW r \in Requests, Authenticate(r) PROVE Inv'
    <2>1. LateIsNotServed'
      BY <1>16 DEF Authenticate, Goto, Matches, Gone, DeadWasReported,
         LateIsNotServed
    <2>2. Kinds' /\ HolderIsLocked' /\ DraftIsFresh'
      BY <1>16 DEF Authenticate, Goto, Matches, Kinds, HolderIsLocked,
         DraftIsFresh
    <2>3. Provenance' /\ ReplacedWasSaved' /\ Gone'
      <3>1. Provenance' /\ ReplacedWasSaved'
        BY <1>16 DEF Authenticate, Goto, Matches, Provenance, ReplacedWasSaved
      <3>2. Gone'
        BY <1>16 DEF Authenticate, Goto, Matches, Gone
      <3> QED
        BY <3>1, <3>2
    <2>4. Kept' /\ ReplacedOnce' /\ DeadWasReported'
      BY <1>16 DEF Authenticate, Goto, Matches, Kept, ReplacedOnce,
         DeadWasReported
    <2>5. KnownWasReported' /\ AdmittedHoldsOneLogin'
      BY <1>16 DEF Authenticate, Goto, Matches, KnownWasReported,
         AdmittedHoldsOneLogin
    <2> QED
      BY <2>1, <2>2, <2>3, <2>4, <2>5
  <1>17. ASSUME NEW c \in Commands, Die(c) PROVE Inv'
    <2>1. DraftIsFresh'
      BY <1>17 DEF Die, End, Unlock, HolderIsLocked, DraftIsFresh
    <2>2. Kinds' /\ HolderIsLocked' /\ Provenance'
      BY <1>17 DEF Die, End, Unlock, Kinds, HolderIsLocked, Provenance
    <2>3. ReplacedWasSaved' /\ Gone' /\ Kept'
      BY <1>17 DEF Die, End, Unlock, ReplacedWasSaved, Gone, Kept
    <2>4. ReplacedOnce' /\ DeadWasReported' /\ KnownWasReported'
      BY <1>17 DEF Die, End, Unlock, ReplacedOnce, DeadWasReported,
         KnownWasReported
    <2>5. LateIsNotServed' /\ AdmittedHoldsOneLogin'
      BY <1>17 DEF Die, End, Unlock, LateIsNotServed, AdmittedHoldsOneLogin
    <2> QED
      BY <2>1, <2>2, <2>3, <2>4, <2>5
  <1>18. ASSUME ServerCrash PROVE Inv'
    <2>1. DraftIsFresh'
      BY <1>18 DEF ServerCrash, End, Unlock, HolderIsLocked, DraftIsFresh
    <2>2. DeadWasReported'
      <3>1. /\ dead' = dead /\ replaced' = replaced
            /\ \A c \in Updaters : pc[c] = "ok" => pc'[c] = "ok"
        BY <1>18 DEF ServerCrash, End
      <3> QED
        BY <3>1 DEF DeadWasReported
    <2>3. Kinds' /\ HolderIsLocked' /\ Provenance'
      BY <1>18 DEF ServerCrash, End, Unlock, Kinds, HolderIsLocked, Provenance
    <2>4. ReplacedWasSaved' /\ Gone' /\ Kept'
      BY <1>18 DEF ServerCrash, End, Unlock, ReplacedWasSaved, Gone, Kept
    <2>5. ReplacedOnce' /\ KnownWasReported' /\ LateIsNotServed'
      BY <1>18 DEF ServerCrash, End, Unlock, ReplacedOnce, KnownWasReported,
         LateIsNotServed
    <2>6. AdmittedHoldsOneLogin'
      BY <1>18 DEF ServerCrash, End, Unlock, AdmittedHoldsOneLogin
    <2> QED
      BY <2>1, <2>2, <2>3, <2>4, <2>5, <2>6
  <1>19. ASSUME Writeback PROVE Inv'
    <2>1. Kinds' /\ HolderIsLocked' /\ DraftIsFresh'
      BY <1>19 DEF Writeback, Kinds, HolderIsLocked, DraftIsFresh
    <2>2. Provenance' /\ ReplacedWasSaved' /\ Gone'
      BY <1>19 DEF Writeback, Provenance, ReplacedWasSaved, Gone
    <2>3. Kept' /\ ReplacedOnce' /\ DeadWasReported'
      BY <1>19 DEF Writeback, Kept, ReplacedOnce, DeadWasReported
    <2>4. KnownWasReported' /\ LateIsNotServed' /\ AdmittedHoldsOneLogin'
      BY <1>19 DEF Writeback, KnownWasReported, LateIsNotServed,
         AdmittedHoldsOneLogin
    <2> QED
      BY <2>1, <2>2, <2>3, <2>4
  <1>20. ASSUME PowerCut PROVE Inv'
    <2>0. /\ \A c \in Updaters : pc'[c] \in Past <=> pc[c] = "ok"
          /\ \A c \in Updaters : pc'[c] = "ok" <=> pc[c] = "ok"
          /\ apps' = durable
          /\ UNCHANGED <<durable, op, key, replaced, retired, dead>>
          /\ undone \subseteq undone'
      BY <1>20 DEF PowerCut, End
    <2>a. ASSUME NEW c \in unsynced, NEW s \in Secrets, s \in {c, replaced[c]}, s \notin undone'
          PROVE  s \in Recognised(apps) <=> s \in Recognised(durable)
      <3>1. s # None
        OBVIOUS
      <3>2. s \in UnsyncedSecrets
        BY <2>a, <3>1 DEF UnsyncedSecrets
      <3>3. s \in UnsyncedSecrets /\ TakenBack(s) => s \in undone'
        BY <1>20 DEF PowerCut
      <3> QED
        BY <2>a, <3>2, <3>3 DEF TakenBack
    <2>1. Kept'
      <3> SUFFICES ASSUME NEW c \in Updaters, pc[c] = "ok", op[c] # "revoke",
                          c \notin retired \union undone'
                   PROVE  durable[key[c]] = c
        BY <2>0 DEF Kept
      <3>1. apps[key[c]] = c /\ key[c] \in Keys
        BY <2>0 DEF Kept, Kinds
      <3>2. CASE c \notin unsynced
        BY <2>0, <3>2 DEF Kept
      <3>3. CASE c \in unsynced
        <4>1. c \in Recognised(durable)
          BY <2>a, <3>1, <3>3
        <4> QED
          BY <4>1 DEF Provenance
      <3> QED
        BY <3>2, <3>3
    <2>b. Gone'
      <3> SUFFICES ASSUME NEW c \in Updaters, pc[c] = "ok",
                          replaced[c] \notin undone' \union {None}, NEW k \in Keys
                   PROVE  durable[k] # replaced[c]
        BY <2>0 DEF Gone
      <3>1. apps[k] # replaced[c]
        BY <2>0 DEF Gone
      <3>2. CASE c \notin unsynced
        BY <2>0, <3>2 DEF Gone
      <3>3. CASE c \in unsynced
        <4>1. replaced[c] \notin Recognised(apps)
          BY <2>0 DEF Gone
        <4>2. replaced[c] \notin Recognised(durable)
          BY <2>a, <3>3, <4>1
        <4> QED
          BY <4>2
      <3> QED
        BY <3>2, <3>3
    <2>2. DeadWasReported'
      <3>1. /\ dead' = dead /\ replaced' = replaced
            /\ \A c \in Updaters : pc[c] = "ok" => pc'[c] = "ok"
        BY <1>20 DEF PowerCut, End
      <3> QED
        BY <3>1 DEF DeadWasReported
    <2>3. Kinds' /\ HolderIsLocked' /\ DraftIsFresh'
      BY <1>20 DEF PowerCut, End, Kinds, HolderIsLocked, DraftIsFresh
    <2>4. Provenance' /\ ReplacedWasSaved'
      BY <1>20 DEF PowerCut, End, Provenance, ReplacedWasSaved
    <2>5. ReplacedOnce' /\ KnownWasReported' /\ LateIsNotServed'
      BY <1>20 DEF PowerCut, End, ReplacedOnce, KnownWasReported,
         LateIsNotServed
    <2>6. AdmittedHoldsOneLogin'
      BY <1>20 DEF PowerCut, End, AdmittedHoldsOneLogin
    <2> QED
      BY <2>1, <2>2, <2>3, <2>4, <2>5, <2>6, <2>b
  <1>21. ASSUME UNCHANGED vars PROVE Inv'
    BY <1>21 DEF vars, Kinds, HolderIsLocked, DraftIsFresh, Provenance,
       ReplacedWasSaved, Gone, Kept, ReplacedOnce, DeadWasReported,
       KnownWasReported, LateIsNotServed, AdmittedHoldsOneLogin
  <1> HIDE DEF Inv, TypeOK
  <1>22. ASSUME NEW c \in Commands, BeginCommand(c) \/ CommandNext(c) \/ Fail(c) \/ Die(c)
         PROVE  Inv'
    BY <1>1, <1>2, <1>3, <1>4, <1>6, <1>7, <1>8, <1>9, <1>17, <1>22 DEF CommandNext
  <1>23. ASSUME NEW q \in Claims,
                ClaimArrives(q) \/ ClaimNext(q) \/ Fail(q) \/ Disconnect(q)
         PROVE  Inv'
    BY <1>5, <1>6, <1>7, <1>8, <1>10, <1>11, <1>12, <1>13, <1>23 DEF ClaimNext
  <1> QED
    BY <1>14, <1>15, <1>16, <1>18, <1>19, <1>20, <1>21, <1>22, <1>23 DEF Next

THEOREM Invariance == Spec => []Inv
  <1> QED
    BY InvInit, InvStep, PTL DEF Spec

-----------------------------------------------------------------------------
(* The properties the runs check, for any instance. *)

(* Every variable keeps its type. *)
THEOREM TypeCorrect == Spec => []TypeOK
  <1>1. Inv => TypeOK
    BY DEF Inv
  <1> QED
    BY <1>1, Invariance, PTL

(* No setup token buys credentials twice. *)
THEOREM TokensSpentOnce == Spec => []SpentOnce
  <1>1. Inv => SpentOnce
    <2> SUFFICES ASSUME Inv, NEW p \in Claims, NEW q \in Claims,
                        pc[p] = "ok", pc[q] = "ok", token[p] = token[q],
                        token[p] \notin undone
                 PROVE  p = q
      BY DEF SpentOnce
    <2>1. /\ replaced[p] = token[p] /\ replaced[q] = token[q]
          /\ token[p] # None
      BY CallsDiffer DEF Inv, Kinds, Past
    <2> QED
      BY <2>1 DEF Inv, ReplacedOnce, Past, Updaters
  <1> QED
    BY <1>1, Invariance, PTL

(* What was printed or answered is recognised until it is taken out. *)
THEOREM NothingHandedOutIsLost == Spec => []HandedOutIsRecognised
  <1>1. Inv => HandedOutIsRecognised
    <2> SUFFICES ASSUME Inv, NEW s \in known, s \notin retired \union undone
                 PROVE  s \in Recognised(apps)
      BY DEF HandedOutIsRecognised
    <2>1. s \in Updaters /\ s # None
      BY CallsDiffer DEF Inv, TypeOK, Secrets, Updaters
    <2>2. pc[s] = "ok" /\ op[s] # "revoke"
      BY DEF Inv, KnownWasReported
    <2>3. apps[key[s]] = s
      BY <2>1, <2>2 DEF Inv, Kept, Past
    <2>4. key[s] \in Keys
      BY <2>1, <2>2 DEF Inv, Kinds, Past, Updaters
    <2> QED
      BY <2>1, <2>3, <2>4 DEF Recognised
  <1> QED
    BY <1>1, Invariance, PTL

(* What was reported dead is not recognised again. *)
THEOREM DeadForGood == Spec => []DeadStaysDead
  <1>1. Inv => DeadStaysDead
    <2> SUFFICES ASSUME Inv, NEW s \in dead, s \notin undone, NEW k \in Keys, apps[k] = s
                 PROVE  FALSE
      BY DEF DeadStaysDead, Recognised
    <2>1. PICK c \in Updaters : pc[c] = "ok" /\ replaced[c] = s
      BY DEF Inv, DeadWasReported
    <2>2. s # None
      BY DEF Inv, DeadWasReported
    <2> QED
      BY <2>1, <2>2 DEF Inv, Gone, Past
  <1> QED
    BY <1>1, Invariance, PTL

(* Only one claim's own pair is admitted, and nobody who comes too late. *)
THEOREM OnlyLiveServed == Spec => []OnlyLiveSecretsServed
  <1>1. Inv => OnlyLiveSecretsServed
    <2> SUFFICES ASSUME Inv PROVE OnlyLiveSecretsServed
      OBVIOUS
    <2>1. ASSUME NEW q \in late \intersect Claims PROVE pc[q] \notin {"ok", "admitted"}
      BY DEF Inv, LateIsNotServed
    <2>2. ASSUME NEW r \in late \intersect Requests PROVE pc[r] \notin {"ok", "admitted"}
      BY DEF Inv, LateIsNotServed, Kinds
    <2>3. late \subseteq Claims \union Requests
      BY DEF Inv, TypeOK, Served
    <2> QED
      BY <2>1, <2>2, <2>3 DEF Inv, AdmittedHoldsOneLogin, OnlyLiveSecretsServed
  <1> QED
    BY <1>1, Invariance, PTL
-----------------------------------------------------------------------------
(* AppTokens implements TokenRegistry: while an update holds the lock the  *)
(* store is what its draft was made from (DraftIsFresh), so what it found  *)
(* when it took the lock still holds when its rename makes the change      *)
(* (Justified).                                                            *)

(* A command about to save found what it needs at its key.                 *)
Justified ==
    \A c \in Commands : pc[c] = "updating" =>
        /\ op[c] \in {"new", "regen", "revoke"}
        /\ op[c] = "new" <=> replaced[c] = None

LEMMA JustifiedStep ==
  ASSUME Inv, Justified, [Next]_vars
  PROVE  Justified'
  <1> USE DEF Justified
  <1> TypeOK /\ Kinds
    BY DEF Inv
  <1> USE CallsDiffer DEF TypeOK, Kinds, Updaters, Secrets, Ops, callVars, history
  <1>1. ASSUME NEW c \in Commands, BeginCommand(c) PROVE Justified'
    BY <1>1 DEF BeginCommand, Goto
  <1>2. ASSUME NEW c \in Commands, AppNew(c) PROVE Justified'
    BY <1>2 DEF AppNew, Change, Refuse
  <1>3. ASSUME NEW c \in Commands, AppRegen(c) PROVE Justified'
    BY <1>3 DEF AppRegen, Change, Refuse
  <1>4. ASSUME NEW c \in Commands, AppRevoke(c) PROVE Justified'
    BY <1>4 DEF AppRevoke, Change, Refuse
  <1>5. ASSUME NEW q \in Claims, SpendSetupToken(q) PROVE Justified'
    BY <1>5 DEF SpendSetupToken, Change, Refuse
  <1>6. ASSUME NEW c \in Updaters, Fail(c) \/ Save(c) \/ Release(c) \/ Report(c) \/ Answer(c)
        PROVE Justified'
    BY <1>6 DEF Fail, Save, Release, Report, Answer, HandOver, Goto
  <1>7. ASSUME NEW q \in Claims, ClaimArrives(q) \/ DispatchClaim(q) \/ Disconnect(q)
        PROVE Justified'
    BY <1>7 DEF ClaimArrives, DispatchClaim, Disconnect, Goto
  <1>8. ASSUME NEW r \in Requests, RefuseNoCredentials(r) \/ RequestArrives(r) \/ Authenticate(r)
        PROVE Justified'
    BY <1>8 DEF RefuseNoCredentials, RequestArrives, Authenticate, Goto
  <1>9. ASSUME \/ \E c \in Commands : Die(c)
               \/ ServerCrash \/ Writeback \/ PowerCut \/ UNCHANGED vars
        PROVE Justified'
    <2>1. /\ \A c \in Commands : pc'[c] \in {pc[c], "lost"}
          /\ UNCHANGED <<op, replaced>>
      <3>1. \A S : \A c \in Commands : End(S)[c] \in {pc[c], "lost"}
        BY DEF End
      <3>2. \/ (\E S : pc' = End(S)) \/ pc' = pc
        BY <1>9 DEF Die, ServerCrash, Writeback, PowerCut, vars
      <3>3. UNCHANGED <<op, replaced>>
        BY <1>9 DEF Die, ServerCrash, Writeback, PowerCut, vars
      <3> QED
        BY <3>1, <3>2, <3>3
    <2> QED
      BY <2>1
  <1> QED
    BY <1>1, <1>2, <1>3, <1>4, <1>5, <1>6, <1>7, <1>8, <1>9
       DEF Next, CommandNext, ClaimNext

THEOREM JustifiedHolds == Spec => []Justified
  <1>1. Init => Justified
    BY CallsDiffer DEF Init, Justified, Updaters
  <1>2. Inv /\ Justified /\ [Next]_vars => Justified'
    BY JustifiedStep
  <1> QED
    BY <1>1, <1>2, Invariance, PTL DEF Spec

-----------------------------------------------------------------------------
(* How a step of a call, or of none, looks in the registry.                *)
LEMMA Moved ==
  ASSUME TypeOK, NEW c \in Updaters \union Requests, NEW s, pc' = [pc EXCEPT ![c] = s]
  PROVE  /\ Where[c] = Seen(pc[c])
         /\ Where' = [Where EXCEPT ![c] = Seen(s)]
         /\ Seen(s) = Seen(pc[c]) => Where' = Where
  BY DEF TypeOK, Where

LEMMA SameAsks ==
  ASSUME \A c \in Commands : op'[c] = op[c] /\ key'[c] = key[c]
  PROVE  Asks' = Asks
  BY DEF Asks

LEMMA SamePresents ==
  ASSUME UNCHANGED <<token, login>>
  PROVE  Presents' = Presents
  BY DEF Presents

LEMMA Asked ==
  ASSUME TypeOK, NEW c \in Commands
  PROVE  Asks[c] = <<op[c], key[c]>>
  BY DEF Asks

LEMMA Presented ==
  ASSUME TypeOK
  PROVE  /\ \A q \in Claims : Presents[q] = token[q]
         /\ \A r \in Requests : Presents[r] = login[r]
  BY CallsDiffer DEF Presents, Updaters

(* An update's rename is its effect.                                       *)
LEMMA SaveIsEffect ==
  ASSUME Inv, Justified, NEW c \in Updaters, Save(c)
  PROVE  Registry!Next
  <1> TypeOK /\ Kinds /\ DraftIsFresh
    BY DEF Inv
  <1>1. pc[c] = "updating" /\ pc' = [pc EXCEPT ![c] = "saved"] /\ apps' = draft
        /\ UNCHANGED <<durable, op, key, token, login>>
    BY DEF Save, Goto, callVars
  <1>2. Where[c] = "asked" /\ Where' = [Where EXCEPT ![c] = "effective"]
    BY <1>1, Moved DEF Seen
  <1>3. UNCHANGED <<durable, Asks, Presents>>
    BY <1>1, SameAsks, SamePresents
  <1>4. draft = [apps EXCEPT ![key[c]] = Minted(c)] /\ replaced[c] = apps[key[c]]
    BY <1>1 DEF DraftIsFresh
  <1>5. Registry!Effect(c, key[c], Minted(c))
    BY <1>1, <1>2, <1>3, <1>4 DEF Registry!Effect, Registry!Goto
  <1>6. CASE c \in Commands
    <2>1. /\ op[c] \in {"new", "regen", "revoke"} /\ key[c] \in Keys
          /\ op[c] = "new" <=> apps[key[c]] = None
      BY <1>1, <1>4, <1>6 DEF Justified, Kinds
    <2>2. Asks[c] = <<op[c], key[c]>>
      BY <1>6, Asked
    <2>3. Registry!New(c, key[c]) \/ Registry!Regen(c, key[c]) \/ Registry!Revoke(c, key[c])
      BY <1>5, <2>1, <2>2 DEF Minted, Registry!New, Registry!Regen, Registry!Revoke
    <2> QED
      BY <1>6, <2>1, <2>3 DEF Registry!Next
  <1>7. CASE c \in Claims
    <2>1. op[c] = "claim" /\ replaced[c] = token[c] /\ key[c] \in Keys /\ token[c] \in Commands
      BY <1>1, <1>7 DEF Kinds
    <2>2. Presents[c] = token[c] /\ Minted(c) = c
      BY <1>7, <2>1, Presented DEF Minted
    <2>3. Registry!Exchange(c, key[c])
      BY <1>4, <1>5, <2>1, <2>2 DEF Registry!Exchange
    <2> QED
      BY <1>7, <2>1, <2>3 DEF Registry!Next
  <1> QED
    BY <1>6, <1>7 DEF Updaters

(* A refusal is one by what the store holds.                               *)
LEMMA RefuseIsRefuse ==
  ASSUME Inv, NEW c \in Updaters, pc[c] = "waiting", Refuse(c),
         \/ /\ c \in Commands /\ key[c] \in Keys
            /\ \/ op[c] = "new" /\ apps[key[c]] # None
               \/ op[c] \in {"regen", "revoke"} /\ apps[key[c]] = None
         \/ c \in Claims /\ token[c] \notin Recognised(apps) /\ token[c] # None
  PROVE  Registry!Next
  <1> TypeOK /\ Kinds
    BY DEF Inv
  <1>1. pc' = [pc EXCEPT ![c] = "refused"] /\ UNCHANGED <<apps, durable, op, key, token, login>>
    BY DEF Refuse, callVars
  <1>2. Where[c] = "asked" /\ Where' = [Where EXCEPT ![c] = "refused"]
    BY <1>1, Moved DEF Seen
  <1>3. UNCHANGED <<apps, durable, Asks, Presents>>
    BY <1>1, SameAsks, SamePresents
  <1>4. Registry!Refusable(c)
    <2>1. CASE c \in Commands
      BY <2>1, Asked, CallsDiffer DEF Registry!Refusable
    <2>2. CASE c \in Claims
      <3>1. token[c] \notin Recognised(apps) /\ token[c] # None
        BY <2>2, CallsDiffer
      <3>2. \A k \in Keys : apps[k] # Presents[c]
        BY <2>2, <3>1, Presented DEF Recognised
      <3> QED
        BY <2>2, <3>2 DEF Registry!Refusable
    <2> QED
      BY <2>1, <2>2 DEF Updaters
  <1> QED
    BY <1>2, <1>3, <1>4 DEF Registry!Next, Registry!Refuse, Registry!Goto, Updaters

(* Steps that lose calls, and nothing else.                                *)
LEMMA EndIsLose ==
  ASSUME TypeOK, NEW S \in SUBSET (Updaters \union Requests), pc' = End(S)
  PROVE  Where' = Registry!End(S)
  <1>1. \A c \in Updaters \union Requests :
            Seen(End(S)[c]) = IF c \in S /\ Seen(pc[c]) \in {"asked", "effective"}
                              THEN "lost" ELSE Seen(pc[c])
    BY DEF TypeOK, End, Seen, InFlight, InUpdate, Ended
  <1>2. Registry!Calls = Updaters \union Requests
    BY DEF Registry!Calls, Updaters
  <1>3. Where' = [c \in Updaters \union Requests |-> Seen(End(S)[c])]
    BY DEF Where
  <1>4. \A c \in Updaters \union Requests : Where[c] = Seen(pc[c])
    BY DEF Where
  <1> QED
    BY <1>1, <1>2, <1>3, <1>4, Zenon DEF Registry!End, Registry!Pending

LEMMA LoseIsLose ==
  ASSUME TypeOK, NEW S \in SUBSET (Updaters \union Requests), pc' = End(S),
         UNCHANGED <<apps, durable, callVars>>
  PROVE  Registry!Next
  <1>1. UNCHANGED <<apps, durable, Asks, Presents>>
    BY SameAsks, SamePresents DEF callVars
  <1>2. S \in SUBSET Registry!Calls
    BY DEF Registry!Calls, Updaters
  <1>3. Registry!Lose(S)
    BY <1>1, EndIsLose DEF Registry!Lose
  <1> QED
    BY <1>2, <1>3 DEF Registry!Next

(* Steps in which a call only gets further unseen.                         *)
LEMMA Unseen ==
  ASSUME TypeOK, NEW c \in Updaters \union Requests, NEW s,
         pc' = [pc EXCEPT ![c] = s], Seen(s) = Seen(pc[c]),
         UNCHANGED <<apps, durable, op, token, login>>,
         \A d \in Commands : key'[d] = key[d]
  PROVE  UNCHANGED Registry!vars
  <1>1. Where' = Where /\ Asks' = Asks /\ Presents' = Presents
    BY Moved, SameAsks, SamePresents
  <1> QED
    BY <1>1 DEF Registry!vars

(* Every step of AppTokens is one of TokenRegistry, or none.               *)
LEMMA RegistryStep ==
  ASSUME Inv, Inv', Justified, [Next]_vars
  PROVE  [Registry!Next]_Registry!vars
  <1> TypeOK /\ Kinds
    BY DEF Inv
  <1>1. ASSUME NEW c \in Commands, BeginCommand(c) PROVE Registry!Next
    <2>1. /\ pc[c] = "idle" /\ pc' = [pc EXCEPT ![c] = "waiting"]
          /\ UNCHANGED <<apps, durable, token, login>>
      BY <1>1 DEF BeginCommand, Goto
    <2>2. PICK o \in Ops \ {"claim"}, k \in Keys :
              op' = [op EXCEPT ![c] = o] /\ key' = [key EXCEPT ![c] = k]
      BY <1>1 DEF BeginCommand
    <2>3. o \in {"new", "regen", "revoke"}
      BY DEF Ops
    <2>4. Asks' = [Asks EXCEPT ![c] = <<o, k>>]
      BY <2>2 DEF Asks, TypeOK, Updaters
    <2>5. Where[c] = "idle" /\ Where' = [Where EXCEPT ![c] = "asked"]
      BY <2>1, Moved DEF Seen, Updaters
    <2>6. Registry!Command(c)
      BY <2>1, <2>3, <2>4, <2>5, SamePresents DEF Registry!Command, Registry!Goto
    <2> QED
      BY <2>6 DEF Registry!Next
  <1>2. ASSUME NEW c \in Updaters, pc[c] = "waiting", NEW k, NEW x, NEW y, Change(c, k, x, y),
               c \in Commands => k = key[c]
        PROVE  UNCHANGED Registry!vars
    <2>1. \A d \in Commands : key'[d] = key[d]
      BY <1>2, CallsDiffer DEF Change, TypeOK, Updaters
    <2>2. pc' = [pc EXCEPT ![c] = "updating"] /\ UNCHANGED <<apps, durable, op, token, login>>
      BY <1>2 DEF Change
    <2> QED
      BY <1>2, <2>1, <2>2, Unseen DEF Seen
  <1>3. ASSUME NEW c \in Commands, AppNew(c) \/ AppRegen(c) \/ AppRevoke(c)
        PROVE  [Registry!Next]_Registry!vars
    <2>1. /\ c \in Updaters /\ pc[c] = "waiting" /\ key[c] \in Keys
          /\ \/ \E x, y : Change(c, key[c], x, y)
             \/ /\ Refuse(c)
                /\ \/ op[c] = "new" /\ apps[key[c]] # None
                   \/ op[c] \in {"regen", "revoke"} /\ apps[key[c]] = None
      BY <1>3 DEF AppNew, AppRegen, AppRevoke, Kinds, Updaters
    <2>2. CASE \E x, y : Change(c, key[c], x, y)
      BY <1>2, <2>1, <2>2
    <2>3. CASE Refuse(c) /\ (\/ op[c] = "new" /\ apps[key[c]] # None
                             \/ op[c] \in {"regen", "revoke"} /\ apps[key[c]] = None)
      BY <2>1, <2>3, RefuseIsRefuse
    <2> QED
      BY <2>1, <2>2, <2>3
  <1>4. ASSUME NEW q \in Claims, SpendSetupToken(q) PROVE [Registry!Next]_Registry!vars
    <2>1. /\ q \in Updaters /\ q \notin Commands /\ pc[q] = "waiting" /\ token[q] # None
          /\ \/ token[q] \notin Recognised(apps) /\ Refuse(q)
             \/ \E k \in Keys : Change(q, k, q, token[q])
      BY <1>4, CallsDiffer DEF SpendSetupToken, Kinds, Updaters
    <2>2. CASE \E k \in Keys : Change(q, k, q, token[q])
      BY <1>2, <2>1, <2>2
    <2>3. CASE token[q] \notin Recognised(apps) /\ Refuse(q)
      BY <2>1, <2>3, RefuseIsRefuse
    <2> QED
      BY <2>1, <2>2, <2>3
  <1>5. ASSUME NEW c \in Updaters, Save(c) PROVE Registry!Next
    BY <1>5, SaveIsEffect
  <1>6. ASSUME NEW c \in Updaters, Release(c) PROVE [Registry!Next]_Registry!vars
    <2>1. /\ pc[c] = "saved" /\ pc' = [pc EXCEPT ![c] = "released"]
          /\ durable' = apps \/ durable' = durable
          /\ UNCHANGED <<apps, op, key, token, login>>
      BY <1>6 DEF Release, Goto, callVars
    <2>2. Where' = Where /\ Asks' = Asks /\ Presents' = Presents
      BY <2>1, Moved, SameAsks, SamePresents DEF Seen
    <2>3. CASE durable' = apps
      BY <2>1, <2>2, <2>3 DEF Registry!Next, Registry!Harden
    <2>4. CASE durable' = durable
      BY <2>1, <2>2, <2>4 DEF Registry!vars
    <2> QED
      BY <2>1, <2>3, <2>4
  <1>7. ASSUME NEW c \in Updaters, Report(c) \/ Answer(c) \/ Fail(c) PROVE Registry!Next
    <2>1. /\ \/ pc[c] = "released" /\ pc' = [pc EXCEPT ![c] = "ok"]
             \/ pc[c] \in {"waiting", "updating"} /\ pc' = [pc EXCEPT ![c] = "error"]
          /\ UNCHANGED <<apps, durable, op, key, token, login>>
      BY <1>7 DEF Report, Answer, HandOver, Fail, Goto, callVars
    <2>2. \/ Where[c] = "effective" /\ Where' = [Where EXCEPT ![c] = "ok"]
          \/ Where[c] = "asked" /\ Where' = [Where EXCEPT ![c] = "error"]
      BY <2>1, Moved DEF Seen
    <2>3. Registry!Report(c) \/ Registry!Fail(c)
      BY <2>1, <2>2, SameAsks, SamePresents DEF Registry!Report, Registry!Fail, Registry!Goto
    <2> QED
      BY <2>3 DEF Registry!Next, Updaters
  <1>8. ASSUME NEW q \in Claims, ClaimArrives(q) PROVE Registry!Next
    <2>1. /\ pc[q] = "idle" /\ pc' = [pc EXCEPT ![q] = "queued"] /\ q \in Updaters
          /\ UNCHANGED <<apps, durable, key, login>>
          /\ op' = [op EXCEPT ![q] = "claim"]
      BY <1>8 DEF ClaimArrives, Goto, Updaters
    <2>2. PICK t \in Commands \union {Wrong} : token' = [token EXCEPT ![q] = t]
      BY <1>8 DEF ClaimArrives
    <2>3. Asks' = Asks
      BY <2>1, SameAsks, CallsDiffer DEF TypeOK, Updaters
    <2>4. Presents' = [Presents EXCEPT ![q] = t]
      BY <2>1, <2>2, CallsDiffer DEF Presents, TypeOK, Updaters
    <2>5. Where[q] = "idle" /\ Where' = [Where EXCEPT ![q] = "asked"]
      BY <2>1, Moved DEF Seen
    <2>6. Registry!Present(q)
      BY <2>1, <2>2, <2>3, <2>4, <2>5 DEF Registry!Present, Registry!Goto
    <2> QED
      BY <2>6 DEF Registry!Next
  <1>9. ASSUME NEW q \in Claims, DispatchClaim(q) PROVE UNCHANGED Registry!vars
    <2>1. /\ pc[q] = "queued" /\ pc' = [pc EXCEPT ![q] = "waiting"] /\ q \in Updaters
          /\ UNCHANGED <<apps, durable, op, key, token, login>>
      BY <1>9 DEF DispatchClaim, Goto, callVars, Updaters
    <2> QED
      BY <2>1, Unseen DEF Seen
  <1>10. ASSUME NEW q \in Claims, Disconnect(q) PROVE Registry!Next
    <2>1. /\ pc[q] = "released" /\ pc' = [pc EXCEPT ![q] = "lost"] /\ q \in Updaters
          /\ UNCHANGED <<apps, durable, callVars>>
      BY <1>10 DEF Disconnect, Goto, Updaters
    <2>2. pc' = End({q})
      BY <2>1 DEF End, TypeOK, InFlight, InUpdate
    <2> QED
      BY <2>1, <2>2, LoseIsLose
  <1>11. ASSUME NEW r \in Requests, RequestArrives(r) PROVE Registry!Next
    <2>1. /\ pc[r] = "idle" /\ pc' = [pc EXCEPT ![r] = "queued"]
          /\ UNCHANGED <<apps, durable, op, key, token>>
      BY <1>11 DEF RequestArrives, Goto
    <2>2. PICK u, p \in Claims \union {Wrong} : login' = [login EXCEPT ![r] = <<u, p>>]
      BY <1>11 DEF RequestArrives
    <2>3. Presents' = [Presents EXCEPT ![r] = <<u, p>>]
      BY <2>1, <2>2, CallsDiffer DEF Presents, TypeOK, Updaters
    <2>4. Where[r] = "idle" /\ Where' = [Where EXCEPT ![r] = "asked"]
      BY <2>1, Moved DEF Seen
    <2>5. Registry!Present(r)
      BY <2>1, <2>3, <2>4, SameAsks DEF Registry!Present, Registry!Goto
    <2> QED
      BY <2>5 DEF Registry!Next
  <1>12. ASSUME NEW r \in Requests, RefuseNoCredentials(r) \/ Authenticate(r)
         PROVE  Registry!Next
    <2>1. /\ UNCHANGED <<apps, durable, op, key, token, login>>
          /\ \/ pc[r] \in {"idle", "queued"} /\ pc' = [pc EXCEPT ![r] = "refused"]
             \/ /\ pc[r] = "queued" /\ pc' = [pc EXCEPT ![r] = "admitted"]
                /\ Matches(apps, r)
      BY <1>12 DEF RefuseNoCredentials, Authenticate, Goto, callVars
    <2>2. Asks' = Asks /\ Presents' = Presents /\ Presents[r] = login[r]
      BY <2>1, SameAsks, SamePresents, Presented
    <2>3. CASE pc[r] \in {"idle", "queued"} /\ pc' = [pc EXCEPT ![r] = "refused"]
      <3>1. Where[r] \in {"idle", "asked"} /\ Where' = [Where EXCEPT ![r] = "refused"]
        BY <2>3, Moved DEF Seen
      <3>2. Registry!TurnAway(r)
        BY <2>1, <2>2, <3>1 DEF Registry!TurnAway
      <3> QED
        BY <3>2 DEF Registry!Next
    <2>4. CASE /\ pc[r] = "queued" /\ pc' = [pc EXCEPT ![r] = "admitted"]
               /\ Matches(apps, r)
      <3>1. Where[r] = "asked" /\ Where' = [Where EXCEPT ![r] = "admitted"]
        BY <2>4, Moved DEF Seen
      <3>2. Registry!Admit(r)
        BY <2>1, <2>2, <2>4, <3>1 DEF Registry!Admit, Registry!Goto, Matches
      <3> QED
        BY <3>2 DEF Registry!Next
    <2> QED
      BY <2>1, <2>3, <2>4
  <1>13. ASSUME (\E c \in Commands : Die(c)) \/ ServerCrash PROVE Registry!Next
    <2>1. /\ \E S \in SUBSET (Updaters \union Requests) : pc' = End(S)
          /\ UNCHANGED <<apps, durable, callVars>>
      BY <1>13 DEF Die, ServerCrash, Served, Updaters
    <2> QED
      BY <2>1, LoseIsLose
  <1>14. ASSUME Writeback PROVE Registry!Next
    <2>1. UNCHANGED <<apps, Where, Asks, Presents>> /\ durable' = apps
      BY <1>14, SameAsks, SamePresents DEF Writeback, callVars, Where
    <2> QED
      BY <2>1 DEF Registry!Next, Registry!Harden
  <1>15. ASSUME PowerCut PROVE Registry!Next
    <2>1. /\ apps' = durable /\ UNCHANGED <<durable, callVars>>
          /\ pc' = End(Updaters \union Requests)
      BY <1>15 DEF PowerCut, TypeOK
    <2>2. Where' = Registry!End(Updaters \union Requests)
      BY <2>1, EndIsLose
    <2>3. Registry!Calls = Updaters \union Requests
      BY DEF Registry!Calls, Updaters
    <2>4. UNCHANGED <<Asks, Presents>>
      BY <2>1, SameAsks, SamePresents DEF callVars
    <2>5. Registry!PowerCut
      BY <2>1, <2>2, <2>3, <2>4 DEF Registry!PowerCut
    <2> QED
      BY <2>5 DEF Registry!Next
  <1>16. ASSUME UNCHANGED vars PROVE UNCHANGED Registry!vars
    <2>1. UNCHANGED <<apps, durable, Where, Asks, Presents>>
      BY <1>16, SameAsks, SamePresents DEF vars, callVars, Where
    <2> QED
      BY <2>1 DEF Registry!vars
  <1> QED
    BY <1>1, <1>3, <1>4, <1>5, <1>6, <1>7, <1>8, <1>9, <1>10, <1>11, <1>12, <1>13, <1>14,
       <1>15, <1>16 DEF Next, CommandNext, ClaimNext, Updaters

LEMMA RegistryInit == Init => Registry!Init
  <1> SUFFICES ASSUME Init PROVE Registry!Init
    OBVIOUS
  <1>1. Where = [c \in Updaters \union Requests |-> "idle"]
    BY DEF Init, Where, Seen
  <1>2. Asks = [c \in Commands |-> <<None, None>>]
    BY DEF Init, Asks, Updaters
  <1>3. Presents = [c \in Claims \union Requests |-> None]
    BY DEF Init, Presents
  <1>4. Registry!Calls = Updaters \union Requests
    BY DEF Registry!Calls, Updaters
  <1> QED
    BY <1>1, <1>2, <1>3, <1>4 DEF Registry!Init, Init, NoApps

(* Commands, claims and logins act on one registry of live secrets that    *)
(* takes one call at a time.                                               *)
THEOREM Refinement == Spec => ActsAsRegistry
  <1>1. Inv /\ Inv' /\ Justified /\ [Next]_vars => [Registry!Next]_Registry!vars
    BY RegistryStep
  <1> QED
    BY <1>1, RegistryInit, Invariance, JustifiedHolds, PTL
       DEF Spec, ActsAsRegistry, Registry!Spec

(***************************************************************************)
(* What a client app makes of its URLs (ClientUrls).                       *)
(***************************************************************************)
(* Where the parts of a joined text are.                                   *)
Joined(s, t) ==
    /\ Len(s \o t) = Len(s) + Len(t)
    /\ \A i \in 1..Len(s) : (s \o t)[i] = s[i]
    /\ \A i \in 1..Len(t) : (s \o t)[Len(s) + i] = t[i]

(* A joined text, and how to cut it where it was joined.                   *)
LEMMA Cut ==
  ASSUME NEW S, NEW s \in Seq(S), NEW t \in Seq(S)
  PROVE  /\ s \o t \in Seq(S)
         /\ Joined(s, t)
         /\ SubSeq(s \o t, 1, Len(s)) = s
         /\ SubSeq(s \o t, Len(s) + 1, Len(s) + Len(t)) = t
  <1> DEFINE st == s \o t
  <1>1. /\ st \in Seq(S) /\ Len(st) = Len(s) + Len(t)
        /\ Len(s) \in Nat /\ Len(t) \in Nat
    OBVIOUS
  <1>2. Joined(s, t)
    BY DEF Joined
  <1>3. SubSeq(st, 1, Len(s)) = s
    <2>1. \A i \in 1..Len(s) : st[i] \in S
      BY <1>1, <1>2 DEF Joined
    <2> DEFINE cut == SubSeq(st, 1, Len(s))
    <2>2. cut \in Seq(S) /\ Len(cut) = Len(s) /\ \A i \in 1..Len(s) : cut[i] = st[i]
      BY <1>1, <2>1, SubSeqProperties
    <2> HIDE DEF cut, st
    <2>3. cut = s
      BY <1>2, <2>2, SeqEqual DEF Joined, st
    <2> QED
      BY <2>3 DEF cut
  <1>4. SubSeq(st, Len(s) + 1, Len(s) + Len(t)) = t
    <2>1. \A i \in Len(s) + 1..Len(s) + Len(t) : st[i] \in S
      BY <1>1
    <2> DEFINE cut == SubSeq(st, Len(s) + 1, Len(s) + Len(t))
    <2>2. cut \in Seq(S) /\ Len(cut) = Len(t) /\ \A i \in 1..Len(t) : cut[i] = st[Len(s) + i]
      BY <1>1, <2>1, SubSeqProperties
    <2> HIDE DEF cut, st
    <2>3. cut = t
      BY <1>2, <2>2, SeqEqual DEF Joined, st
    <2> QED
      BY <2>3 DEF cut
  <1> QED
    BY <1>1, <1>2, <1>3, <1>4

Without(c, text) == \A i \in DOMAIN text : text[i] # c

(* The first c of a text is where the second part begins with it.          *)
LEMMA FirstIs ==
  ASSUME NEW S, NEW s \in Seq(S), NEW t \in Seq(S), NEW c,
         Without(c, s), t = <<>> \/ t[1] = c
  PROVE  First(c, s \o t) = Len(s) + 1
  <1> DEFINE st == s \o t
             at == {i \in DOMAIN st : st[i] = c}
  <1>1. /\ Joined(s, t) /\ DOMAIN st = 1..Len(st) /\ DOMAIN s = 1..Len(s)
        /\ Len(s) \in Nat /\ Len(t) \in Nat /\ Len(st) \in Nat
    BY SMTT(30), Cut
  <1>2. \A i \in at : Len(s) + 1 <= i /\ i \in Nat
    BY <1>1 DEF Without, Joined
  <1>3. CASE t = <<>>
    <2>1. at = {}
      BY <1>1, <1>2, <1>3 DEF Joined
    <2> QED
      BY <1>1, <1>3, <2>1 DEF First, Joined
  <1>4. CASE t # <<>>
    <2>1. Len(s) + 1 \in at
      BY <1>1, <1>4 DEF Joined
    <2>2. First(c, st) = CHOOSE i \in at : \A j \in at : i <= j
      BY <2>1 DEF First
    <2> HIDE DEF at
    <2>3. \A i \in at : (\A j \in at : i <= j) => i = Len(s) + 1
      BY <1>1, <1>2, <2>1
    <2> QED
      BY <1>2, <2>1, <2>2, <2>3
  <1> QED
    BY <1>3, <1>4

(* The last "@" of a text is where the first part ends with it.            *)
LEMMA LastIs ==
  ASSUME NEW S, NEW s \in Seq(S), NEW t \in Seq(S),
         Without(C("@"), t), s = <<>> \/ s[Len(s)] = C("@")
  PROVE  LastAt(s \o t) = Len(s)
  <1> DEFINE st == s \o t
             at == {i \in DOMAIN st : st[i] = C("@")}
  <1>1. /\ Joined(s, t) /\ DOMAIN st = 1..Len(st) /\ DOMAIN t = 1..Len(t)
        /\ Len(s) \in Nat /\ Len(t) \in Nat /\ Len(st) \in Nat
    BY SMTT(30), Cut
  <1>2. ASSUME NEW i \in at PROVE i <= Len(s) /\ i \in Nat
    <2>1. ASSUME i > Len(s) PROVE FALSE
      <3>1. i - Len(s) \in 1..Len(t) /\ st[Len(s) + (i - Len(s))] = t[i - Len(s)]
        BY <1>1, <2>1 DEF Joined
      <3> QED
        BY <1>1, <3>1 DEF Without
    <2> QED
      BY <1>1, <2>1
  <1>3. CASE s = <<>>
    <2>1. at = {}
      BY <1>1, <1>2, <1>3
    <2> QED
      BY <1>3, <2>1 DEF LastAt
  <1>4. CASE s # <<>>
    <2>1. Len(s) \in at
      BY <1>1, <1>4 DEF Joined
    <2>2. LastAt(st) = CHOOSE i \in at : \A j \in at : j <= i
      BY <2>1 DEF LastAt
    <2> HIDE DEF at
    <2>3. \A i \in at : (\A j \in at : j <= i) => i = Len(s)
      BY <1>1, <1>2, <2>1
    <2> QED
      BY <1>2, <2>1, <2>2, <2>3
  <1> QED
    BY <1>3, <1>4

(* Quoting leaves nothing that ends a part of a URL, and is undone.         *)
LEMMA Quoted ==
  ASSUME NEW text \in Seq(Char)
  PROVE  /\ Quote(text) \in Seq(Char) /\ Len(Quote(text)) = Len(text)
         /\ \A c \in {"/", ":", "@"} : Without(C(c), Quote(text))
         /\ Unquote(Quote(text)) = text
  <1> DEFINE q == Quote(text)
             One(c) == IF c[2] = 0 /\ c[1] \in Unreserved THEN c ELSE <<c[1], c[2] + 1>>
  <1>1. \A c \in Char : /\ One(c) \in Char
                        /\ One(c)[2] = 0 => One(c)[1] \in Unreserved
                        /\ One(c)[1] = c[1]
                        /\ c[2] = IF One(c)[2] = 0 THEN 0 ELSE One(c)[2] - 1
    BY DEF Char
  <1>2. DOMAIN text = 1..Len(text) /\ Len(text) \in Nat /\ \A i \in 1..Len(text) : text[i] \in Char
    OBVIOUS
  <1>3. DOMAIN q = 1..Len(text) /\ \A i \in 1..Len(text) : q[i] = One(text[i])
    BY <1>2 DEF Quote
  <1>4. q \in Seq(Char) /\ Len(q) = Len(text)
    <2>1. q = [i \in 1..Len(text) |-> One(text[i])]
      BY <1>2 DEF Quote
    <2> HIDE DEF q, One
    <2>2. \A i \in 1..Len(text) : One(text[i]) \in Char
      BY <1>1, <1>2
    <2> QED
      BY <1>2, <2>1, <2>2
  <1>5. ASSUME NEW c \in {"/", ":", "@"} PROVE Without(C(c), q)
    <2> HIDE DEF q
    <2> SUFFICES ASSUME NEW i \in 1..Len(text), q[i] = C(c) PROVE FALSE
      BY <1>3 DEF Without
    <2>1. One(text[i])[2] = 0 /\ One(text[i])[1] = c
      BY <1>3 DEF C
    <2> HIDE DEF One
    <2>2. c \in Unreserved
      BY <1>1, <1>2, <2>1
    <2> QED
      BY <2>2, SymbolsAssumption
  <1>6. Unquote(q) = text
    <2> HIDE DEF q, One
    <2>1. Unquote(q) = [i \in 1..Len(text) |->
                            <<q[i][1], IF q[i][2] = 0 THEN 0 ELSE q[i][2] - 1>>]
      BY <1>3 DEF Unquote
    <2>2. \A i \in 1..Len(text) : text[i] = <<q[i][1], IF q[i][2] = 0 THEN 0 ELSE q[i][2] - 1>>
      <3> SUFFICES ASSUME NEW i \in 1..Len(text)
                   PROVE  text[i] = <<q[i][1], IF q[i][2] = 0 THEN 0 ELSE q[i][2] - 1>>
        OBVIOUS
      <3>1. text[i] \in Char /\ q[i] = One(text[i])
        BY <1>2, <1>3
      <3>2. text[i] = <<text[i][1], text[i][2]>>
        BY <3>1 DEF Char
      <3> QED
        BY <1>1, <3>1, <3>2
    <2>3. text = [i \in 1..Len(text) |-> text[i]]
      BY <1>2
    <2> QED
      BY <2>1, <2>2, <2>3
  <1> QED
    BY <1>4, <1>5, <1>6

(* What is left of a path begins as the path does.                         *)
LEMMA StrippedIs ==
  ASSUME NEW path \in Seq(Char)
  PROVE  /\ Stripped(path) \in Seq(Char)
         /\ Stripped(path) = <<>> \/ Stripped(path)[1] = path[1]
  <1> DEFINE kept == {i \in DOMAIN path : path[i] # Slash}
  <1>1. DOMAIN path = 1..Len(path) /\ Len(path) \in Nat
    OBVIOUS
  <1>2. CASE kept = {}
    <2>1. Stripped(path) = SubSeq(path, 1, 0)
      BY <1>2 DEF Stripped
    <2> QED
      BY <2>1
  <1>3. CASE kept # {}
    <2> DEFINE last == CHOOSE i \in kept : \A j \in kept : j <= i
               T == {Len(path) - i : i \in kept}
    <2>1. \E i \in kept : \A j \in kept : j <= i
      <3>1. T \subseteq Nat /\ T # {}
        BY <1>1, <1>3
      <3> HIDE DEF T
      <3>2. PICK m \in T : \A k \in T : m <= k
        BY <3>1, Least
      <3> USE DEF T
      <3>3. PICK i \in kept : m = Len(path) - i
        BY <3>2
      <3>4. \A j \in kept : Len(path) - i <= Len(path) - j
        BY <3>2, <3>3
      <3> QED
        BY <1>1, <3>3, <3>4
    <2>2. last \in kept
      BY <2>1
    <2>3. Stripped(path) = SubSeq(path, 1, last)
      BY <1>3 DEF Stripped
    <2> HIDE DEF last
    <2>4. last \in 1..Len(path)
      BY <1>1, <2>2
    <2> QED
      BY <1>1, <2>3, <2>4, SubSeqProperties
  <1> QED
    BY <1>2, <1>3

(* A URL of a scheme, a netloc in which nothing before the host ends the     *)
(* path or the host, and a path; and what a client takes out of it.        *)
Written(u, scheme, before, host, path) ==
    /\ scheme \in Char /\ before \in Seq(Char) /\ host \in Seq(Char) /\ path \in Seq(Char)
    /\ u = Unsplit(scheme, before \o host, path)
    /\ path # <<>> /\ path[1] = Slash
    /\ Without(Slash, before) /\ Without(Slash, host) /\ Without(C("@"), host)
    /\ before = <<>> \/ before[Len(before)] = C("@")

TakenApart(u, scheme, before, host, path) ==
    /\ u # <<>>
    /\ Head(u) = scheme
    /\ Authority(u) = before \o host
    /\ Path(u) = path
    /\ Host(u) = host
    /\ UserInfo(u) = SubSeq(before \o host, 1, Len(before) - 1)

LEMMA Apart ==
  ASSUME NEW u, NEW scheme, NEW before, NEW host, NEW path,
         Written(u, scheme, before, host, path)
  PROVE  TakenApart(u, scheme, before, host, path)
  <1> USE DEF Written
  <1> DEFINE authority == before \o host
             tail == authority \o path
  <1>1. /\ authority \in Seq(Char) /\ tail \in Seq(Char)
        /\ Joined(before, host) /\ Joined(authority, path)
    BY Cut
  <1>2. u # <<>> /\ Head(u) = scheme /\ Tail(u) = tail /\ Len(u) = Len(tail) + 1
    BY <1>1 DEF Unsplit
  <1>3. Without(Slash, authority)
    <2> SUFFICES ASSUME NEW i \in 1..Len(authority), authority[i] = Slash PROVE FALSE
      BY <1>1 DEF Without
    <2>1. Len(before) \in Nat /\ Len(host) \in Nat
      OBVIOUS
    <2>2. CASE i <= Len(before)
      BY <1>1, <2>1, <2>2 DEF Joined, Without
    <2>3. CASE i > Len(before)
      <3>1. i - Len(before) \in 1..Len(host)
        BY <1>1, <2>1, <2>3 DEF Joined
      <3>2. authority[Len(before) + (i - Len(before))] = host[i - Len(before)]
        BY <1>1, <3>1 DEF Joined
      <3> QED
        BY <2>1, <3>1, <3>2 DEF Without
    <2> QED
      BY <2>1, <2>2, <2>3
  <1> HIDE DEF authority, tail
  <1>4. First(Slash, Tail(u)) = Len(authority) + 1
    BY <1>1, <1>2, <1>3, FirstIs DEF tail
  <1>5. Len(authority) \in Nat /\ Len(path) \in Nat /\ Len(tail) = Len(authority) + Len(path)
    BY <1>1 DEF Joined, tail
  <1>6. Authority(u) = authority /\ Path(u) = path
    <2>1. SubSeq(tail, 1, Len(authority)) = authority
      BY <1>1, Cut DEF tail
    <2>2. SubSeq(tail, Len(authority) + 1, Len(authority) + Len(path)) = path
      BY <1>1, Cut DEF tail
    <2>3. First(Slash, Tail(u)) - 1 = Len(authority) /\ Len(u) - 1 = Len(authority) + Len(path)
      BY <1>2, <1>4, <1>5
    <2> QED
      BY <1>2, <1>4, <2>1, <2>2, <2>3 DEF Authority, Path
  <1>7. LastAt(Authority(u)) = Len(before)
    BY <1>6, LastIs DEF authority
  <1>8. Host(u) = host
    <2>1. SubSeq(authority, Len(before) + 1, Len(before) + Len(host)) = host
      BY Cut DEF authority
    <2> QED
      BY <1>1, <1>6, <1>7, <2>1 DEF Host, Joined, authority
  <1>9. UserInfo(u) = SubSeq(authority, 1, Len(before) - 1)
    BY <1>6, <1>7 DEF UserInfo
  <1> QED
    BY <1>2, <1>6, <1>8, <1>9 DEF authority, TakenApart

(* What neither part has is not in the whole.                              *)
LEMMA WithoutBoth ==
  ASSUME NEW S, NEW s \in Seq(S), NEW t \in Seq(S), NEW c, Without(c, s), Without(c, t)
  PROVE  Without(c, s \o t)
  <1> DEFINE st == s \o t
  <1>1. Joined(s, t) /\ DOMAIN st = 1..Len(st) /\ Len(s) \in Nat /\ Len(t) \in Nat
    BY Cut
  <1> SUFFICES ASSUME NEW i \in 1..Len(st), st[i] = c PROVE FALSE
    BY <1>1 DEF Without
  <1>2. CASE i <= Len(s)
    BY <1>1, <1>2 DEF Joined, Without
  <1>3. CASE i > Len(s)
    <2>1. i - Len(s) \in 1..Len(t)
      BY <1>1, <1>3 DEF Joined
    <2>2. st[Len(s) + (i - Len(s))] = t[i - Len(s)]
      BY <1>1, <2>1 DEF Joined
    <2> QED
      BY <1>1, <2>1, <2>2 DEF Without
  <1> QED
    BY <1>1, <1>2, <1>3

(* What comes after base_url is what the server gets.                       *)
LEMMA PassedIs ==
  ASSUME base.path \in Seq(Char), NEW rest \in Seq(Char)
  PROVE  Passed(Stripped(base.path) \o rest) = rest
  <1> DEFINE place == Stripped(base.path)
             path == place \o rest
  <1>1. place \in Seq(Char)
    BY StrippedIs
  <1> HIDE DEF place
  <1>2. SubSeq(path, Len(place) + 1, Len(path)) = rest /\ Joined(place, rest)
    BY <1>1, Cut DEF Joined
  <1>3. IsPrefix(place, path)
    BY <1>1, <1>2 DEF IsPrefix, Joined
  <1> QED
    BY <1>2, <1>3 DEF Passed, place

Segment(word) == <<Slash, C(word)>>

(* The words of the paths.                                                 *)
LEMMA Words ==
  /\ ClaimPrefix \in Seq(Char) /\ ClaimPrefix[1] = Slash /\ Len(ClaimPrefix) = 5
  /\ \A word \in {"simplefin", "accounts"} :
         /\ Segment(word) \in Seq(Char) /\ Segment(word)[1] = Slash
         /\ Len(Segment(word)) = 2
  /\ C(":") \in Char /\ C("@") \in Char /\ Slash \in Char
  <1>1. \A c \in {"/", ":", "@", "simplefin", "claim", "accounts"} : C(c) \in Char
    BY SymbolsAssumption DEF C, Char
  <1> QED
    BY <1>1 DEF ClaimPrefix, Segment, Slash

(* What the config accepts, of what urlsplit makes of a base_url.          *)
Sound(b) ==
    /\ b \in Base /\ BaseOK(b)
    /\ Without(Slash, b.host) /\ Without(C("@"), b.host)
    /\ b.path # <<>> => b.path[1] = Slash

(* The path of a URL below base_url.                                       *)
LEMMA Below ==
  ASSUME NEW b, Sound(b), NEW rest \in Seq(Char), rest # <<>>, rest[1] = Slash
  PROVE  LET path == Stripped(b.path) \o rest
         IN  path \in Seq(Char) /\ path # <<>> /\ path[1] = Slash
  <1> DEFINE place == Stripped(b.path)
  <1>1. /\ place \in Seq(Char)
        /\ place = <<>> \/ (b.path # <<>> /\ place[1] = Slash)
    <2>1. b.path \in Seq(Char)
      BY DEF Sound, Base
    <2>2. place \in Seq(Char) /\ (place = <<>> \/ place[1] = b.path[1])
      BY <2>1, StrippedIs
    <2>3. b.path = <<>> => place = <<>>
      <3>1. Stripped(<<>>) = <<>>
        BY DEF Stripped
      <3> QED
        BY <3>1
    <2> HIDE DEF place
    <2> QED
      BY <2>2, <2>3 DEF Sound
  <1> HIDE DEF place
  <1>2. place \o rest \in Seq(Char) /\ place \o rest # <<>> /\ (place \o rest)[1] = Slash
    BY <1>1
  <1> QED
    BY <1>2 DEF place

Place(b, rest) == Stripped(b.path) \o rest

(* The claim URL, taken apart.                                             *)
LEMMA ClaimUrlIs ==
  ASSUME NEW b, Sound(b), NEW s \in ClaimSecrets
  PROVE  LET u == ClaimUrl(b, s)
         IN  /\ u # <<>> /\ Head(u) = b.scheme /\ Host(u) = b.host
             /\ ClaimPrefix \o s \in Seq(Char)
             /\ Path(u) = Place(b, ClaimPrefix \o s)
  <1> DEFINE rest == ClaimPrefix \o s
             path == Place(b, rest)
             host == b.host
             scheme == b.scheme
             u == ClaimUrl(b, s)
  <1>1. /\ scheme \in Char /\ host \in Seq(Char)
        /\ Without(Slash, host) /\ Without(C("@"), host)
    BY DEF Sound, Base
  <1>2. s \in Seq(Char)
    BY SecretsAssumption, SymbolsAssumption DEF Char
  <1>3. rest \in Seq(Char) /\ rest # <<>> /\ rest[1] = Slash
    <2>1. rest \in Seq(Char) /\ Joined(ClaimPrefix, s)
      BY <1>2, Words, Cut
    <2>2. 1 \in 1..Len(ClaimPrefix) /\ Len(s) \in Nat
      BY <1>2, Words
    <2>3. Len(rest) # 0 /\ rest[1] = Slash
      BY <2>1, <2>2, Words DEF Joined
    <2> HIDE DEF rest
    <2> QED
      BY <2>1, <2>3
  <1> HIDE DEF rest
  <1>4. path \in Seq(Char) /\ path # <<>> /\ path[1] = Slash
    BY <1>3, Below DEF Place
  <1>5. u = Unsplit(scheme, host, path)
    BY DEF ClaimUrl, Place, rest
  <1> HIDE DEF host, scheme, path, u
  <1>6. <<>> \in Seq(Char) /\ Without(Slash, <<>>) /\ <<>> \o host = host
    BY <1>1 DEF Without
  <1> DEFINE none == <<>>
  <1>7. none \in Seq(Char) /\ Without(Slash, none) /\ none \o host = host
        /\ (none = <<>> \/ none[Len(none)] = C("@"))
    BY <1>6
  <1> HIDE DEF none
  <1>8. u = Unsplit(scheme, none \o host, path)
    BY <1>5, <1>7
  <1>9. Written(u, scheme, none, host, path)
    BY <1>1, <1>4, <1>7, <1>8 DEF Written
  <1>10. u # <<>> /\ Head(u) = scheme /\ Host(u) = host /\ Path(u) = path
    BY <1>9, Apart DEF TakenApart
  <1> QED
    BY <1>3, <1>10 DEF u, rest, host, scheme, path

(* What stands before the host, taken apart.                               *)
LEMMA UserPartIs ==
  ASSUME NEW user \in Credentials, NEW pass \in Credentials
  PROVE  LET part == UserPart(user, pass)
         IN  /\ part \in Seq(Char) /\ Without(Slash, part)
             /\ Unquote(SubSeq(part, 1, First(C(":"), part) - 1)) = user
             /\ Unquote(SubSeq(part, First(C(":"), part) + 1, Len(part))) = pass
  <1> DEFINE first == Quote(user)
             second == Quote(pass)
             colon == <<C(":")>>
             after == colon \o second
             part == UserPart(user, pass)
  <1>1. first \in Seq(Char) /\ second \in Seq(Char) /\ colon \in Seq(Char)
    BY Quoted, CredentialsAssumption, Words
  <1>2. /\ Unquote(first) = user /\ Unquote(second) = pass
        /\ Without(Slash, first) /\ Without(Slash, second) /\ Without(C(":"), first)
    BY Quoted, CredentialsAssumption DEF Slash
  <1>3. Without(Slash, colon) /\ Len(colon) = 1 /\ colon[1] = C(":")
    BY DEF Without, C, Slash
  <1>4. part = first \o after
    BY DEF UserPart
  <1> HIDE DEF first, second, colon, part
  <1>5. /\ after \in Seq(Char) /\ Joined(colon, second) /\ Without(Slash, after)
        /\ SubSeq(after, Len(colon) + 1, Len(colon) + Len(second)) = second
    <2>1. /\ after \in Seq(Char) /\ Joined(colon, second)
          /\ SubSeq(after, Len(colon) + 1, Len(colon) + Len(second)) = second
      BY <1>1, Cut
    <2>2. Without(Slash, after)
      BY <1>1, <1>2, <1>3, WithoutBoth
    <2> QED
      BY <2>1, <2>2
  <1> HIDE DEF after
  <1>6. /\ part \in Seq(Char) /\ Joined(first, after) /\ Without(Slash, part)
        /\ SubSeq(part, 1, Len(first)) = first
    BY <1>1, <1>2, <1>4, <1>5, Cut, WithoutBoth
  <1>7. First(C(":"), part) = Len(first) + 1
    <2>1. after[1] = C(":")
      BY <1>3, <1>5 DEF Joined, after
    <2> QED
      BY <1>1, <1>2, <1>4, <1>5, <2>1, FirstIs
  <1>8. SubSeq(part, Len(first) + 2, Len(part)) = second
    <2> DEFINE cut == SubSeq(part, Len(first) + 2, Len(part))
    <2>1. /\ Len(first) \in Nat /\ Len(second) \in Nat
          /\ Len(part) = Len(first) + 1 + Len(second)
      BY <1>1, <1>3, <1>4, <1>5, <1>6 DEF Joined, after
    <2>2. \A i \in Len(first) + 2..Len(part) : part[i] \in Char
      BY <1>6, <2>1
    <2>3. /\ cut \in Seq(Char) /\ Len(cut) = Len(second)
          /\ \A i \in 1..Len(second) : cut[i] = part[Len(first) + 1 + i]
      BY <2>1, <2>2, SubSeqProperties
    <2> HIDE DEF cut
    <2>4. ASSUME NEW i \in 1..Len(second) PROVE cut[i] = second[i]
      <3>1. 1 + i \in 1..Len(after) /\ after[1 + i] = second[i]
        BY <1>3, <1>5, <2>1 DEF Joined, after
      <3>2. part[Len(first) + (1 + i)] = after[1 + i]
        BY <1>4, <1>6, <3>1 DEF Joined
      <3>3. Len(first) + (1 + i) = Len(first) + 1 + i
        BY <2>1
      <3> QED
        BY <2>3, <3>1, <3>2, <3>3
    <2>5. cut = second
      BY <1>1, <2>3, <2>4, SeqEqual
    <2> QED
      BY <2>5 DEF cut
  <1>9. /\ (Len(first) + 1) - 1 = Len(first) /\ (Len(first) + 1) + 1 = Len(first) + 2
    BY <1>1
  <1> QED
    BY <1>2, <1>6, <1>7, <1>8, <1>9 DEF part

(* The access URL, taken apart.                                            *)
LEMMA AccessUrlIs ==
  ASSUME NEW b, Sound(b), NEW user \in Credentials, NEW pass \in Credentials
  PROVE  LET u == AccessUrl(b, user, pass)
         IN  /\ u # <<>> /\ Head(u) = b.scheme /\ Host(u) = b.host
             /\ Path(u) = Place(b, Segment("simplefin"))
             /\ User(u) = user /\ Password(u) = pass
  <1> DEFINE rest == Segment("simplefin")
             path == Place(b, rest)
             host == b.host
             scheme == b.scheme
             part == UserPart(user, pass)
             at == <<C("@")>>
             before == part \o at
             u == AccessUrl(b, user, pass)
  <1>1. /\ scheme \in Char /\ host \in Seq(Char)
        /\ Without(Slash, host) /\ Without(C("@"), host)
    BY DEF Sound, Base
  <1>2. part \in Seq(Char) /\ Without(Slash, part)
    BY UserPartIs
  <1>3. rest \in Seq(Char) /\ rest # <<>> /\ rest[1] = Slash /\ at \in Seq(Char)
    BY Words
  <1>4. Without(Slash, at) /\ Len(at) = 1 /\ at[1] = C("@")
    BY DEF Without, C, Slash
  <1>5. path \in Seq(Char) /\ path # <<>> /\ path[1] = Slash
    BY <1>3, Below DEF Place
  <1>6. u = Unsplit(scheme, before \o host, path)
    BY DEF AccessUrl, Place, Segment
  <1> HIDE DEF rest, path, host, scheme, part, at, u
  <1>7. /\ before \in Seq(Char) /\ Joined(part, at) /\ Without(Slash, before)
        /\ SubSeq(before, 1, Len(part)) = part
    BY <1>2, <1>3, <1>4, Cut, WithoutBoth
  <1>8. /\ Len(part) \in Nat /\ Len(before) = Len(part) + 1
        /\ before[Len(before)] = C("@") /\ before # <<>>
    BY <1>2, <1>4, <1>7 DEF Joined
  <1> HIDE DEF before
  <1>9. Written(u, scheme, before, host, path)
    BY <1>1, <1>5, <1>6, <1>7, <1>8 DEF Written
  <1>10. /\ u # <<>> /\ Head(u) = scheme /\ Host(u) = host /\ Path(u) = path
         /\ UserInfo(u) = SubSeq(before \o host, 1, Len(before) - 1)
    BY <1>9, Apart DEF TakenApart
  <1>11. UserInfo(u) = part
    <2> DEFINE all == before \o host
               cut == SubSeq(all, 1, Len(part))
    <2>1. all \in Seq(Char) /\ Joined(before, host) /\ Len(host) \in Nat
      BY <1>1, <1>7, Cut
    <2>2. \A i \in 1..Len(part) : all[i] \in Char /\ all[i] = part[i]
      <3> SUFFICES ASSUME NEW i \in 1..Len(part) PROVE all[i] \in Char /\ all[i] = part[i]
        OBVIOUS
      <3>1. i \in 1..Len(before) /\ before[i] = part[i]
        BY <1>7, <1>8 DEF Joined, before
      <3>2. all[i] = before[i]
        BY <2>1, <3>1 DEF Joined
      <3> QED
        BY <1>2, <3>1, <3>2
    <2> HIDE DEF all
    <2>3. cut \in Seq(Char) /\ Len(cut) = Len(part) /\ \A i \in 1..Len(part) : cut[i] = part[i]
      BY <1>8, <2>2, SubSeqProperties
    <2> HIDE DEF cut
    <2>4. cut = part
      BY <1>2, <2>3, SeqEqual
    <2>5. Len(before) - 1 = Len(part)
      BY <1>8
    <2> QED
      BY <1>10, <2>4, <2>5 DEF cut, all
  <1>12. User(u) = user /\ Password(u) = pass
    BY <1>11, UserPartIs DEF User, Password, part
  <1> QED
    BY <1>10, <1>12 DEF u, host, scheme, path, rest

Reached == <<Slash, C("simplefin"), Slash, C("accounts")>>

(* What a client app holds, at each stage.                                 *)
Held ==
    /\ Sound(base)
    /\ secret \in ClaimSecrets
    /\ stage \in {"none", "token", "access", "asked"}
    /\ stage = "none" => url = <<>>
    /\ stage = "token" => url = ClaimUrl(base, secret)
    /\ stage \in {"access", "asked"} =>
           /\ username \in Credentials /\ password \in Credentials
           /\ url = AccessUrl(base, username, password)
    /\ stage = "asked" => asked = [to |-> Reached, user |-> username, password |-> password]

LEMMA HeldInit == ClientInit => Held
  <1> SUFFICES ASSUME ClientInit PROVE Held
    OBVIOUS
  <1>1. Sound(base)
    BY BasesAssumption DEF ClientInit, Sound, Without, Slash, C, Base
  <1> QED
    BY <1>1 DEF ClientInit, Held

(* A claim URL leads to the claim route.                                   *)
LEMMA ClaimAnswered ==
  ASSUME Held, stage = "token"
  PROVE  Passed(Path(url)) = ClaimPrefix \o secret
  <1> DEFINE rest == ClaimPrefix \o secret
  <1>1. rest \in Seq(Char) /\ Path(url) = Stripped(base.path) \o rest
    BY ClaimUrlIs DEF Held, Place
  <1>2. base.path \in Seq(Char)
    BY DEF Held, Sound, Base
  <1> HIDE DEF rest
  <1>3. Passed(Stripped(base.path) \o rest) = rest
    BY <1>1, <1>2, PassedIs
  <1> QED
    BY <1>1, <1>3 DEF rest

(* Two words and two words.                                                *)
LEMMA FourIs ==
  ASSUME NEW S, NEW a \in S, NEW b \in S, NEW c \in S, NEW d \in S
  PROVE  <<a, b>> \o <<c, d>> = <<a, b, c, d>>
  <1> DEFINE joined == <<a, b>> \o <<c, d>>
             four == <<a, b, c, d>>
  <1>1. joined \in Seq(S) /\ Len(joined) = 4 /\ four \in Seq(S) /\ Len(four) = 4
    OBVIOUS
  <1>2. \A i \in 1..4 : joined[i] = four[i]
    OBVIOUS
  <1> HIDE DEF joined, four
  <1>3. joined = four
    BY <1>1, <1>2, SeqEqual
  <1> QED
    BY <1>3 DEF joined, four

(* An access URL leads to the accounts.                                    *)
LEMMA AskAnswered ==
  ASSUME Held, stage \in {"access", "asked"}
  PROVE  Passed(Path(url) \o <<Slash, C("accounts")>>) = Reached
  <1> DEFINE place == Stripped(base.path)
             one == Segment("simplefin")
             two == Segment("accounts")
  <1>1. Path(url) = place \o one
    BY AccessUrlIs DEF Held, Place
  <1>2. base.path \in Seq(Char) /\ place \in Seq(Char)
    BY StrippedIs DEF Held, Sound, Base
  <1>3. one \in Seq(Char) /\ two \in Seq(Char)
    BY Words
  <1>4. one \o two = Reached
    <2>1. Slash \in Char /\ C("simplefin") \in Char /\ C("accounts") \in Char
      BY SymbolsAssumption DEF Slash, C, Char
    <2> QED
      BY <2>1, FourIs DEF Segment, Reached
  <1> HIDE DEF place, one, two
  <1>5. (place \o one) \o two = place \o (one \o two) /\ one \o two \in Seq(Char)
    BY <1>2, <1>3, ConcatAssociative
  <1>6. Passed(place \o (one \o two)) = one \o two
    BY <1>2, <1>5, PassedIs DEF place
  <1>7. two = <<Slash, C("accounts")>>
    BY DEF two, Segment
  <1> QED
    BY <1>1, <1>4, <1>5, <1>6, <1>7

LEMMA HeldStep == Held /\ [ClientNext]_clientVars => Held'
  <1> SUFFICES ASSUME Held, [ClientNext]_clientVars PROVE Held'
    OBVIOUS
  <1>1. CASE Issue
    BY <1>1 DEF Issue, Held
  <1>2. CASE Exchange
    <2>1. asked'.to = ClaimPrefix \o secret
      BY <1>2, ClaimAnswered DEF Exchange, Nothing
    <2>2. PICK user \in Credentials, pass \in Credentials :
             /\ username' = user /\ password' = pass
             /\ url' = AccessUrl(base, user, pass)
             /\ stage' = "access" /\ UNCHANGED <<base, secret>>
      BY <1>2, <2>1 DEF Exchange
    <2> QED
      BY <2>2 DEF Held
  <1>3. CASE AskAccounts
    <2>1. stage \in {"access", "asked"} /\ stage' = "asked"
          /\ UNCHANGED <<base, secret, username, password, url>>
      BY <1>3 DEF AskAccounts
    <2>2. User(url) = username /\ Password(url) = password
      BY <2>1, AccessUrlIs DEF Held
    <2>3. asked' = [to |-> Reached, user |-> username, password |-> password]
      BY <1>3, <2>1, <2>2, AskAnswered DEF AskAccounts
    <2> QED
      BY <2>1, <2>3 DEF Held
  <1>4. CASE UNCHANGED clientVars
    BY <1>4 DEF clientVars, Held
  <1> QED
    BY <1>1, <1>2, <1>3, <1>4 DEF ClientNext

LEMMA HeldAlways == ClientSpec => []Held
  BY HeldInit, HeldStep, PTL DEF ClientSpec

(* For every base_url the config accepts and every secret, the setup token   *)
(* leads to the claim route (build_setup_token).                           *)
THEOREM TokenArrives == ClientSpec => []TokenReachesClaim
  <1>1. Held => TokenReachesClaim
    BY DEF Held, TokenReachesClaim
  <1> QED
    BY <1>1, HeldAlways, PTL

(* For every credential, whatever its characters, a client takes out of the  *)
(* access URL what the claim issued, and sends it to the host of base_url,  *)
(* in the clear to this machine only (build_access_url).                   *)
THEOREM CredentialsArrive == ClientSpec => []CredentialsSurvive
  <1>1. Held => CredentialsSurvive
    <2> SUFFICES ASSUME Held PROVE CredentialsSurvive
      OBVIOUS
    <2>1. url # <<>> => Host(url) = base.host /\ Head(url) = base.scheme
      BY ClaimUrlIs, AccessUrlIs DEF Held
    <2>2. base.scheme = Http => Loopback(base.host)
      BY DEF Held, Sound, BaseOK
    <2> QED
      BY <2>1, <2>2 DEF Held, Reached, CredentialsSurvive
  <1> QED
    BY <1>1, HeldAlways, PTL
=============================================================================
