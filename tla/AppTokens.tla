----------------------------- MODULE AppTokens -----------------------------
(***************************************************************************)
(* The client apps' tokens: minted by the app commands (cli.py), spent by  *)
(* POST /simplefin/claim (app.py), checked on every accounts request       *)
(* (auth.py), all against one store (app_tokens.py).  The commands are     *)
(* processes, the claims and requests run in the server, and anything may  *)
(* die at any point.                                                       *)
(*                                                                         *)
(* Secrets are drawn afresh, so a secret is named by the call that mints   *)
(* it: a command in Commands its setup token, a claim in Claims its        *)
(* username and password.  A record of the store is the secret it          *)
(* recognises: an unclaimed token or claimed credentials.                  *)
(*                                                                         *)
(* The store is updated one locked, atomic update at a time, which is what *)
(* StateFile shows of update_state_file: the four steps kept here are      *)
(* lock, load and change; rename; directory sync and unlock; report.       *)
(***************************************************************************)
EXTENDS Naturals, FiniteSets

CONSTANTS
    Keys,            \* app keys
    Commands,        \* runs of app new, app regen and app revoke
    Claims,          \* POST /simplefin/claim/{token} calls
    Requests,        \* GET /simplefin/accounts calls
    None,            \* no record; nobody
    Wrong,           \* a secret that was never minted
    PoolSize,        \* threads of the server's pool
    DirSyncMayFail   \* whether _sync_directory may fail, as it may in the code

Ops == {"new", "regen", "revoke", "claim"}
Secrets == Commands \union Claims
Updaters == Commands \union Claims
Served == Claims \union Requests

ASSUME CallsDiffer ==
    /\ Commands \intersect Claims = {}
    /\ Requests \intersect Updaters = {}
    /\ {None, Wrong} \intersect (Updaters \union Requests) = {}
    /\ None \notin Ops \union {Wrong}
ASSUME PoolSizeAssumption == PoolSize \in Nat \ {0}
ASSUME DirSyncAssumption == DirSyncMayFail \in BOOLEAN

VARIABLES
    apps,      \* the store as readers see it
    durable,   \* the store as a power cut would leave it
    holder,    \* the update that holds the lock
    draft,     \* the version the holder is about to save
    pc,        \* where each command, claim and request is
    op,        \* what each update does
    key,       \* the key each update changes
    token,     \* the setup token each claim presents
    login,     \* the username and password each request presents
    replaced,  \* the secret each update takes out of the store
    retired,   \* history: secrets taken out on purpose
    known,     \* history: secrets handed to a person or a client app
    dead,      \* history: secrets whose end was reported to somebody
    late,      \* history: calls that arrived with a dead secret
    unsynced,  \* history: updates that could not sync, until one could
    undone     \* history: secrets of theirs a power cut lost or brought back

callVars == <<op, key, token, login, replaced>>
history == <<retired, known, dead, late, unsynced, undone>>
vars == <<apps, durable, holder, draft, pc, callVars, history>>

Stores == [Keys -> Secrets \union {None}]
InUpdate == {"waiting", "updating", "saved", "released"}
InFlight == {"queued"} \union InUpdate
Ended == {"ok", "refused", "error", "lost", "admitted"}

NoApps == [k \in Keys |-> None]
Recognised(store) == {store[k] : k \in Keys} \ {None}
Taken(c) == {replaced[c]} \ {None}

Init ==
    /\ apps = NoApps
    /\ durable = NoApps
    /\ holder = None
    /\ draft = NoApps
    /\ pc = [c \in Updaters \union Requests |-> "idle"]
    /\ op = [c \in Updaters |-> None]
    /\ key = [c \in Updaters |-> None]
    /\ token = [q \in Claims |-> None]
    /\ login = [r \in Requests |-> None]
    /\ replaced = [c \in Updaters |-> None]
    /\ retired = {}
    /\ known = {}
    /\ dead = {}
    /\ late = {}
    /\ unsynced = {}
    /\ undone = {}

Goto(c, from, to) ==
    /\ pc[c] = from
    /\ pc' = [pc EXCEPT ![c] = to]

(* If one of these calls has the lock, it is let go, and what the call had *)
(* in memory is gone.                                                      *)
Unlock(cs) ==
    IF holder \in cs
    THEN holder' = None /\ draft' = NoApps
    ELSE UNCHANGED <<holder, draft>>

-----------------------------------------------------------------------------
(* The updates: what each does between taking the lock and saving. *)

(* Mutant: the store is changed without its lock. *)
NoLock == TRUE

(* The lock is free and the call enters its locked block. *)
LockFree == holder = None

Change(c, k, secret, old) ==
    /\ pc' = [pc EXCEPT ![c] = "updating"]
    /\ holder' = c
    /\ draft' = [apps EXCEPT ![k] = secret]
    /\ key' = [key EXCEPT ![c] = k]
    /\ replaced' = [replaced EXCEPT ![c] = old]
    /\ UNCHANGED <<apps, durable, op, token, login, history>>

(* The block raises: nothing is saved and the lock is let go. *)
Refuse(c) ==
    /\ pc' = [pc EXCEPT ![c] = "refused"]
    /\ UNCHANGED <<apps, durable, holder, draft, callVars, history>>

(* app new, app regen or app revoke is run on a key. *)
BeginCommand(c) ==
    /\ Goto(c, "idle", "waiting")
    /\ \E o \in Ops \ {"claim"}, k \in Keys :
          /\ op' = [op EXCEPT ![c] = o]
          /\ key' = [key EXCEPT ![c] = k]
    /\ UNCHANGED <<apps, durable, holder, draft, token, login, replaced, history>>

AppNew(c) ==
    /\ pc[c] = "waiting" /\ op[c] = "new" /\ LockFree
    /\ IF apps[key[c]] # None
       THEN Refuse(c)
       ELSE Change(c, key[c], c, None)

AppRegen(c) ==
    /\ pc[c] = "waiting" /\ op[c] = "regen" /\ LockFree
    /\ IF apps[key[c]] = None
       THEN Refuse(c)
       ELSE Change(c, key[c], c, apps[key[c]])

(* Mutant: app revoke saves the records it loaded. *)
AppRevokeKeeps(c) ==
    /\ pc[c] = "waiting" /\ op[c] = "revoke" /\ LockFree
    /\ IF apps[key[c]] = None
       THEN Refuse(c)
       ELSE Change(c, key[c], apps[key[c]], apps[key[c]])

AppRevoke(c) ==
    /\ pc[c] = "waiting" /\ op[c] = "revoke" /\ LockFree
    /\ IF apps[key[c]] = None
       THEN Refuse(c)
       ELSE Change(c, key[c], None, apps[key[c]])

(* Mutant: the record that was spent still holds its token. *)
SpendKeepsToken(q) ==
    /\ pc[q] = "waiting" /\ op[q] = "claim" /\ LockFree
    /\ \/ /\ token[q] \notin Recognised(apps)
          /\ Refuse(q)
       \/ \E k \in Keys :
             /\ apps[k] = token[q]
             /\ Change(q, k, token[q], token[q])

(* The record that holds the token becomes the credentials it buys. *)
SpendSetupToken(q) ==
    /\ pc[q] = "waiting" /\ op[q] = "claim" /\ LockFree
    /\ \/ /\ token[q] \notin Recognised(apps)
          /\ Refuse(q)
       \/ \E k \in Keys :
             /\ apps[k] = token[q]
             /\ Change(q, k, q, token[q])

-----------------------------------------------------------------------------
(* The rest of update_app_tokens, the same for every update. *)

(* Mutant: a failed update keeps the lock. *)
FailKeepsLock(c) ==
    /\ pc[c] \in {"waiting", "updating"}
    /\ pc' = [pc EXCEPT ![c] = "error"]
    /\ UNCHANGED <<apps, durable, holder, draft, callVars, history>>

(* A StateFileError: the lock cannot be taken, the store read or saved. *)
Fail(c) ==
    /\ pc[c] \in {"waiting", "updating"}
    /\ pc' = [pc EXCEPT ![c] = "error"]
    /\ Unlock({c})
    /\ UNCHANGED <<apps, durable, callVars, history>>

(* The rename: every read of the store from now on sees the change. *)
Save(c) ==
    /\ Goto(c, "updating", "saved")
    /\ apps' = draft
    /\ retired' = retired \union Taken(c)
    /\ UNCHANGED <<durable, holder, draft, callVars, known, dead, late, unsynced, undone>>

(* Mutant: the directory is not synced. *)
ReleaseForgetsSync(c) ==
    /\ Goto(c, "saved", "released")
    /\ Unlock({c})
    /\ UNCHANGED <<apps, durable, callVars, history>>

(* _sync_directory, whose failure nobody is told of; then the lock is let   *)
(* go.                                                                     *)
Release(c) ==
    /\ Goto(c, "saved", "released")
    /\ \/ durable' = apps /\ unsynced' = {}
       \/ /\ DirSyncMayFail
          /\ unsynced' = unsynced \union {c}
          /\ UNCHANGED durable
    /\ Unlock({c})
    /\ UNCHANGED <<apps, callVars, retired, known, dead, late, undone>>

HandOver(c, secrets) ==
    /\ Goto(c, "released", "ok")
    /\ known' = known \union secrets
    /\ dead' = dead \union Taken(c)
    /\ UNCHANGED <<apps, durable, holder, draft, callVars, retired, late, unsynced, undone>>

(* A command prints its setup token, or that the app is revoked. *)
Report(c) == HandOver(c, IF op[c] = "revoke" THEN {} ELSE {c})

(* A claim is answered with the access URL that holds the credentials. *)
Answer(q) == HandOver(q, {q})

-----------------------------------------------------------------------------
(* The server's side. *)

Late(c, presented) ==
    late' = IF presented \intersect (dead \ undone) # {}
            THEN late \union {c} ELSE late

(* A claim arrives with a token somebody was handed, or with none of them. *)
ClaimArrives(q) ==
    /\ Goto(q, "idle", "queued")
    /\ \E t \in (known \intersect Commands) \union {Wrong} :
          /\ token' = [token EXCEPT ![q] = t]
          /\ Late(q, {t})
    /\ op' = [op EXCEPT ![q] = "claim"]
    /\ UNCHANGED <<apps, durable, holder, draft, key, login, replaced>>
    /\ UNCHANGED <<retired, known, dead, unsynced, undone>>

(* Threads taken: a claim keeps its thread while it waits for the lock. *)
BusyThreads == {q \in Claims : pc[q] \in {"waiting", "updating", "saved"}}

(* run_in_threadpool finds a thread for the claim. *)
DispatchClaim(q) ==
    /\ Goto(q, "queued", "waiting")
    /\ Cardinality(BusyThreads) < PoolSize
    /\ UNCHANGED <<apps, durable, holder, draft, callVars, history>>

(* The client app has gone: the answer, and the credentials, reach nobody. *)
Disconnect(q) ==
    /\ Goto(q, "released", "lost")
    /\ UNCHANGED <<apps, durable, holder, draft, callVars, history>>

(* An accounts request with no Basic Auth is refused without a read. *)
RefuseNoCredentials(r) ==
    /\ Goto(r, "idle", "refused")
    /\ UNCHANGED <<apps, durable, holder, draft, callVars, history>>

(* One arrives with a username and a password, of the same claim or not. *)
RequestArrives(r) ==
    /\ Goto(r, "idle", "queued")
    /\ \E user, password \in (known \intersect Claims) \union {Wrong} :
          /\ login' = [login EXCEPT ![r] = <<user, password>>]
          /\ Late(r, {user, password})
    /\ UNCHANGED <<apps, durable, holder, draft, op, key, token, replaced>>
    /\ UNCHANGED <<retired, known, dead, unsynced, undone>>

(* Mutant: the two halves may match two records. *)
MatchesAcross(store, r) ==
    \E j, k \in Keys : {store[j], store[k]} \subseteq Claims
                          /\ login[r] = <<store[j], store[k]>>

(* One claimed record matches both halves. *)
Matches(store, r) ==
    \E k \in Keys : store[k] \in Claims /\ login[r] = <<store[k], store[k]>>

(* The store is read, with no lock, in a thread of the pool; a store that   *)
(* cannot be read admits nobody.                                           *)
Authenticate(r) ==
    /\ Cardinality(BusyThreads) < PoolSize
    /\ \/ Goto(r, "queued", IF Matches(apps, r) THEN "admitted" ELSE "refused")
       \/ Goto(r, "queued", "refused")
    /\ UNCHANGED <<apps, durable, holder, draft, callVars, history>>

-----------------------------------------------------------------------------
(* What may happen to all of them. *)

End(cs) == [c \in DOMAIN pc |-> IF c \in cs /\ pc[c] \in InFlight THEN "lost" ELSE pc[c]]

(* A command is killed. *)
Die(c) ==
    /\ pc[c] \in InFlight
    /\ pc' = End({c})
    /\ Unlock({c})
    /\ UNCHANGED <<apps, durable, callVars, history>>

(* The server dies, with everything it was serving, and is started again. *)
ServerCrash ==
    /\ \E c \in Served : pc[c] \in InFlight
    /\ pc' = End(Served)
    /\ Unlock(Served)
    /\ UNCHANGED <<apps, durable, callVars, history>>

Writeback ==
    /\ durable' = apps
    /\ unsynced' = {}
    /\ UNCHANGED <<apps, holder, draft, pc, callVars, retired, known, dead, late, undone>>

(* What a power cut takes back of an update is what no promise covers if    *)
(* the update could not sync: of any other it may take back nothing that    *)
(* was reported.                                                           *)
TakenBack(s) == (s \in Recognised(apps)) # (s \in Recognised(durable))
UnsyncedSecrets == UNION {{c} \union Taken(c) : c \in unsynced}

PowerCut ==
    /\ pc' = End(DOMAIN pc)
    /\ holder' = None
    /\ draft' = NoApps
    /\ apps' = durable
    /\ undone' = undone \union {s \in UnsyncedSecrets : TakenBack(s)}
    /\ unsynced' = {}
    /\ UNCHANGED <<durable, callVars, retired, known, dead, late>>

-----------------------------------------------------------------------------
CommandNext(c) ==
    AppNew(c) \/ AppRegen(c) \/ AppRevoke(c) \/ Save(c) \/ Release(c) \/ Report(c)

ClaimNext(q) ==
    DispatchClaim(q) \/ SpendSetupToken(q) \/ Save(q) \/ Release(q) \/ Answer(q)

Next ==
    \/ \E c \in Commands : BeginCommand(c) \/ CommandNext(c) \/ Fail(c) \/ Die(c)
    \/ \E q \in Claims : ClaimArrives(q) \/ ClaimNext(q) \/ Fail(q) \/ Disconnect(q)
    \/ \E r \in Requests :
          RefuseNoCredentials(r) \/ RequestArrives(r) \/ Authenticate(r)
    \/ ServerCrash
    \/ Writeback
    \/ PowerCut

Spec == Init /\ [][Next]_vars

(* Processes and the server's event loop keep running; nothing is assumed  *)
(* of arrivals, failures or who gets the lock first.                       *)
FairSpec ==
    /\ Spec
    /\ \A c \in Commands : WF_vars(CommandNext(c))
    /\ \A q \in Claims : WF_vars(ClaimNext(q))
    /\ \A r \in Requests : WF_vars(Authenticate(r))

-----------------------------------------------------------------------------
TypeOK ==
    /\ apps \in Stores
    /\ durable \in Stores
    /\ holder \in Updaters \union {None}
    /\ draft \in Stores
    /\ pc \in [Updaters \union Requests -> {"idle"} \union InFlight \union Ended]
    /\ op \in [Updaters -> Ops \union {None}]
    /\ key \in [Updaters -> Keys \union {None}]
    /\ token \in [Claims -> Commands \union {Wrong, None}]
    /\ login \in [Requests -> ((Claims \union {Wrong}) \X (Claims \union {Wrong}))
                                 \union {None}]
    /\ replaced \in [Updaters -> Secrets \union {None}]
    /\ retired \subseteq Secrets
    /\ known \subseteq Secrets
    /\ dead \subseteq Secrets
    /\ late \subseteq Served
    /\ unsynced \subseteq Updaters
    /\ undone \subseteq Secrets

(* One setup token buys credentials once: of all the claims that present   *)
(* it, whatever crashes and power cuts come between them, one is answered,  *)
(* unless a power cut undid a claim that could not sync.                   *)
SpentOnce ==
    \A p, q \in Claims :
        pc[p] = "ok" /\ pc[q] = "ok" /\ token[p] = token[q] =>
            p = q \/ token[p] \in undone

(* A secret that was printed or answered is in the store until an update   *)
(* takes it out on purpose: no setup looks complete and never syncs, if     *)
(* the power was cut between any two steps of any call.  Where              *)
(* _sync_directory failed, and no sync after it worked, the change of that  *)
(* one update may be lost, and no other's.                                 *)
HandedOutIsRecognised ==
    known \subseteq Recognised(apps) \union retired \union undone

(* Once app revoke, app regen or a claim has reported the end of a secret, *)
(* the store never recognises it again, not even after a power cut, if the  *)
(* update that ended it could sync.                                        *)
DeadStaysDead ==
    (dead \ undone) \intersect Recognised(apps) = {}

(* Only the two halves of one claim's credentials are admitted, and no     *)
(* call that arrives after its secret's end was reported gets anything.    *)
OnlyLiveSecretsServed ==
    /\ \A r \in Requests :
          pc[r] = "admitted" => \E q \in Claims : login[r] = <<q, q>>
    /\ \A c \in late : pc[c] \notin {"ok", "admitted"}

(* Every claim and request that arrives is answered, or lost to a crash,   *)
(* and every command ends: nothing waits for ever for the lock or for a    *)
(* thread.                                                                 *)
EveryCallEnds ==
    \A c \in Updaters \union Requests : pc[c] \in InFlight ~> pc[c] \in Ended
=============================================================================
