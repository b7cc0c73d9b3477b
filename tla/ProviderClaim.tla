--------------------------- MODULE ProviderClaim ---------------------------
(***************************************************************************)
(* The claim command (cli.py) against providers that sell one access URL   *)
(* for one setup token, the store of access URLs (provider_access_urls.py) *)
(* and serve, which reads that store and the config once (app.py).         *)
(*                                                                         *)
(* An access URL is named by the token that bought it.  Of a URL only its  *)
(* origin is kept, which stands for scheme, host, port and the path down   *)
(* to the root: what _check_matches_root compares.                         *)
(*                                                                         *)
(* An update of the store is one step, Save, as AtomicStore has it.        *)
(***************************************************************************)
Replies == {"ok", "forbidden", "other"}  \* status 200, 403 and any other

CONSTANTS
    Providers,       \* provider keys a token may be claimed for
    Configured,      \* those the [[providers]] of the config name
    Origins,         \* where a root, a claim URL or an access URL can be
    Garbled,         \* an access URL that cannot be used at any root
    Tokens,          \* setup tokens people were given
    Origin,          \* where each token's claim URL is
    Claims,          \* runs of claim
    None,
    DirSyncMayFail   \* whether _sync_directory may fail, as it may in the code

ASSUME ConfiguredAssumption == Configured \subseteq Providers
ASSUME OriginAssumption == Origin \in [Tokens -> Origins]
ASSUME NoneAssumption ==
    None \notin Tokens \union Origins \union {Garbled} \union Providers \union Replies
ASSUME GarbledAssumption == Garbled \notin Origins
ASSUME SyncAssumption == DirSyncMayFail \in BOOLEAN

VARIABLES
    root,       \* the providers' roots, as the config file has them
    url,        \* the origin of the access URL each token has bought
    inflight,   \* claims whose POST is on its way
    reply,      \* the provider's answer to each claim
    pc,         \* where each claim is
    sees,       \* the roots each claim has read
    provider,   \* the provider each claim is for
    token,      \* the token each claim presents
    store,      \* per provider, the access URL a reader of the store sees
    durable,    \* the same, as a power cut would leave it
    serving,    \* the access URLs the running server holds
    trusted,    \* the roots serve has read, while it runs
    replaced,   \* history: access URLs another has replaced in the store
    unsynced,   \* history: claimed ones that could not sync, until one could
    undone      \* history: those of them that a power cut lost

outside == <<root, url>>
claimVars == <<inflight, reply, pc, sees, provider, token>>
serverVars == <<serving, trusted>>
storeVars == <<store, durable, replaced, unsynced, undone>>
vars == <<outside, claimVars, serverVars, storeVars>>

Running == {"asked", "posting", "answered", "saving", "saved"}
Failed == {"unreachable", "rejected", "failed", "unusable", "unsaved"}
Ended == {"refused", "claimed", "died"} \union Failed

Stores == [Providers -> Tokens \union {None}]
NoUrls == [p \in Providers |-> None]
Stopped == [p \in Configured |-> None]
Held(urls) == {urls[p] : p \in DOMAIN urls} \ {None}

Init ==
    /\ root \in [Providers -> Origins]
    /\ url = [t \in Tokens |-> None]
    /\ inflight = {}
    /\ reply = [c \in Claims |-> None]
    /\ pc = [c \in Claims |-> "idle"]
    /\ sees = [c \in Claims |-> root]
    /\ provider = [c \in Claims |-> None]
    /\ token = [c \in Claims |-> None]
    /\ store = NoUrls
    /\ durable = NoUrls
    /\ serving = Stopped
    /\ trusted = None
    /\ replaced = {}
    /\ unsynced = {}
    /\ undone = {}

Goto(c, from, to) ==
    /\ pc[c] = from
    /\ pc' = [pc EXCEPT ![c] = to]

-----------------------------------------------------------------------------
(* The claim command. *)

(* The config is read and the store checked, before anything is asked, *)
Start(c) ==
    /\ Goto(c, "idle", "asked")
    /\ sees' = [sees EXCEPT ![c] = root]
    /\ UNCHANGED <<outside, inflight, reply, provider, token, serverVars, storeVars>>

(* or it stops there. *)
RefuseStart(c) ==
    /\ Goto(c, "idle", "refused")
    /\ UNCHANGED <<outside, inflight, reply, sees, provider, token>>
    /\ UNCHANGED <<serverVars, storeVars>>

Enter(c, p, t) ==
    /\ provider' = [provider EXCEPT ![c] = p]
    /\ token' = [token EXCEPT ![c] = t]
    /\ UNCHANGED <<outside, reply, sees, serverVars, storeVars>>

(* A provider is named and a token pasted whose claim URL is under that    *)
(* provider's root: it is POSTed.                                          *)
Post(c) ==
    /\ Goto(c, "asked", "posting")
    /\ \E p \in Providers, t \in Tokens : Origin[t] = sees[c][p] /\ Enter(c, p, t)
    /\ inflight' = inflight \union {c}

(* Under any other root, or no token at all, nothing is sent. *)
RefuseToken(c) ==
    /\ Goto(c, "asked", "refused")
    /\ \/ \E p \in Providers, t \in Tokens : Origin[t] # sees[c][p] /\ Enter(c, p, t)
       \/ UNCHANGED <<outside, reply, sees, provider, token, serverVars, storeVars>>
    /\ UNCHANGED inflight

(* Mutant: the POST is sent again when no answer came. *)
TimeoutRetries(c) ==
    /\ pc[c] = "posting" /\ c \notin inflight /\ reply[c] = None
    /\ inflight' = inflight \union {c}
    /\ UNCHANGED <<outside, pc, reply, sees, provider, token, serverVars, storeVars>>

(* An HTTPError, the timeout among them: the POST may still be on its way, *)
(* or the provider may have acted on it.  It is not sent again.            *)
Timeout(c) ==
    /\ Goto(c, "posting", "unreachable")
    /\ UNCHANGED <<outside, inflight, reply, sees, provider, token>>
    /\ UNCHANGED <<serverVars, storeVars>>

Receive(c) ==
    /\ \/ reply[c] = "ok" /\ Goto(c, "posting", "answered")
       \/ reply[c] = "forbidden" /\ Goto(c, "posting", "rejected")
       \/ reply[c] = "other" /\ Goto(c, "posting", "failed")
    /\ UNCHANGED <<outside, inflight, reply, sees, provider, token>>
    /\ UNCHANGED <<serverVars, storeVars>>

(* Mutant: any access URL that can be used is taken. *)
ValidateForm(c) ==
    /\ Goto(c, "answered", IF url[token[c]] # Garbled THEN "saving" ELSE "unusable")
    /\ UNCHANGED <<outside, inflight, reply, sees, provider, token>>
    /\ UNCHANGED <<serverVars, storeVars>>

(* validate_access_url: the access URL is under the root the token was. *)
Validate(c) ==
    /\ Goto(c, "answered",
            IF url[token[c]] = sees[c][provider[c]] THEN "saving" ELSE "unusable")
    /\ UNCHANGED <<outside, inflight, reply, sees, provider, token>>
    /\ UNCHANGED <<serverVars, storeVars>>

(* Mutant: the file is written with this entry only. *)
SaveAlone(c) ==
    /\ Goto(c, "saving", "saved")
    /\ store' = [NoUrls EXCEPT ![provider[c]] = token[c]]
    /\ replaced' = replaced \union ({store[provider[c]]} \ {None, token[c]})
    /\ UNCHANGED <<outside, inflight, reply, sees, provider, token>>
    /\ UNCHANGED <<serverVars, durable, unsynced, undone>>

(* save_access_url up to the rename: the other entries stay. *)
Save(c) ==
    /\ Goto(c, "saving", "saved")
    /\ store' = [store EXCEPT ![provider[c]] = token[c]]
    /\ replaced' = replaced \union (Held(store) \ Held(store'))
    /\ UNCHANGED <<outside, inflight, reply, sees, provider, token>>
    /\ UNCHANGED <<serverVars, durable, unsynced, undone>>

SaveFails(c) ==
    /\ Goto(c, "saving", "unsaved")
    /\ UNCHANGED <<outside, inflight, reply, sees, provider, token>>
    /\ UNCHANGED <<serverVars, storeVars>>

(* The directory sync, and "Claimed": the probe after it only warns. *)
Report(c) ==
    /\ Goto(c, "saved", "claimed")
    /\ \/ durable' = store /\ unsynced' = {}
       \/ /\ DirSyncMayFail
          /\ unsynced' = unsynced \union {token[c]}
          /\ UNCHANGED durable
    /\ UNCHANGED <<outside, inflight, reply, sees, provider, token>>
    /\ UNCHANGED <<serverVars, store, replaced, undone>>

Die(c) ==
    /\ pc[c] \in Running
    /\ pc' = [pc EXCEPT ![c] = "died"]
    /\ UNCHANGED <<outside, inflight, reply, sees, provider, token>>
    /\ UNCHANGED <<serverVars, storeVars>>

-----------------------------------------------------------------------------
(* The provider, as far as claim relies on it. *)

(* A POST arrives, perhaps after claim has given up.  A fresh token buys   *)
(* its access URL, whatever becomes of the answer, or the provider has     *)
(* trouble of its own; a spent one is forbidden.                           *)
Redeem(c) ==
    /\ c \in inflight
    /\ inflight' = inflight \ {c}
    /\ \/ /\ url[token[c]] = None
          /\ \E o \in Origins \union {Garbled} : url' = [url EXCEPT ![token[c]] = o]
          /\ reply' \in {[reply EXCEPT ![c] = a] : a \in {"ok", "other", None}}
       \/ /\ url[token[c]] # None
          /\ reply' = [reply EXCEPT ![c] = "forbidden"]
          /\ UNCHANGED url
       \/ /\ reply' \in {[reply EXCEPT ![c] = a] : a \in {"other", None}}
          /\ UNCHANGED url
    /\ UNCHANGED <<root, pc, sees, provider, token, serverVars, storeVars>>

-----------------------------------------------------------------------------
(* serve, and what happens to all of it. *)

ReadConfig ==
    /\ trusted = None
    /\ trusted' = root
    /\ UNCHANGED <<outside, claimVars, serving, storeVars>>

(* Mutant: what the store holds is trusted, since claim has checked it. *)
StartServerTrusting ==
    /\ trusted # None /\ serving = Stopped
    /\ \A p \in Configured : store[p] # None
    /\ serving' = [p \in Configured |-> store[p]]
    /\ UNCHANGED <<outside, claimVars, trusted, storeVars>>

(* create_app: every configured provider has a stored access URL, and it   *)
(* is under the root of the config that was read.                          *)
StartServer ==
    /\ trusted # None /\ serving = Stopped
    /\ \A p \in Configured : store[p] # None /\ url[store[p]] = trusted[p]
    /\ serving' = [p \in Configured |-> store[p]]
    /\ UNCHANGED <<outside, claimVars, trusted, storeVars>>

(* serve refuses to start, is stopped, or dies. *)
StopServer ==
    /\ trusted # None
    /\ trusted' = None
    /\ serving' = Stopped
    /\ UNCHANGED <<outside, claimVars, storeVars>>

(* The operator gives a custom provider another root. *)
EditConfig ==
    /\ \E p \in Providers, o \in Origins : root' = [root EXCEPT ![p] = o]
    /\ UNCHANGED <<url, claimVars, serverVars, storeVars>>

Writeback ==
    /\ durable' = store
    /\ unsynced' = {}
    /\ UNCHANGED <<outside, claimVars, serverVars, store, replaced, undone>>

(* A claimed access URL that is lost is excused if its claim could not sync *)
(* and nothing that synced since has made it good.                         *)
PowerCut ==
    /\ pc' = [c \in Claims |-> IF pc[c] \in Running THEN "died" ELSE pc[c]]
    /\ serving' = Stopped
    /\ trusted' = None
    /\ store' = durable
    /\ undone' = undone \union (unsynced \intersect (Held(store) \ Held(durable)))
    /\ unsynced' = {}
    /\ UNCHANGED <<outside, inflight, reply, sees, provider, token>>
    /\ UNCHANGED <<durable, replaced>>

-----------------------------------------------------------------------------
Advance(c) ==
    Timeout(c) \/ Receive(c) \/ Validate(c) \/ Save(c) \/ SaveFails(c) \/ Report(c)

Next ==
    \/ \E c \in Claims :
          Start(c) \/ RefuseStart(c) \/ Post(c) \/ RefuseToken(c) \/ Advance(c)
              \/ Redeem(c) \/ Die(c)
    \/ ReadConfig
    \/ StartServer
    \/ StopServer
    \/ EditConfig
    \/ Writeback
    \/ PowerCut

Spec == Init /\ [][Next]_vars

-----------------------------------------------------------------------------
TypeOK ==
    /\ root \in [Providers -> Origins]
    /\ url \in [Tokens -> Origins \union {Garbled, None}]
    /\ inflight \subseteq Claims
    /\ reply \in [Claims -> Replies \union {None}]
    /\ pc \in [Claims -> {"idle"} \union Running \union Ended]
    /\ sees \in [Claims -> [Providers -> Origins]]
    /\ provider \in [Claims -> Providers \union {None}]
    /\ token \in [Claims -> Tokens \union {None}]
    /\ store \in Stores
    /\ durable \in Stores
    /\ serving \in [Configured -> Tokens \union {None}]
    /\ trusted \in [Providers -> Origins] \union {None}
    /\ replaced \subseteq Tokens
    /\ unsynced \subseteq Tokens
    /\ undone \subseteq Tokens

(* What claim reported as claimed is in the store, however many claims for *)
(* this and other providers end around it, until one for the same provider *)
(* replaces it; not even a power cut loses it, unless the claim's directory *)
(* sync failed and no sync after it worked.                                *)
ClaimedIsKept ==
    \A c \in Claims : pc[c] = "claimed" =>
        \/ store[provider[c]] = token[c]
        \/ token[c] \in replaced \union undone

(* No credential is lost quietly: the access URL a token has bought is     *)
(* kept, or is on its way to the store, or somebody was told of a failure  *)
(* that may have cost it (not that the token was refused or rejected), or  *)
(* saw the claim die.                                                      *)
SpentIsAccountedFor ==
    \A t \in Tokens : url[t] # None =>
        \/ t \in Held(store) \union replaced \union undone
        \/ \E c \in Claims :
              token[c] = t /\ pc[c] \in (Running \union Failed \union {"died"}) \ {"rejected"}

(* Each stored access URL was claimed for the provider it is stored under, *)
(* under a root that provider then had: none is taken from a place nobody  *)
(* vouched for, or filed under another provider.                           *)
StoredWasVouchedFor ==
    \A p \in Providers : store[p] # None =>
        \E c \in Claims :
            /\ provider[c] = p /\ token[c] = store[p]
            /\ sees[c][p] = Origin[token[c]] /\ sees[c][p] = url[token[c]]

(* A running server uses, for each of its providers, an access URL claimed *)
(* for that provider and under the root its own config gives it, however   *)
(* the config was edited between the claim and the start.                  *)
ServedIsOwn ==
    serving # Stopped =>
        \A p \in Configured :
            /\ url[serving[p]] = trusted[p]
            /\ \E c \in Claims : provider[c] = p /\ token[c] = serving[p]
=============================================================================
