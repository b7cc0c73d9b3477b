--------------------------- MODULE TokenRegistry ---------------------------
(***************************************************************************)
(* What the app commands, POST /simplefin/claim and the authentication of  *)
(* an accounts request promise together, without the lock, the draft, the  *)
(* thread pool or the rename that deliver it: a registry of one live       *)
(* secret per app.  Every call takes effect in one step or not at all, and *)
(* is refused only for what the registry holds at that step.  What took    *)
(* effect stays, unless power goes before it reached the disk.             *)
(***************************************************************************)
CONSTANTS Keys, Commands, Claims, Requests, None, Wrong

VARIABLES
    live,     \* the secret each app key stands for, or None
    hardened, \* the registry as a power cut would leave it
    step,     \* where each call is, as its caller can tell
    asks,     \* what each command is to do, and to which key
    presents  \* the token of each claim and the login of each request

vars == <<live, hardened, step, asks, presents>>

Calls == Commands \union Claims \union Requests
Pending == {"asked", "effective"}

Init ==
    /\ live = [k \in Keys |-> None] /\ hardened = live
    /\ step = [c \in Calls |-> "idle"]
    /\ asks = [c \in Commands |-> <<None, None>>]
    /\ presents = [c \in Claims \union Requests |-> None]

Goto(c, from, to) == step[c] = from /\ step' = [step EXCEPT ![c] = to]

(* A call comes; nothing of it can be seen yet.                            *)
Command(c) ==
    /\ Goto(c, "idle", "asked")
    /\ \E op \in {"new", "regen", "revoke"}, k \in Keys : asks' = [asks EXCEPT ![c] = <<op, k>>]
    /\ UNCHANGED <<live, hardened, presents>>

Present(c) ==
    /\ Goto(c, "idle", "asked")
    /\ \/ c \in Claims /\ \E t \in Commands \union {Wrong} : presents' = [presents EXCEPT ![c] = t]
       \/ /\ c \in Requests
          /\ \E u, p \in Claims \union {Wrong} : presents' = [presents EXCEPT ![c] = <<u, p>>]
    /\ UNCHANGED <<live, hardened, asks>>

(* The one instant at which a call changes the registry.                   *)
Effect(c, k, secret) ==
    /\ Goto(c, "asked", "effective")
    /\ live' = [live EXCEPT ![k] = secret]
    /\ UNCHANGED <<hardened, asks, presents>>

New(c, k) == asks[c] = <<"new", k>> /\ live[k] = None /\ Effect(c, k, c)
Regen(c, k) == asks[c] = <<"regen", k>> /\ live[k] # None /\ Effect(c, k, c)
Revoke(c, k) == asks[c] = <<"revoke", k>> /\ live[k] # None /\ Effect(c, k, None)
Exchange(q, k) == presents[q] \in Commands /\ live[k] = presents[q] /\ Effect(q, k, q)

(* A call is refused because the registry, now, does not allow it.         *)
Refusable(c) ==
    \/ c \in Commands /\ \E k \in Keys :
           \/ asks[c] = <<"new", k>> /\ live[k] # None
           \/ asks[c] \in {<<"regen", k>>, <<"revoke", k>>} /\ live[k] = None
    \/ c \in Claims /\ \A k \in Keys : live[k] # presents[c]
Refuse(c) ==
    /\ Refusable(c) /\ Goto(c, "asked", "refused")
    /\ UNCHANGED <<live, hardened, asks, presents>>

(* A login is let in for what the registry holds now; it may always be     *)
(* turned away, since a registry that cannot be read lets nobody in.       *)
Admit(r) ==
    /\ \E k \in Keys : live[k] \in Claims /\ presents[r] = <<live[k], live[k]>>
    /\ Goto(r, "asked", "admitted")
    /\ UNCHANGED <<live, hardened, asks, presents>>
TurnAway(r) ==
    /\ step[r] \in {"idle", "asked"} /\ step' = [step EXCEPT ![r] = "refused"]
    /\ UNCHANGED <<live, hardened, asks, presents>>

(* The call reports what took effect, or an error that left nothing.       *)
Report(c) == Goto(c, "effective", "ok") /\ UNCHANGED <<live, hardened, asks, presents>>
Fail(c) == Goto(c, "asked", "error") /\ UNCHANGED <<live, hardened, asks, presents>>

(* Calls die, or their answers are lost, each wholly done or not at all.   *)
End(S) == [c \in Calls |-> IF c \in S /\ step[c] \in Pending THEN "lost" ELSE step[c]]
Lose(S) == step' = End(S) /\ UNCHANGED <<live, hardened, asks, presents>>

Harden == hardened' = live /\ UNCHANGED <<live, step, asks, presents>>
PowerCut == live' = hardened /\ step' = End(Calls) /\ UNCHANGED <<hardened, asks, presents>>

Next ==
    \/ \E c \in Commands : Command(c) \/ \E k \in Keys : New(c, k) \/ Regen(c, k) \/ Revoke(c, k)
    \/ \E c \in Claims \union Requests : Present(c)
    \/ \E q \in Claims, k \in Keys : Exchange(q, k)
    \/ \E c \in Commands \union Claims : Refuse(c) \/ Report(c) \/ Fail(c)
    \/ \E r \in Requests : Admit(r) \/ TurnAway(r)
    \/ \E S \in SUBSET Calls : Lose(S)
    \/ Harden
    \/ PowerCut

Spec == Init /\ [][Next]_vars
=============================================================================
