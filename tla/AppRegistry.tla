---------------------------- MODULE AppRegistry ----------------------------
(* AppTokens implements TokenRegistry: the rename of its save is the one   *)
(* step in which a command or a claim takes effect.                        *)
EXTENDS AppTokens

(* Where TokenRegistry has a call that is somewhere in the code, and what  *)
(* each call was made with.                                                *)
Seen(place) ==
    IF place \in {"queued", "waiting", "updating"} THEN "asked"
    ELSE IF place \in {"saved", "released"} THEN "effective" ELSE place
Where == [c \in Updaters \union Requests |-> Seen(pc[c])]
Asks == [c \in Commands |-> <<op[c], key[c]>>]
Presents == [c \in Claims \union Requests |-> IF c \in Claims THEN token[c] ELSE login[c]]

Registry == INSTANCE TokenRegistry WITH
    live <- apps, hardened <- durable, step <- Where, asks <- Asks, presents <- Presents

(* Commands, claims and logins act on one registry, one at a time: each    *)
(* takes effect in one step on top of all before it, and is refused only   *)
(* for what the registry holds at that step (app.py, cli.py, auth.py).     *)
ActsAsRegistry == Registry!Spec
=============================================================================
