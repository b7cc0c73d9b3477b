---------------------------- MODULE AtomicStore ----------------------------
(***************************************************************************)
(* What update_state_file (state_file.py) promises its callers, without    *)
(* the lock, the temporary file or the rename that deliver it.             *)
(*                                                                         *)
(* Calls update one store.  What a version of the store holds is abstracted *)
(* to the set of calls whose edit it carries.  A call takes effect in one  *)
(* step, on top of everything that took effect before it, or not at all;   *)
(* what took effect stays, unless the machine loses power before the       *)
(* version reached the disk.                                               *)
(***************************************************************************)
CONSTANT Calls

VARIABLES
    contents,   \* the calls whose edit a reader of the store sees
    persisted,  \* the calls whose edit a power cut would leave
    state       \* where each call is, as its caller can tell

vars == <<contents, persisted, state>>

States == {"idle", "running", "applied", "saved", "rejected", "died"}

Init ==
    /\ contents = {}
    /\ persisted = {}
    /\ state = [c \in Calls |-> "idle"]

Goto(c, from, to) ==
    /\ state[c] \in from
    /\ state' = [state EXCEPT ![c] = to]

(* A caller enters the update; nothing of it can be seen yet. *)
Begin(c) ==
    /\ Goto(c, {"idle"}, "running")
    /\ UNCHANGED <<contents, persisted>>

(* The one instant at which the call's edit appears, added to all others. *)
Apply(c) ==
    /\ Goto(c, {"running"}, "applied")
    /\ contents' = contents \union {c}
    /\ UNCHANGED persisted

(* The update returns to its caller. *)
Return(c) ==
    /\ Goto(c, {"applied"}, "saved")
    /\ UNCHANGED <<contents, persisted>>

(* The update raises: nothing of it took effect. *)
Reject(c) ==
    /\ Goto(c, {"idle", "running"}, "rejected")
    /\ UNCHANGED <<contents, persisted>>

(* The process is killed: all or nothing of the edit is there. *)
Die(c) ==
    /\ Goto(c, {"running", "applied"}, "died")
    /\ UNCHANGED <<contents, persisted>>

(* The visible version reaches the disk. *)
Persist ==
    /\ persisted' = contents
    /\ UNCHANGED <<contents, state>>

(* Power is lost: the machine comes back with the version on the disk. *)
PowerCut ==
    /\ contents' = persisted
    /\ state' = [c \in Calls |->
                    IF state[c] \in {"running", "applied"} THEN "died" ELSE state[c]]
    /\ UNCHANGED persisted

Next ==
    \/ \E c \in Calls :
          Begin(c) \/ Apply(c) \/ Return(c) \/ Reject(c) \/ Die(c)
    \/ Persist
    \/ PowerCut

Spec == Init /\ [][Next]_vars
=============================================================================
