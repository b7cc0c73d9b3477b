---------------------------- MODULE ManualVerify ----------------------------
(***************************************************************************)
(* The script a person runs against the demo bridge                        *)
(* (scripts/manual_verify.py): the directory it makes, the commands it     *)
(* runs there, the server it starts on a fixed port, the checks it makes   *)
(* of the answers on that port, and what it cleans up however it ends.     *)
(*                                                                         *)
(* Whether the server under test is right is open: it may have any of the  *)
(* Defects and may list accounts in any way.  It may not start, or die at  *)
(* any time, and somebody else's server may have its port.  A user may     *)
(* interrupt the script once, though not while it removes its directory.   *)
(***************************************************************************)
EXTENDS Naturals, Sequences, SequencesExt

CONSTANTS
    MaxPolls,   \* how often the script asks whether the server listens
    Prefixed,   \* account ids of the provider with a prefix, listed first
    Bare,       \* account ids of the provider without one
    MaxListed   \* bound on the accounts in an answer

ASSUME BoundsAssumption == MaxPolls \in Nat \ {0} /\ MaxListed \in Nat
ASSUME IdsAssumption == Prefixed \intersect Bare = {}

VARIABLES
    given,     \* the number of setup tokens on the command line
    pc,        \* what the script does next
    outcome,   \* how it ends, once that is settled
    polls,     \* how often it has polled
    listed,    \* the accounts it was shown first
    picked,    \* the accounts it was shown when it named two of them
    dir,       \* whether its directory exists
    app,       \* the app's record in that directory
    defects,   \* what is wrong with the server under test
    server,    \* the process of that server
    told,      \* whether it has got a SIGTERM
    port       \* who listens on the port

script == <<given, pc, outcome, polls, listed, picked>>
system == <<dir, app, defects, server, told, port>>
scriptVars == <<script, system>>

Defects == {"replays a claim", "admits anyone", "forgets a revocation"}
Foreign == {"aggregator", "site"}  \* another aggregator; any other web server
Alive == {"starting", "up"}
Lists == BoundedSeq(Prefixed \union Bare, MaxListed)

(* What is checked, in order; and the status each check wants.             *)
Checks == <<"claim", "again", "info", "accounts", "filtered", "anonymous",
            "revoke", "revoked">>
Want == [claim |-> 200, again |-> 403, info |-> 200, accounts |-> 200,
         filtered |-> 200, anonymous |-> 403, revoked |-> 403]
After(c) == LET i == CHOOSE i \in DOMAIN Checks : Checks[i] = c
            IN  IF i = Len(Checks) THEN "terminate" ELSE Checks[i + 1]

ScriptInit ==
    /\ given \in 0..3
    /\ pc = "start"
    /\ outcome = "open"
    /\ polls = 0
    /\ listed = <<>> /\ picked = <<>>
    /\ dir = FALSE
    /\ app = "none"
    /\ defects \in SUBSET Defects
    /\ server = "none"
    /\ told = FALSE
    /\ port \in Foreign \union {"free"}

Goto(step) == pc' = step /\ UNCHANGED <<given, outcome, polls, listed, picked>>

(* An exception takes the script out of the with statements it is in.       *)
(* Mutant: serving has no finally.                                         *)
LeavesBehind == IF dir THEN "remove" ELSE "end"
Leaves == IF server # "none" THEN "terminate" ELSE IF dir THEN "remove" ELSE "end"

Raise(why) ==
    /\ outcome' = why
    /\ pc' = Leaves
    /\ UNCHANGED <<given, polls, listed, picked>>

Begin ==
    /\ pc = "start"
    /\ \/ given = 0 /\ Goto("fetch")
       \/ given = 2 /\ Goto("make")
       \/ given \notin {0, 2} /\ Raise("usage")
    /\ UNCHANGED system

(* Both pages hold a token, or one cannot be had or holds none.            *)
FetchTokens ==
    /\ pc = "fetch"
    /\ Goto("make") \/ Raise("failed")
    /\ UNCHANGED system

MakeDirectory ==
    /\ pc = "make"
    /\ Goto("claim providers")
    /\ dir' = TRUE
    /\ UNCHANGED <<app, defects, server, told, port>>

(* Either claim may exit with an error.                                    *)
ClaimProviders ==
    /\ pc = "claim providers"
    /\ Goto("app new") \/ Raise("failed")
    /\ UNCHANGED system

AppNew ==
    /\ pc = "app new"
    /\ \/ Goto("serve") /\ app' = "unclaimed"
       \/ Raise("failed") /\ UNCHANGED app
    /\ UNCHANGED <<dir, defects, server, told, port>>

StartServer ==
    /\ pc = "serve"
    /\ Goto("poll")
    /\ server' = "starting"
    /\ UNCHANGED <<dir, app, defects, told, port>>

(* Any answer will do, whoever gives it; no connection means another try.   *)
(* Mutant: the loop has no end.                                            *)
PollOn == polls' = polls /\ UNCHANGED <<given, pc, outcome, listed, picked>>
PollAgain ==
    \/ /\ polls + 1 < MaxPolls
       /\ polls' = polls + 1
       /\ UNCHANGED <<given, pc, outcome, listed, picked>>
    \/ polls + 1 = MaxPolls /\ Raise("failed")

Poll ==
    /\ pc = "poll"
    /\ \/ server \notin Alive /\ Raise("failed")
       \/ server \in Alive /\ port = "free" /\ PollAgain
       \/ server \in Alive /\ port # "free" /\ Goto("claim")
    /\ UNCHANGED system

(***************************************************************************)
(* What is answered on the port, and what the script makes of it.          *)
(***************************************************************************)
Known == \/ app = "claimed"
         \/ app = "revoked" /\ "forgets a revocation" \in defects

(* The statuses the server under test may give, sound or not.  It answers   *)
(* 500 to a claim it cannot record.                                        *)
OwnStatus(c) ==
    CASE c = "claim" -> {200, 500}
      [] c = "again" -> IF "replays a claim" \in defects THEN {200} ELSE {403}
      [] c = "info" -> {200}
      [] c = "anonymous" -> IF "admits anyone" \in defects THEN {200} ELSE {403}
      [] c \in {"accounts", "filtered", "revoked"} -> IF Known THEN {200} ELSE {403}

(* Another aggregator knows neither the token nor the credentials, and any   *)
(* other server has one answer for all these paths.                        *)
ForeignStatus(c) ==
    IF port = "site" THEN {200, 404} ELSE IF c = "info" THEN {200} ELSE {403}

Status(c) == IF port = "own" THEN OwnStatus(c) ELSE ForeignStatus(c)

(* account_ids, and the two lists run makes of them.                       *)
Of(Ids, list) ==
    FlattenSeq([i \in DOMAIN list |-> IF list[i] \in Ids THEN <<list[i]>> ELSE <<>>])

(* Mutant: each status is printed and not checked.                         *)
PrintedOnly(c, status, list) == c \in {"accounts", "filtered"} => status = 200
Passes(c, status, list) ==
    /\ status = Want[c]
    /\ c = "accounts" =>
           /\ Of(Prefixed, list) # <<>>
           /\ Of(Bare, list) # <<>>
           /\ list = Of(Prefixed, list) \o Of(Bare, list)
    /\ c = "filtered" =>
           list = <<Head(Of(Prefixed, listed)), Head(Of(Bare, listed))>>

(* One request and its check.  A refused connection raises, as does a body   *)
(* that is no list of accounts, which is all a site has.                   *)
Check(c) ==
    /\ pc = c
    /\ c # "revoke"
    /\ \/ port = "free" /\ Raise("failed") /\ UNCHANGED app
       \/ /\ port # "free"
          /\ \E status \in Status(c), list \in Lists :
                 /\ list # <<>> => port = "own" /\ c \in {"accounts", "filtered"}
                 /\ IF Passes(c, status, list)
                    THEN /\ pc' = After(c)
                         /\ outcome' = IF c = "revoked" THEN "done" ELSE outcome
                         /\ listed' = IF c = "accounts" THEN list ELSE listed
                         /\ picked' = IF c = "filtered" THEN list ELSE picked
                         /\ UNCHANGED <<given, polls>>
                    ELSE Raise("failed")
                 /\ app' = IF c = "claim" /\ port = "own" /\ status = 200
                           THEN "claimed" ELSE app
    /\ UNCHANGED <<dir, defects, server, told, port>>

Revoke ==
    /\ pc = "revoke"
    /\ \/ Goto(After("revoke")) /\ app' = "revoked"
       \/ Raise("failed") /\ UNCHANGED app
    /\ UNCHANGED <<dir, defects, server, told, port>>

(***************************************************************************)
(* Cleaning up.                                                            *)
(***************************************************************************)
Terminate ==
    /\ pc = "terminate"
    /\ Goto("wait")
    /\ told' = TRUE
    /\ UNCHANGED <<dir, app, defects, server, port>>

Wait ==
    /\ pc = "wait"
    /\ server \notin Alive
    /\ Goto("remove")
    /\ UNCHANGED system

RemoveDirectory ==
    /\ pc = "remove"
    /\ Goto("end")
    /\ dir' = FALSE
    /\ UNCHANGED <<app, defects, server, told, port>>

(* Control-C.  In a wait it ends the wait, and what was done stays done.    *)
Interrupt ==
    /\ pc \notin {"terminate", "remove", "end"}
    /\ outcome # "interrupted"
    /\ IF pc = "wait"
       THEN pc' = "remove" /\ outcome' = "interrupted"
            /\ UNCHANGED <<given, polls, listed, picked>>
       ELSE Raise("interrupted")
    /\ UNCHANGED system

(***************************************************************************)
(* The server under test, and the port.                                    *)
(***************************************************************************)
Listens ==
    /\ server = "starting"
    /\ port = "free"
    /\ server' = "up"
    /\ port' = "own"
    /\ UNCHANGED <<script, dir, app, defects, told>>

Stops(how) ==
    /\ server \in Alive
    /\ server' = how
    /\ port' = IF port = "own" THEN "free" ELSE port
    /\ UNCHANGED <<script, dir, app, defects, told>>

ObeysSignal == told /\ Stops("stopped")
Crashes == Stops("crashed")

ForeignComes ==
    /\ port = "free"
    /\ port' \in Foreign
    /\ UNCHANGED <<script, dir, app, defects, server, told>>

ForeignGoes ==
    /\ port \in Foreign
    /\ port' = "free"
    /\ UNCHANGED <<script, dir, app, defects, server, told>>

Step ==
    \/ Begin \/ FetchTokens \/ MakeDirectory \/ ClaimProviders \/ AppNew
    \/ StartServer \/ Poll \/ Revoke \/ Terminate \/ Wait \/ RemoveDirectory
    \/ \E c \in ToSet(Checks) : Check(c)

ScriptNext ==
    \/ Step
    \/ Interrupt
    \/ Listens \/ ObeysSignal \/ Crashes
    \/ ForeignComes \/ ForeignGoes

(* The script goes on, which takes an answer to what it asks, and a server   *)
(* that is told to stop does.  Nothing says that a server ever listens.    *)
ScriptSpec ==
    ScriptInit /\ [][ScriptNext]_scriptVars /\ WF_scriptVars(Step) /\ WF_scriptVars(ObeysSignal)

(***************************************************************************)
(* Properties.                                                             *)
(***************************************************************************)
InOrder(list) ==
    \A i, j \in DOMAIN list : list[i] \in Bare /\ i < j => list[j] \in Bare

(* "Done" means that the server the script started has the claim, has shown  *)
(* both providers in order and exactly the accounts named, and has none of  *)
(* the defects (run, expect): nobody else's server can pass for it.  The    *)
(* one exception is a server that dies after it has shown the accounts:     *)
(* what remains to be refused then, another server may refuse in its place. *)
DoneMeansVerified ==
    outcome = "done" =>
        /\ app = "revoked"
        /\ InOrder(listed)
        /\ picked \in Prefixed \X Bare
        /\ ToSet(picked) \subseteq ToSet(listed)
        /\ "replays a claim" \notin defects
        /\ defects = {} \/ server = "crashed"

(* However the script ends, its directory is gone, which holds access URLs   *)
(* by then, and its server has been stopped or at least told to (main,      *)
(* serving).  And unless the user stops it from waiting, the directory is   *)
(* there for as long as the server runs.                                   *)
NothingLeftBehind ==
    /\ pc = "end" => ~dir /\ (server \in Alive => told)
    /\ server \in Alive /\ outcome # "interrupted" => dir

(* The script ends, also when its server neither listens nor exits.        *)
ScriptEnds == <>(pc = "end" /\ server \notin Alive)
=============================================================================
