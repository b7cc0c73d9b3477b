------------------------------- MODULE Serve -------------------------------
(***************************************************************************)
(* One process of serve from the first file it reads to the last client it *)
(* closes (cli.serve and the lifespan of create_app): what it takes from   *)
(* the config and from the store of access URLs and keeps while both       *)
(* change, the clients and the counter its requests share, the filter on   *)
(* its access log, and how uvicorn starts and stops it.                    *)
(*                                                                         *)
(* An access URL is the number of the claim that bought it.  What a fetch  *)
(* returns is the subject of Accounts, what a claim exchanges that of      *)
(* AppTokens, and whether a stored URL is at its root that of              *)
(* ProviderClaim.                                                          *)
(***************************************************************************)
EXTENDS Naturals

CONSTANTS
    Providers,   \* provider keys
    Requests,    \* the requests one process gets
    Days,        \* UTC dates
    MaxClaims    \* bound on the claims for each provider

ASSUME MaxClaimsAssumption == MaxClaims \in Nat

VARIABLES
    file,      \* the providers the config file names
    stored,    \* per provider, the access URL in the store, or 0
    bought,    \* history: per provider, how many claims have succeeded
    apps,      \* the app token store: good, or what is the matter with it
    day,       \* what the clock says
    phase,     \* where the process is
    named,     \* the providers of its config
    held,      \* per provider, the access URL it resolved, or 0
    filters,   \* the filters on uvicorn.access: methods, on claim paths
    clients,   \* per provider, the access URL its open client is for, or 0
    counts,    \* the request counter
    since,     \* history: bought, when the process started
    fault,     \* history: of the store, when or since it was checked
    req        \* the requests of this process

world == <<file, stored, bought, apps, day>>
process == <<phase, named, held, filters, clients, counts, since>>
vars == <<world, process, fault, req>>

Up == {"configured", "checked", "built", "redacted", "open", "listening",
       "stopping", "closing"}
(* unwritable: its directory may not be written, which is what the start    *)
(* asks; unsavable: it may, and still nothing can be saved, since the disk  *)
(* is full or the lock file cannot be opened.                              *)
AppStates == {"good", "unparsable", "unwritable", "unsavable"}
Kinds == {"accounts", "claim", "stray"}  \* stray: a GET of a claim path
Nothing == [p \in Providers |-> 0]
NoCounts == [p \in Providers |-> [d \in Days |-> 0]]
Fresh == [at |-> "idle", kind |-> "none", todo |-> {}, awaits |-> {},
          fetches |-> {}, status |-> 0, line |-> "none"]
NoRequests == [r \in Requests |-> Fresh]

Fetch == [to : Providers, via : 1..MaxClaims, on : Days, number : Nat]
Request ==
    [at : {"idle", "accepted", "routed", "done"}, kind : Kinds \union {"none"},
     todo : SUBSET Providers, awaits : SUBSET Providers, fetches : SUBSET Fetch,
     status : {0, 200, 403, 405, 500}, line : {"none", "shown", "hidden"}]

(* What the state consists of.  In particular a request is only ever sent  *)
(* with an access URL that some claim bought.                              *)
TypeOK ==
    /\ file \subseteq Providers
    /\ stored \in [Providers -> 0..MaxClaims]
    /\ bought \in [Providers -> 0..MaxClaims]
    /\ apps \in AppStates
    /\ day \in Days
    /\ phase \in Up \union {"down"}
    /\ named \subseteq Providers
    /\ held \in [Providers -> 0..MaxClaims]
    /\ filters \subseteq {"POST"}
    /\ clients \in [Providers -> 0..MaxClaims]
    /\ counts \in [Providers -> [Days -> Nat]]
    /\ since \in [Providers -> 0..MaxClaims]
    /\ fault \in {"none", "missed", "since"}
    /\ req \in [Requests -> Request]

Init ==
    /\ file \in SUBSET Providers \ {{}}
    /\ stored = Nothing
    /\ bought = Nothing
    /\ apps \in AppStates
    /\ day \in Days
    /\ phase = "down"
    /\ named = {}
    /\ held = Nothing
    /\ filters = {}
    /\ clients = Nothing
    /\ counts = NoCounts
    /\ since = Nothing
    /\ fault = "none"
    /\ req = NoRequests

(* The process is gone and everything it kept in memory with it.           *)
Gone ==
    /\ phase' = "down"
    /\ named' = {}
    /\ held' = Nothing
    /\ filters' = {}
    /\ clients' = Nothing
    /\ counts' = NoCounts
    /\ since' = Nothing
    /\ fault' = "none"
    /\ req' = NoRequests
    /\ UNCHANGED world

(***************************************************************************)
(* Around the process.                                                     *)
(***************************************************************************)
(* Mutant: save_access_url keeps the URL that is there.                  *)
SavedOnce(p) == IF stored[p] = 0 THEN bought[p] + 1 ELSE stored[p]
Saved(p) == bought[p] + 1

Claim(p) ==
    /\ bought[p] < MaxClaims
    /\ bought' = [bought EXCEPT ![p] = @ + 1]
    /\ stored' = [stored EXCEPT ![p] = Saved(p)]
    /\ UNCHANGED <<file, apps, day, process, fault, req>>

EditConfig ==
    /\ file' \in SUBSET Providers \ {{}}
    /\ UNCHANGED <<stored, bought, apps, day, process, fault, req>>

(* The operator's hand, a full disk, a change of mode: and all of it back.  *)
AppsChange ==
    /\ apps' \in AppStates \ {apps}
    /\ fault' = IF phase \notin {"down", "configured"} /\ apps' # "good"
                THEN "since" ELSE fault
    /\ UNCHANGED <<file, stored, bought, day, process, req>>

(* Midnight, or a clock that is set, which may be back.                    *)
ClockChange ==
    /\ day' \in Days
    /\ UNCHANGED <<file, stored, bought, apps, process, fault, req>>

(***************************************************************************)
(* Start-up, in the order of serve.                                        *)
(***************************************************************************)
ReadConfig ==
    /\ phase = "down"
    /\ phase' = "configured"
    /\ named' = file
    /\ since' = bought
    /\ UNCHANGED <<world, held, filters, clients, counts, fault, req>>

(* Mutant: what was loaded is taken for what can be written as well.       *)
UsableIfLoaded == apps # "unparsable"

(* load_app_tokens and check_can_save, which makes the directory and asks   *)
(* for its mode, and does not try to save.                                 *)
Usable == apps \notin {"unparsable", "unwritable"}

CheckApps ==
    /\ phase = "configured"
    /\ Usable
    /\ phase' = "checked"
    /\ fault' = IF apps = "unsavable" THEN "missed" ELSE "none"
    /\ UNCHANGED <<world, named, held, filters, clients, counts, since, req>>

RefuseApps ==
    /\ phase = "configured"
    /\ ~Usable
    /\ Gone

Resolved == \A p \in named : stored[p] # 0

BuildApp ==
    /\ phase = "checked"
    /\ Resolved
    /\ phase' = "built"
    /\ held' = [p \in Providers |-> IF p \in named THEN stored[p] ELSE 0]
    /\ UNCHANGED <<world, named, filters, clients, counts, since, fault, req>>

RefuseUrls ==
    /\ phase = "checked"
    /\ ~Resolved
    /\ Gone

Install == {"POST"}

InstallRedaction ==
    /\ phase = "built"
    /\ phase' = "redacted"
    /\ filters' = filters \union Install
    /\ UNCHANGED <<world, named, held, clients, counts, since, fault, req>>

Clients == held

(* uvicorn sets up its loggers, which drops their handlers and leaves their *)
(* filters, and runs the lifespan up to its yield.                         *)
Lifespan ==
    /\ phase = "redacted"
    /\ phase' = "open"
    /\ clients' = Clients
    /\ counts' = NoCounts
    /\ UNCHANGED <<world, named, held, filters, since, fault, req>>

(* The port is bound after that, and may be taken.                         *)
Bind ==
    /\ phase = "open"
    /\ phase' \in {"listening", "closing"}
    /\ UNCHANGED <<world, named, held, filters, clients, counts, since, fault, req>>

(***************************************************************************)
(* Requests.                                                               *)
(***************************************************************************)
(* What _RedactPathFilter does to the line of a request of this kind.      *)
Method(k) == IF k = "claim" THEN "POST" ELSE "GET"
ClaimPath(k) == k \in {"claim", "stray"}
Line(k) == IF ClaimPath(k) /\ Method(k) \in filters THEN "hidden" ELSE "shown"

(* A request as it goes on.  uvicorn logs it as it starts to answer it.     *)
Accepted(q, kind) == [q EXCEPT !.at = "accepted", !.kind = kind]
RoutedTo(q, asked) == [q EXCEPT !.at = "routed", !.todo = asked]
Sent(q, fetch) == [q EXCEPT !.todo = @ \ {fetch.to}, !.awaits = @ \union {fetch.to},
                            !.fetches = @ \union {fetch}]
Answered(q, status) ==
    [q EXCEPT !.at = "done", !.status = status, !.line = Line(q.kind)]

Done(r, status) == req' = [req EXCEPT ![r] = Answered(@, status)]

Accept(r) ==
    /\ phase = "listening"
    /\ req[r].at = "idle"
    /\ \E kind \in Kinds : req' = [req EXCEPT ![r] = Accepted(@, kind)]
    /\ UNCHANGED <<world, process, fault>>

(* A claim token that nobody holds is refused before anything is written;   *)
(* and an update of a store that cannot be locked fails in either case.    *)
ClaimToken(r) ==
    /\ req[r].at = "accepted"
    /\ req[r].kind = "claim"
    /\ \E status \in CASE apps = "good" -> {200, 403}
                       [] apps \in {"unwritable", "unsavable"} -> {403, 500}
                       [] apps = "unparsable" -> {500} :
           Done(r, status)
    /\ UNCHANGED <<world, process, fault>>

RefuseStray(r) ==
    /\ req[r].at = "accepted"
    /\ req[r].kind = "stray"
    /\ Done(r, 405)
    /\ UNCHANGED <<world, process, fault>>

(* The credentials are those of a client app; a store that cannot be read   *)
(* holds none.  The request may be for accounts of any of the providers.   *)
Admit(r) ==
    /\ req[r].at = "accepted"
    /\ req[r].kind = "accounts"
    /\ apps # "unparsable"
    /\ \E asked \in SUBSET named : req' = [req EXCEPT ![r] = RoutedTo(@, asked)]
    /\ UNCHANGED <<world, process, fault>>

TurnAway(r) ==
    /\ req[r].at = "accepted"
    /\ req[r].kind = "accounts"
    /\ apps = "unparsable"
    /\ Done(r, 403)
    /\ UNCHANGED <<world, process, fault>>

(* Mutant: the counter forgets a day once it records another.              *)
RecordToday(p) ==
    [counts EXCEPT ![p] = [d \in Days |-> IF d = day THEN @[d] + 1 ELSE 0]]
Record(p) == [counts EXCEPT ![p][day] = @ + 1]

Send(r, p) ==
    /\ p \in req[r].todo
    /\ counts' = Record(p)
    /\ req' = [req EXCEPT ![r] = Sent(@, [to |-> p, via |-> clients[p], on |-> day,
                                          number |-> counts'[p][day]])]
    /\ UNCHANGED <<world, phase, named, held, filters, clients, since, fault>>

(* The provider answers, or the client gives up.                           *)
Receive(r, p) ==
    /\ p \in req[r].awaits
    /\ req' = [req EXCEPT ![r].awaits = @ \ {p}]
    /\ UNCHANGED <<world, process, fault>>

(* Mutant: the answer waits for every provider of the config.              *)
RespondToAll(r) ==
    /\ req[r].at = "routed"
    /\ {f.to : f \in req[r].fetches} = named
    /\ req[r].awaits = {}
    /\ \E status \in {200, 500} : Done(r, status)
    /\ UNCHANGED <<world, process, fault>>

(* 500 for a text that merge cannot encode.                                *)
Respond(r) ==
    /\ req[r].at = "routed"
    /\ req[r].todo = {}
    /\ req[r].awaits = {}
    /\ \E status \in {200, 500} : Done(r, status)
    /\ UNCHANGED <<world, process, fault>>

(***************************************************************************)
(* The end.                                                                *)
(***************************************************************************)
Active == {r \in Requests : req[r].at \in {"accepted", "routed"}}

(* SIGTERM: uvicorn accepts nothing more, waits for what it has accepted    *)
(* and then has the lifespan end.                                          *)
Stop ==
    /\ phase = "listening"
    /\ phase' = "stopping"
    /\ UNCHANGED <<world, named, held, filters, clients, counts, since, fault, req>>

Drain ==
    /\ phase = "stopping"
    /\ Active = {}
    /\ phase' = "closing"
    /\ UNCHANGED <<world, named, held, filters, clients, counts, since, fault, req>>

ToClose == {p \in Providers : clients[p] # 0}

(* Mutant: the clients are closed as soon as the server is told to stop.   *)
CloseAtOnce(p) ==
    /\ phase \in {"stopping", "closing"}
    /\ p \in ToClose
    /\ clients' = [clients EXCEPT ![p] = 0]
    /\ UNCHANGED <<world, phase, named, held, filters, counts, since, fault, req>>

Close(p) ==
    /\ phase = "closing"
    /\ p \in ToClose
    /\ clients' = [clients EXCEPT ![p] = 0]
    /\ UNCHANGED <<world, phase, named, held, filters, counts, since, fault, req>>

Exit ==
    /\ phase = "closing"
    /\ ToClose = {}
    /\ Gone

(* A kill, or a second SIGINT.                                             *)
Crash == phase # "down" /\ Gone

Start == \/ ReadConfig \/ CheckApps \/ RefuseApps \/ BuildApp \/ RefuseUrls
         \/ InstallRedaction \/ Lifespan \/ Bind

Handle(r) == \/ ClaimToken(r) \/ RefuseStray(r) \/ Admit(r) \/ TurnAway(r)
             \/ Respond(r) \/ \E p \in Providers : Send(r, p)

Shutdown == Drain \/ Exit \/ \E p \in Providers : Close(p)

Next ==
    \/ \E p \in Providers : Claim(p)
    \/ EditConfig
    \/ AppsChange
    \/ ClockChange
    \/ Start
    \/ \E r \in Requests : Accept(r) \/ Handle(r)
    \/ \E r \in Requests, p \in Providers : Receive(r, p)
    \/ Stop
    \/ Shutdown
    \/ Crash

(* The process takes its own steps, and a fetch ends.                      *)
Fairness ==
    /\ WF_vars(Shutdown)
    /\ \A r \in Requests : WF_vars(Handle(r))
    /\ \A r \in Requests, p \in Providers : WF_vars(Receive(r, p))

Spec == Init /\ [][Next]_vars /\ Fairness

(***************************************************************************)
(* Properties.                                                             *)
(***************************************************************************)
(* Every fetch on its way has a client that is open, and is of the access   *)
(* URL the fetch began with (provider_clients, lifespan): whatever the      *)
(* files have become since the start, and however the process is stopping. *)
OnlyOpenClients ==
    \A r \in Requests : \A f \in req[r].fetches :
        f.to \in req[r].awaits => 0 < f.via /\ f.via = clients[f.to]

(* What was claimed before the server started is what it uses, and all the  *)
(* requests it serves use the same (_build_app_or_exit): a claim that      *)
(* returned before serve was run is never overlooked, and one that comes    *)
(* later never gives a running server a mixture of old and new.            *)
OneSnapshot ==
    \A r, s \in Requests : \A f \in req[r].fetches, g \in req[s].fetches :
        /\ f.via >= since[f.to]
        /\ f.to = g.to => f.via = g.via

(* The counts logged for one provider on one day are 1, 2, 3 and so on,     *)
(* each once (RequestCounter.record): for requests that overlap, over       *)
(* midnight, and when the clock is set back to a day it has left.          *)
NumberedInOrder ==
    /\ \A p \in Providers, d \in Days : \A n \in 1..counts[p][d] :
           \E r \in Requests : \E f \in req[r].fetches :
               f.to = p /\ f.on = d /\ f.number = n
    /\ \A r, s \in Requests : \A f \in req[r].fetches, g \in req[s].fetches :
           /\ f.number \in 1..counts[f.to][f.on]
           /\ <<f.to, f.on, f.number>> = <<g.to, g.on, g.number>> => r = s /\ f = g

(* The line of a claim is always hidden, from the first request on, and no  *)
(* other line ever is (serve, _RedactPathFilter).                          *)
OnlyClaimsAreHidden ==
    \A r \in Requests : req[r].at = "done" =>
        (req[r].line = "hidden" <=> req[r].kind = "claim")

(* A client app turned away although its credentials are right means that  *)
(* the store went bad after serve had looked, and so does a claim that     *)
(* cannot be recorded, unless the fault is one the start does not look for: *)
(* a file it cannot parse and a directory it may not write are found by the *)
(* start and not by a client app (_check_app_store_or_exit).               *)
FaultsAreFoundAtStart ==
    \A r \in Requests :
        /\ req[r].kind = "accounts" /\ req[r].status = 403 => fault = "since"
        /\ req[r].kind = "claim" /\ req[r].status = 500 => fault \in {"missed", "since"}

(* A server that is told to stop is gone in the end, whatever requests it   *)
(* still had.                                                              *)
StopEnds == phase = "stopping" ~> phase = "down"

(* Every request the server has accepted is answered, also one that comes   *)
(* just before it is told to stop, unless the process is killed.           *)
AcceptedIsAnswered ==
    \A r \in Requests :
        req[r].at = "accepted" ~> req[r].at = "done" \/ phase = "down"
=============================================================================
