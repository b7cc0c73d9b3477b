---------------------------- MODULE ServeProofs ----------------------------
(***************************************************************************)
(* What a serve process guarantees for any providers, requests and days.   *)
(*                                                                         *)
(* The argument: what the process resolved at its start is no older than   *)
(* the store was then (Snapshot), its clients are for just that as long as *)
(* a request may use them (Clients), and no request is left when they are  *)
(* closed (Quiet).  Below, of the script that starts such a process and     *)
(* checks its answers: what it has found was found of its own process.     *)
(***************************************************************************)
EXTENDS Serve, ManualVerify, NamespacingProofs, TLAPS

Built == {"built", "redacted", "open", "listening", "stopping", "closing"}
Serving == {"listening", "stopping", "closing"}

Snapshot ==
    /\ \A p \in Providers : stored[p] = bought[p] /\ since[p] <= bought[p]
    /\ phase \in Built =>
           \A p \in named : since[p] <= held[p] /\ 0 < held[p]

Connected == phase \in {"open", "listening", "stopping"} => clients = held

(* What is the matter with the store of app tokens came after the start, or *)
(* is what the start does not look for.                                    *)
Explained ==
    /\ ~Usable => fault = "since"
    /\ apps # "good" => fault # "none"

Watched ==
    /\ phase \in Built \ {"built"} => filters = {"POST"}
    /\ phase \notin {"down", "configured"} => Explained

Quiet ==
    /\ phase \notin Serving => \A r \in Requests : req[r] = Fresh
    /\ phase = "closing" => Active = {}
    /\ \A r \in Requests :
           /\ req[r].at = "idle" => req[r] = Fresh
           /\ req[r].at # "routed" => req[r].todo = {} /\ req[r].awaits = {}
           /\ req[r].at # "idle" => req[r].kind \in Kinds
           /\ req[r].at = "routed" => req[r].kind = "accounts"

Asked ==
    \A r \in Requests :
        /\ req[r].todo \subseteq named
        /\ \A f \in req[r].fetches : f.to \in named /\ f.via = held[f.to]

IInv ==
    /\ TypeOK
    /\ Snapshot
    /\ Connected
    /\ Watched
    /\ Quiet
    /\ Asked
    /\ OnlyClaimsAreHidden
    /\ FaultsAreFoundAtStart
    /\ NumberedInOrder

LEMMA InvInit == Init => IInv
  <1> SUFFICES ASSUME Init PROVE IInv
    OBVIOUS
  <1> USE MaxClaimsAssumption
      DEF Init, Nothing, NoCounts, NoRequests, Fresh
  <1>1. TypeOK
    <2>1. req \in [Requests -> Request]
      BY DEF Request, Kinds
    <2>2. NoCounts \in [Providers -> [Days -> Nat]] /\ Nothing \in [Providers -> 0..MaxClaims]
      OBVIOUS
    <2> HIDE DEF NoCounts, Nothing, NoRequests, Fresh
    <2> QED
      BY <2>1, <2>2 DEF TypeOK
  <1>2. Snapshot /\ Connected /\ Watched /\ Quiet /\ Asked
    BY DEF Snapshot, Connected, Watched, Quiet, Asked, Built, Serving
  <1>3. OnlyClaimsAreHidden /\ FaultsAreFoundAtStart /\ NumberedInOrder
    BY DEF OnlyClaimsAreHidden, FaultsAreFoundAtStart, NumberedInOrder
  <1> QED
    BY <1>1, <1>2, <1>3 DEF IInv

(* The end of a process is a fresh start.                                  *)
LEMMA GoneStep ==
  ASSUME IInv, Gone
  PROVE  IInv'
  <1> USE MaxClaimsAssumption
      DEF IInv, Gone, Nothing, NoCounts, NoRequests, Fresh, world
  <1>1. TypeOK'
    <2>1. req' \in [Requests -> Request]
      BY DEF Request, Kinds
    <2>2. NoCounts \in [Providers -> [Days -> Nat]] /\ Nothing \in [Providers -> 0..MaxClaims]
      OBVIOUS
    <2> HIDE DEF NoCounts, Nothing, NoRequests, Fresh
    <2> QED
      BY <2>1, <2>2 DEF TypeOK
  <1>2. Snapshot' /\ Connected' /\ Watched' /\ Quiet' /\ Asked'
    BY DEF Snapshot, Connected, Watched, Quiet, Asked, Built, Serving, TypeOK
  <1>3. OnlyClaimsAreHidden' /\ FaultsAreFoundAtStart' /\ NumberedInOrder'
    BY DEF OnlyClaimsAreHidden, FaultsAreFoundAtStart, NumberedInOrder
  <1> QED
    BY <1>1, <1>2, <1>3

(* What goes on around the process.                                        *)
LEMMA WorldStep ==
  ASSUME IInv, (\E p \in Providers : Claim(p)) \/ EditConfig \/ AppsChange \/ ClockChange
  PROVE  IInv'
  <1> USE MaxClaimsAssumption DEF IInv
  <1>1. ASSUME NEW p \in Providers, Claim(p)
        PROVE  /\ TypeOK' /\ Snapshot'
               /\ UNCHANGED <<process, req, fault, apps>>
    <2>1. stored' \in [Providers -> 0..MaxClaims] /\ bought' \in [Providers -> 0..MaxClaims]
      BY <1>1 DEF Claim, Saved, TypeOK
    <2>2. \A q \in Providers : stored'[q] = bought'[q] /\ bought[q] <= bought'[q]
      BY <1>1 DEF Claim, Saved, TypeOK, Snapshot
    <2>3. UNCHANGED <<process, req, fault, apps, file, day>>
      BY <1>1 DEF Claim
    <2>4. TypeOK'
      BY <2>1, <2>3 DEF TypeOK, process
    <2>5. Snapshot'
      BY <2>1, <2>2, <2>3 DEF Snapshot, process, TypeOK
    <2> QED
      BY <2>3, <2>4, <2>5
  <1>2. ASSUME EditConfig \/ AppsChange \/ ClockChange
        PROVE  /\ TypeOK' /\ Snapshot'
               /\ UNCHANGED <<process, req>>
    <2>1. UNCHANGED <<process, req, stored, bought>>
      BY <1>2 DEF EditConfig, AppsChange, ClockChange
    <2>2. /\ file' \subseteq Providers
          /\ apps' \in AppStates
          /\ day' \in Days
      BY <1>2 DEF EditConfig, AppsChange, ClockChange, TypeOK
    <2>3. fault' \in {"none", "missed", "since"}
      BY <1>2 DEF EditConfig, AppsChange, ClockChange, TypeOK
    <2> QED
      BY <2>1, <2>2, <2>3 DEF TypeOK, Snapshot, process
  <1>3. (fault = "since" => fault' = "since") /\ (fault # "none" => fault' # "none")
    BY DEF Claim, EditConfig, AppsChange, ClockChange
  <1>4. UNCHANGED <<process, req>>
    BY <1>1, <1>2
  <1>5. Watched'
    <2>1. CASE AppsChange
      BY <1>4, <2>1 DEF Watched, Explained, Usable, AppsChange, process
    <2>2. CASE ~AppsChange
      BY <1>4, <2>2 DEF Watched, Explained, Usable, Claim, EditConfig, ClockChange, process
    <2> QED
      BY <2>1, <2>2
  <1>6. Connected' /\ Quiet' /\ Asked'
    BY <1>4 DEF Connected, Quiet, Asked, Active, process
  <1>7. OnlyClaimsAreHidden' /\ FaultsAreFoundAtStart' /\ NumberedInOrder'
    <2>1. OnlyClaimsAreHidden' /\ NumberedInOrder'
      BY <1>4 DEF OnlyClaimsAreHidden, NumberedInOrder, process
    <2>2. fault' \in {"none", "missed", "since"}
      BY <1>1, <1>2 DEF TypeOK
    <2>3. FaultsAreFoundAtStart'
      BY <1>3, <1>4, <2>2 DEF FaultsAreFoundAtStart
    <2> QED
      BY <2>1, <2>3
  <1> QED
    BY <1>1, <1>2, <1>5, <1>6, <1>7

(* A start, up to the port.                                                *)
LEMMA StartStep ==
  ASSUME IInv, Start
  PROVE  IInv'
  <1> USE MaxClaimsAssumption DEF IInv
  <1>1. CASE RefuseApps \/ RefuseUrls
    BY <1>1, GoneStep DEF RefuseApps, RefuseUrls
  <1>2. ASSUME ReadConfig \/ CheckApps \/ BuildApp \/ InstallRedaction \/ Lifespan \/ Bind
        PROVE  IInv'
    <2> USE <1>2 DEF ReadConfig, CheckApps, BuildApp, InstallRedaction, Lifespan, Bind
    <2>1. UNCHANGED <<world, req>> /\ fault' \in {"none", "missed", "since"}
      BY DEF TypeOK
    <2>2. /\ phase \notin Serving
          /\ phase' \in Up
          /\ \A r \in Requests : req[r] = Fresh
      BY DEF Serving, Quiet, Up
    <2>3. TypeOK'
      <3>1. held' \in [Providers -> 0..MaxClaims] /\ clients' \in [Providers -> 0..MaxClaims]
        BY DEF TypeOK, Clients
      <3>2. counts' \in [Providers -> [Days -> Nat]] /\ since' \in [Providers -> 0..MaxClaims]
        BY DEF TypeOK, NoCounts
      <3>3. named' \subseteq Providers /\ filters' \subseteq {"POST"}
        BY DEF TypeOK, Install
      <3> QED
        BY <2>1, <2>2, <3>1, <3>2, <3>3 DEF TypeOK, world
    <2>4. Snapshot'
      BY <2>1 DEF Snapshot, Built, Resolved, TypeOK, world
    <2>5. Connected'
      BY <2>1, <2>2 DEF Connected, Clients, Serving
    <2>a. Watched'
      <3>1. phase' \in Built \ {"built"} => filters' = {"POST"}
        BY DEF Watched, Built, Install, TypeOK
      <3>2. phase' \notin {"down", "configured"} => Explained'
        <4>1. CASE CheckApps
          BY <4>1, <2>1 DEF Explained, Usable, AppStates, TypeOK, world
        <4>2. CASE ~CheckApps
          BY <4>2, <2>1 DEF Watched, Explained, Usable, world
        <4> QED
          BY <4>1, <4>2
      <3> QED
        BY <3>1, <3>2 DEF Watched
    <2>6. Quiet' /\ Asked'
      BY <2>1, <2>2 DEF Quiet, Asked, Active, Fresh
    <2>7. OnlyClaimsAreHidden' /\ FaultsAreFoundAtStart'
      BY <2>1, <2>2 DEF OnlyClaimsAreHidden, FaultsAreFoundAtStart, Fresh
    <2>8. NumberedInOrder'
      <3>1. \A r \in Requests : req'[r].fetches = {}
        BY <2>1, <2>2 DEF Fresh
      <3>2. \A p \in Providers, d \in Days : counts'[p][d] = 0
        <4>1. \A p \in Providers, d \in Days : counts[p][d] = 0
          <5>1. \A p \in Providers, d \in Days : \A n \in 1..counts[p][d] :
                    \E r \in Requests : \E f \in req[r].fetches : TRUE
            BY DEF NumberedInOrder
          <5>2. \A p \in Providers, d \in Days : counts[p][d] \in Nat
            BY DEF TypeOK
          <5> QED
            BY <2>2, <5>1, <5>2 DEF Fresh
        <4> QED
          BY <4>1 DEF NoCounts
      <3> QED
        BY <3>1, <3>2 DEF NumberedInOrder
    <2> QED
      BY <2>3, <2>4, <2>5, <2>a, <2>6, <2>7, <2>8
  <1> QED
    BY <1>1, <1>2 DEF Start

(* Stopping, up to the exit.                                               *)
LEMMA StopStep ==
  ASSUME IInv, Stop \/ Drain \/ \E p \in Providers : Close(p)
  PROVE  IInv'
  <1> USE MaxClaimsAssumption DEF IInv, Stop, Drain, Close
  <1>1. UNCHANGED <<world, named, held, filters, counts, since, fault, req>>
    OBVIOUS
  <1>2. phase \in Serving /\ phase' \in {"stopping", "closing"}
    BY DEF Serving
  <1>3. TypeOK'
    <2>1. clients' \in [Providers -> 0..MaxClaims]
      BY DEF TypeOK
    <2> QED
      BY <1>1, <1>2, <2>1 DEF TypeOK, world, Up
  <1>4. Snapshot' /\ Connected' /\ Watched'
    BY <1>1, <1>2 DEF Snapshot, Connected, Watched, Explained, Usable, Built, Serving, world
  <1>5. Quiet'
    BY <1>1, <1>2 DEF Quiet, Active, Serving
  <1>6. Asked' /\ OnlyClaimsAreHidden' /\ FaultsAreFoundAtStart' /\ NumberedInOrder'
    BY <1>1 DEF Asked, OnlyClaimsAreHidden, FaultsAreFoundAtStart, NumberedInOrder
  <1> QED
    BY <1>3, <1>4, <1>5, <1>6

(* What each step does to the record of a request, field by field.          *)
LEMMA AcceptedIs ==
  ASSUME NEW q \in Request, NEW kind \in Kinds
  PROVE  Accepted(q, kind) =
             [at |-> "accepted", kind |-> kind, todo |-> q.todo, awaits |-> q.awaits,
              fetches |-> q.fetches, status |-> q.status, line |-> q.line]
  <1> DEFINE a == [q EXCEPT !.at = "accepted"]
  <1>1. a = [at |-> "accepted", kind |-> q.kind, todo |-> q.todo, awaits |-> q.awaits,
             fetches |-> q.fetches, status |-> q.status, line |-> q.line]
    BY DEF Request
  <1>2. Accepted(q, kind) = [a EXCEPT !.kind = kind]
    BY Zenon DEF Accepted
  <1>3. a \in Request
    BY <1>1 DEF Request
  <1> HIDE DEF a
  <1>4. [a EXCEPT !.kind = kind] =
            [at |-> a.at, kind |-> kind, todo |-> a.todo, awaits |-> a.awaits,
             fetches |-> a.fetches, status |-> a.status, line |-> a.line]
    BY <1>3 DEF Request
  <1> QED
    BY <1>1, <1>2, <1>4

LEMMA RoutedIs ==
  ASSUME NEW q \in Request, NEW asked \in SUBSET Providers
  PROVE  RoutedTo(q, asked) =
             [at |-> "routed", kind |-> q.kind, todo |-> asked, awaits |-> q.awaits,
              fetches |-> q.fetches, status |-> q.status, line |-> q.line]
  <1> DEFINE a == [q EXCEPT !.at = "routed"]
  <1>1. a = [at |-> "routed", kind |-> q.kind, todo |-> q.todo, awaits |-> q.awaits,
             fetches |-> q.fetches, status |-> q.status, line |-> q.line]
    BY DEF Request
  <1>2. RoutedTo(q, asked) = [a EXCEPT !.todo = asked]
    BY Zenon DEF RoutedTo
  <1>3. a \in Request
    BY <1>1 DEF Request
  <1> HIDE DEF a
  <1>4. [a EXCEPT !.todo = asked] =
            [at |-> a.at, kind |-> a.kind, todo |-> asked, awaits |-> a.awaits,
             fetches |-> a.fetches, status |-> a.status, line |-> a.line]
    BY <1>3 DEF Request
  <1> QED
    BY <1>1, <1>2, <1>4

LEMMA SentIs ==
  ASSUME NEW q \in Request, NEW fetch \in Fetch
  PROVE  Sent(q, fetch) =
             [at |-> q.at, kind |-> q.kind, todo |-> q.todo \ {fetch.to},
              awaits |-> q.awaits \union {fetch.to},
              fetches |-> q.fetches \union {fetch}, status |-> q.status, line |-> q.line]
  <1> DEFINE a == [q EXCEPT !.todo = @ \ {fetch.to}]
             b == [a EXCEPT !.awaits = @ \union {fetch.to}]
  <1>1. a = [at |-> q.at, kind |-> q.kind, todo |-> q.todo \ {fetch.to}, awaits |-> q.awaits,
             fetches |-> q.fetches, status |-> q.status, line |-> q.line]
    BY DEF Request
  <1>2. Sent(q, fetch) = [b EXCEPT !.fetches = @ \union {fetch}]
    BY Zenon DEF Sent
  <1>3. a \in Request
    BY <1>1 DEF Request
  <1> HIDE DEF a
  <1>4. b = [at |-> a.at, kind |-> a.kind, todo |-> a.todo,
             awaits |-> a.awaits \union {fetch.to},
             fetches |-> a.fetches, status |-> a.status, line |-> a.line]
    BY <1>3 DEF Request
  <1>5. b \in Request
    <2>1. fetch.to \in Providers
      BY DEF Fetch
    <2> QED
      BY <1>3, <1>4, <2>1 DEF Request
  <1> HIDE DEF b
  <1>6. [b EXCEPT !.fetches = @ \union {fetch}] =
            [at |-> b.at, kind |-> b.kind, todo |-> b.todo, awaits |-> b.awaits,
             fetches |-> b.fetches \union {fetch}, status |-> b.status, line |-> b.line]
    BY <1>5 DEF Request
  <1> QED
    BY <1>1, <1>2, <1>4, <1>6

LEMMA AnsweredIs ==
  ASSUME NEW q \in Request, NEW status \in {200, 403, 405, 500},
         Line(q.kind) \in {"shown", "hidden"}
  PROVE  Answered(q, status) =
             [at |-> "done", kind |-> q.kind, todo |-> q.todo, awaits |-> q.awaits,
              fetches |-> q.fetches, status |-> status, line |-> Line(q.kind)]
  <1> DEFINE l == Line(q.kind)
             a == [q EXCEPT !.at = "done"]
             b == [a EXCEPT !.status = status]
  <1>1. a = [at |-> "done", kind |-> q.kind, todo |-> q.todo, awaits |-> q.awaits,
             fetches |-> q.fetches, status |-> q.status, line |-> q.line]
    BY DEF Request
  <1>2. Answered(q, status) = [b EXCEPT !.line = l]
    BY Zenon DEF Answered
  <1> HIDE DEF l
  <1>3. a \in Request
    BY <1>1 DEF Request
  <1> HIDE DEF a
  <1>4. b = [at |-> a.at, kind |-> a.kind, todo |-> a.todo, awaits |-> a.awaits,
             fetches |-> a.fetches, status |-> status, line |-> a.line]
    BY <1>3 DEF Request
  <1>5. b \in Request
    BY <1>3, <1>4 DEF Request
  <1> HIDE DEF b
  <1>6. [b EXCEPT !.line = l] =
            [at |-> b.at, kind |-> b.kind, todo |-> b.todo, awaits |-> b.awaits,
             fetches |-> b.fetches, status |-> b.status, line |-> l]
    BY <1>5 DEF Request
  <1> QED
    BY <1>1, <1>2, <1>4, <1>6 DEF l

(* The answers that need a fault of the store, and which.                  *)
Accounted(kind, status) ==
    /\ kind = "accounts" /\ status = 403 => fault = "since"
    /\ kind = "claim" /\ status = 500 => fault \in {"missed", "since"}

(* What a request may look like while the process serves it.               *)
Sound(q) ==
    /\ q \in Request
    /\ q.at # "idle" /\ q.kind \in Kinds
    /\ q.at = "routed" => q.kind = "accounts"
    /\ q.at # "routed" => q.todo = {} /\ q.awaits = {}
    /\ q.todo \subseteq named
    /\ \A f \in q.fetches : f.to \in named /\ f.via = held[f.to]
    /\ q.at = "done" => (q.line = "hidden" <=> q.kind = "claim")
    /\ Accounted(q.kind, q.status)

(* One request goes on, and the others are as they were.                   *)
LEMMA OneRequest ==
  ASSUME IInv, NEW r \in Requests, Sound(req'[r]),
         req' = [req EXCEPT ![r] = req'[r]],
         phase \in {"listening", "stopping"},
         UNCHANGED <<world, phase, named, held, filters, clients, since, fault>>,
         counts' \in [Providers -> [Days -> Nat]],
         NumberedInOrder'
  PROVE  IInv'
  <1> USE DEF IInv
  <1>1. req \in [Requests -> Request]
    BY DEF TypeOK
  <1>2. \A s \in Requests \ {r} : req'[s] = req[s]
    BY <1>1
  <1>3. req' \in [Requests -> Request]
    BY <1>1 DEF Sound
  <1>4. TypeOK'
    BY <1>3 DEF TypeOK, world
  <1>5. Snapshot' /\ Connected' /\ Watched'
    BY DEF Snapshot, Connected, Watched, Explained, Usable, world
  <1>6. Quiet'
    BY <1>2 DEF Quiet, Sound, Serving
  <1>7. Asked'
    BY <1>2 DEF Asked, Sound
  <1>8. OnlyClaimsAreHidden' /\ FaultsAreFoundAtStart'
    BY <1>2 DEF OnlyClaimsAreHidden, FaultsAreFoundAtStart, Sound, Accounted
  <1> QED
    BY <1>4, <1>5, <1>6, <1>7, <1>8

(* A step that sends nothing leaves the numbers alone.                     *)
LEMMA SameNumbers ==
  ASSUME IInv, NEW r \in Requests, NEW q, q.fetches = req[r].fetches,
         req' = [req EXCEPT ![r] = q], UNCHANGED counts
  PROVE  NumberedInOrder'
  <1>1. \A s \in Requests : req'[s].fetches = req[s].fetches
    BY DEF IInv, TypeOK
  <1> QED
    BY <1>1 DEF IInv, NumberedInOrder

(* A request that is being handled keeps the process from closing.         *)
LEMMA Busy ==
  ASSUME IInv, NEW r \in Requests, req[r].at \in {"accepted", "routed"}
  PROVE  phase \in {"listening", "stopping"} /\ Sound(req[r])
  <1> USE DEF IInv
  <1>1. phase \in Serving
    BY DEF Quiet, Fresh
  <1>2. phase # "closing"
    BY DEF Quiet, Active
  <1>3. Sound(req[r])
    BY DEF Sound, Accounted, TypeOK, Quiet, Asked, OnlyClaimsAreHidden, FaultsAreFoundAtStart
  <1> QED
    BY <1>1, <1>2, <1>3 DEF Serving

Settled(q) == q.todo = {} /\ q.awaits = {}

(* An answer hides the line of a claim and no other.                       *)
LEMMA AnswerStep ==
  ASSUME IInv, NEW r \in Requests, NEW status \in {200, 403, 405, 500}, Done(r, status),
         req[r].at \in {"accepted", "routed"},
         Settled(req[r]),
         Accounted(req[r].kind, status),
         UNCHANGED <<world, process, fault>>
  PROVE  IInv'
  <1> DEFINE q == Answered(req[r], status)
  <1>1. phase \in {"listening", "stopping"} /\ Sound(req[r])
    BY Busy
  <1>2. req' = [req EXCEPT ![r] = q]
    BY DEF Done
  <1>3. filters = {"POST"}
    BY <1>1 DEF IInv, Watched, Built
  <1>4. req[r] \in Request /\ req[r].kind \in Kinds
    BY <1>1 DEF Sound
  <1>5. /\ Line(req[r].kind) \in {"shown", "hidden"}
        /\ Line(req[r].kind) = "hidden" <=> req[r].kind = "claim"
    BY <1>3, <1>4 DEF Line, ClaimPath, Method, Kinds
  <1>6. q = [at |-> "done", kind |-> req[r].kind, todo |-> {}, awaits |-> {},
             fetches |-> req[r].fetches, status |-> status, line |-> Line(req[r].kind)]
    <2>1. q = [at |-> "done", kind |-> req[r].kind, todo |-> req[r].todo,
               awaits |-> req[r].awaits, fetches |-> req[r].fetches,
               status |-> status, line |-> Line(req[r].kind)]
      BY <1>4, <1>5, AnsweredIs
    <2> QED
      BY <2>1 DEF Settled
  <1> HIDE DEF q
  <1>7. q \in Request
    BY <1>4, <1>5, <1>6 DEF Request
  <1>8. Sound(q)
    BY <1>1, <1>4, <1>5, <1>6, <1>7 DEF Sound, Accounted
  <1>9. UNCHANGED <<world, phase, named, held, filters, clients, counts, since, fault>>
    BY DEF process
  <1>10. NumberedInOrder'
    <2>1. q.fetches = req[r].fetches
      BY <1>6
    <2>2. UNCHANGED counts
      BY <1>9
    <2> QED
      BY <1>2, <2>1, <2>2, SameNumbers
  <1>11. counts' \in [Providers -> [Days -> Nat]]
    BY <1>9 DEF IInv, TypeOK
  <1> QED
    <2>1. Sound(req'[r]) /\ req' = [req EXCEPT ![r] = req'[r]]
      BY <1>2, <1>8 DEF IInv, TypeOK
    <2> QED
      BY <1>1, <1>9, <1>10, <1>11, <2>1, OneRequest

(* Sending takes the next number for its provider and day.                 *)
LEMMA SendStep ==
  ASSUME IInv, NEW r \in Requests, NEW p \in Providers, Send(r, p)
  PROVE  IInv'
  <1> DEFINE n == counts[p][day] + 1
             new == [to |-> p, via |-> clients[p], on |-> day, number |-> n]
             q == Sent(req[r], new)
  <1>1. counts \in [Providers -> [Days -> Nat]] /\ day \in Days
    BY DEF IInv, TypeOK
  <1>2. /\ counts' \in [Providers -> [Days -> Nat]]
        /\ counts'[p][day] = n
        /\ \A o \in Providers, d \in Days :
               <<o, d>> # <<p, day>> => counts'[o][d] = counts[o][d]
    BY <1>1 DEF Send, Record
  <1>3. req[r].at = "routed" /\ p \in req[r].todo
    BY DEF Send, IInv, Quiet
  <1>4. phase \in {"listening", "stopping"} /\ Sound(req[r])
    BY <1>3, Busy
  <1>5. clients = held /\ p \in named /\ 0 < held[p] /\ held[p] \in 1..MaxClaims
    BY <1>3, <1>4, MaxClaimsAssumption DEF IInv, Connected, Sound, Snapshot, Built, TypeOK
  <1>6. new \in Fetch /\ n \in Nat
    BY <1>1, <1>5 DEF Fetch
  <1>7. req' = [req EXCEPT ![r] = q]
    BY <1>2 DEF Send
  <1>a. new.to = p /\ new.on = day /\ new.number = n /\ new.via = held[p]
    BY <1>5
  <1> HIDE DEF new
  <1>8. /\ req[r] \in Request
        /\ q = [at |-> "routed", kind |-> req[r].kind, todo |-> req[r].todo \ {p},
                awaits |-> req[r].awaits \union {p},
                fetches |-> req[r].fetches \union {new},
                status |-> req[r].status, line |-> req[r].line]
    BY <1>3, <1>4, <1>6, <1>a, SentIs DEF Sound
  <1> HIDE DEF q
  <1>b. q \in Request
    BY <1>6, <1>8 DEF Request
  <1>9. Sound(q)
    <2>1. q.kind = req[r].kind /\ q.status = req[r].status /\ q.at = req[r].at
      BY <1>3, <1>8
    <2>2. Accounted(q.kind, q.status) /\ q.kind = "accounts"
      BY <1>3, <1>4, <2>1 DEF Sound
    <2> QED
      BY <1>4, <1>5, <1>8, <1>a, <1>b, <2>2 DEF Sound
  <1>10. NumberedInOrder'
    <2>1. /\ \A s \in Requests \ {r} : req'[s].fetches = req[s].fetches
          /\ req'[r].fetches = req[r].fetches \union {new}
      BY <1>7, <1>8 DEF IInv, TypeOK
    <2>2. \A s \in Requests : \A f \in req[s].fetches :
              f.to \in Providers /\ f.on \in Days /\ f.number \in 1..counts[f.to][f.on]
      BY DEF IInv, TypeOK, Request, Fetch, NumberedInOrder
    <2>3. ASSUME NEW o \in Providers, NEW d \in Days, NEW k \in 1..counts'[o][d]
          PROVE  \E s \in Requests : \E f \in req'[s].fetches :
                     f.to = o /\ f.on = d /\ f.number = k
      <3>1. CASE <<o, d, k>> = <<p, day, n>>
        <4>1. new \in req'[r].fetches /\ new.to = o /\ new.on = d /\ new.number = k
          BY <1>a, <2>1, <3>1
        <4> QED
          BY <4>1
      <3>2. CASE <<o, d, k>> # <<p, day, n>>
        <4>1. k \in 1..counts[o][d]
          BY <1>1, <1>2, <3>2
        <4>2. PICK s \in Requests : \E f \in req[s].fetches :
                  f.to = o /\ f.on = d /\ f.number = k
          BY <4>1 DEF IInv, NumberedInOrder
        <4> QED
          BY <2>1, <4>2
      <3> QED
        BY <3>1, <3>2
    <2>4. ASSUME NEW s \in Requests, NEW f \in req'[s].fetches
          PROVE  f.number \in 1..counts'[f.to][f.on]
      <3>1. \A o \in Providers, d \in Days : counts'[o][d] >= counts[o][d]
        BY <1>1, <1>2
      <3>2. CASE f = new /\ s = r
        BY <1>1, <1>2, <1>a, <3>2
      <3>3. CASE f \in req[s].fetches
        <4>1. f.to \in Providers /\ f.on \in Days /\ f.number \in 1..counts[f.to][f.on]
          BY <2>2, <3>3
        <4> QED
          BY <1>1, <1>2, <3>1, <4>1
      <3> QED
        BY <2>1, <3>2, <3>3
    <2>5. \A s \in Requests : \A f \in req[s].fetches :
              <<f.to, f.on, f.number>> # <<new.to, new.on, new.number>>
      BY <1>1, <1>a, <2>2
    <2>6. ASSUME NEW s \in Requests, NEW t \in Requests,
                 NEW f \in req'[s].fetches, NEW g \in req'[t].fetches,
                 <<f.to, f.on, f.number>> = <<g.to, g.on, g.number>>
          PROVE  s = t /\ f = g
      <3>1. f \in req[s].fetches \/ (s = r /\ f = new)
        BY <2>1
      <3>2. g \in req[t].fetches \/ (t = r /\ g = new)
        BY <2>1
      <3>3. f \in req[s].fetches /\ g \in req[t].fetches => s = t /\ f = g
        BY <2>6 DEF IInv, NumberedInOrder
      <3> QED
        BY <2>5, <2>6, <3>1, <3>2, <3>3
    <2> QED
      BY <2>3, <2>4, <2>6 DEF NumberedInOrder
  <1> QED
    <2>1. Sound(req'[r]) /\ req' = [req EXCEPT ![r] = req'[r]]
      BY <1>7, <1>9 DEF IInv, TypeOK
    <2> QED
      BY <1>2, <1>4, <1>10, <2>1, OneRequest DEF Send

LEMMA RequestStep ==
  ASSUME IInv, NEW r \in Requests,
         Accept(r) \/ Handle(r) \/ \E p \in Providers : Receive(r, p)
  PROVE  IInv'
  <1>1. CASE Accept(r)
    <2>1. PICK kind \in Kinds : req' = [req EXCEPT ![r] = Accepted(@, kind)]
      BY <1>1 DEF Accept
    <2> DEFINE q == Accepted(req[r], kind)
    <2>2. req' = [req EXCEPT ![r] = q]
      BY <2>1
    <2>3. req[r] = Fresh /\ Fresh \in Request
      BY <1>1 DEF Accept, IInv, Quiet, TypeOK
    <2>a. q = [at |-> "accepted", kind |-> kind, todo |-> {}, awaits |-> {},
               fetches |-> {}, status |-> 0, line |-> "none"]
      BY <2>3, AcceptedIs DEF Fresh
    <2> HIDE DEF q
    <2>b. q \in Request /\ kind # "none"
      BY <2>a DEF Request, Kinds
    <2>4. Sound(q) /\ q.fetches = req[r].fetches
      BY <2>3, <2>a, <2>b DEF Sound, Accounted, Fresh
    <2>5. NumberedInOrder'
      BY <1>1, <2>2, <2>4, SameNumbers DEF Accept, process
    <2> QED
      <3>1. Sound(req'[r]) /\ req' = [req EXCEPT ![r] = req'[r]]
        BY <2>2, <2>4 DEF IInv, TypeOK
      <3> QED
        BY <1>1, <2>5, <3>1, OneRequest DEF Accept, process, IInv, TypeOK
  <1>2. CASE ClaimToken(r)
    <2>1. PICK status \in {200, 403, 500} : Done(r, status) /\ (status = 500 => apps # "good")
      BY <1>2 DEF ClaimToken, IInv, TypeOK, AppStates
    <2>2. phase \in {"listening", "stopping"} /\ Sound(req[r])
      BY <1>2, Busy DEF ClaimToken
    <2>3. Accounted(req[r].kind, status)
      BY <1>2, <2>1, <2>2 DEF Accounted, ClaimToken, IInv, TypeOK, Watched, Explained
    <2> QED
      BY <1>2, <2>1, <2>2, <2>3, AnswerStep DEF Settled, ClaimToken, Sound
  <1>3. CASE RefuseStray(r)
    <2>1. Sound(req[r])
      BY <1>3, Busy DEF RefuseStray
    <2> QED
      BY <1>3, <2>1, AnswerStep DEF Settled, RefuseStray, Sound, Accounted
  <1>4. CASE TurnAway(r)
    <2>1. phase \in {"listening", "stopping"} /\ Sound(req[r])
      BY <1>4, Busy DEF TurnAway
    <2>2. fault = "since"
      BY <1>4, <2>1 DEF TurnAway, IInv, Watched, Explained, Usable
    <2> QED
      BY <1>4, <2>1, <2>2, AnswerStep DEF Settled, TurnAway, Sound, Accounted
  <1>5. CASE Respond(r)
    <2>1. PICK status \in {200, 500} : Done(r, status)
      BY <1>5 DEF Respond
    <2>2. req[r].kind = "accounts"
      BY <1>5 DEF Respond, IInv, Quiet
    <2> QED
      BY <1>5, <2>1, <2>2, AnswerStep DEF Settled, Respond, Accounted
  <1>6. CASE Admit(r)
    <2>1. PICK asked \in SUBSET named :
              req' = [req EXCEPT ![r] = RoutedTo(@, asked)]
      BY <1>6 DEF Admit
    <2> DEFINE q == RoutedTo(req[r], asked)
    <2>2. req' = [req EXCEPT ![r] = q]
      BY <2>1
    <2>3. phase \in {"listening", "stopping"} /\ Sound(req[r]) /\ named \subseteq Providers
      BY <1>6, Busy DEF Admit, IInv, TypeOK
    <2>a. /\ req[r] \in Request
          /\ q = [at |-> "routed", kind |-> req[r].kind, todo |-> asked,
                  awaits |-> req[r].awaits, fetches |-> req[r].fetches,
                  status |-> req[r].status, line |-> req[r].line]
      BY <2>3, RoutedIs DEF Sound
    <2> HIDE DEF q
    <2>b. q \in Request
      BY <2>3, <2>a DEF Request
    <2>4. Sound(q) /\ q.fetches = req[r].fetches
      BY <1>6, <2>3, <2>a, <2>b DEF Sound, Accounted, Admit
    <2>5. NumberedInOrder'
      BY <1>6, <2>2, <2>4, SameNumbers DEF Admit, process
    <2> QED
      <3>1. Sound(req'[r]) /\ req' = [req EXCEPT ![r] = req'[r]]
        BY <2>2, <2>4 DEF IInv, TypeOK
      <3> QED
        BY <1>6, <2>3, <2>5, <3>1, OneRequest DEF Admit, process, IInv, TypeOK
  <1>7. ASSUME NEW p \in Providers, Send(r, p) PROVE IInv'
    BY <1>7, SendStep
  <1>8. ASSUME NEW p \in Providers, Receive(r, p) PROVE IInv'
    <2> DEFINE q == [req[r] EXCEPT !.awaits = @ \ {p}]
    <2>1. req' = [req EXCEPT ![r] = q]
      BY <1>8 DEF Receive
    <2>2. req[r].at = "routed"
      BY <1>8 DEF Receive, IInv, Quiet
    <2>3. phase \in {"listening", "stopping"} /\ Sound(req[r])
      BY <2>2, Busy
    <2>4. Sound(q) /\ q.fetches = req[r].fetches
      BY <2>2, <2>3 DEF Sound, Accounted, Request
    <2> HIDE DEF q
    <2>5. NumberedInOrder'
      BY <1>8, <2>1, <2>4, SameNumbers DEF Receive, process
    <2> QED
      <3>1. Sound(req'[r]) /\ req' = [req EXCEPT ![r] = req'[r]]
        BY <2>1, <2>4 DEF IInv, TypeOK
      <3> QED
        BY <1>8, <2>3, <2>5, <3>1, OneRequest DEF Receive, process, IInv, TypeOK
  <1> QED
    BY <1>1, <1>2, <1>3, <1>4, <1>5, <1>6, <1>7, <1>8 DEF Handle

LEMMA InvStep == IInv /\ [Next]_vars => IInv'
  <1> SUFFICES ASSUME IInv, [Next]_vars PROVE IInv'
    OBVIOUS
  <1>1. CASE (\E p \in Providers : Claim(p)) \/ EditConfig \/ AppsChange \/ ClockChange
    BY <1>1, WorldStep
  <1>2. CASE Start
    BY <1>2, StartStep
  <1>3. CASE \E r \in Requests :
                 Accept(r) \/ Handle(r) \/ \E p \in Providers : Receive(r, p)
    BY <1>3, RequestStep
  <1>4. CASE Stop \/ Drain \/ \E p \in Providers : Close(p)
    BY <1>4, StopStep
  <1>5. CASE Exit \/ Crash
    BY <1>5, GoneStep DEF Exit, Crash
  <1>6. CASE UNCHANGED vars
    <2>1. UNCHANGED <<world, process, fault, req>>
      BY <1>6 DEF vars
    <2> QED
      BY <2>1 DEF IInv, TypeOK, Snapshot, Connected, Watched, Explained, Usable, Quiet, Asked,
                  Active, world, process, OnlyClaimsAreHidden, FaultsAreFoundAtStart,
                  NumberedInOrder
  <1> QED
    BY <1>1, <1>2, <1>3, <1>4, <1>5, <1>6 DEF Next, Shutdown

(* The inductive invariant, for any providers, requests, days and number of *)
(* claims.                                                                 *)
THEOREM Invariance == Spec => []IInv
  BY InvInit, InvStep, PTL DEF Spec

(* The state of a serve process has its type: no request is sent without an *)
(* access URL (create_app).                                                *)
THEOREM TypeCorrect == Spec => []TypeOK
  <1>1. IInv => TypeOK
    BY DEF IInv
  <1> QED
    BY <1>1, Invariance, PTL

(* No fetch is ever on its way with a client that is closed, or that is of   *)
(* another access URL than it began with (lifespan, fetch).                *)
THEOREM ClientsStayOpen == Spec => []OnlyOpenClients
  <1>1. IInv => OnlyOpenClients
    <2> SUFFICES ASSUME IInv, NEW r \in Requests, NEW f \in req[r].fetches,
                        f.to \in req[r].awaits
                 PROVE  0 < f.via /\ f.via = clients[f.to]
      BY DEF OnlyOpenClients
    <2>1. req[r].at = "routed"
      BY DEF IInv, Quiet
    <2>2. phase \in {"listening", "stopping"} /\ Sound(req[r])
      BY <2>1, Busy
    <2> QED
      BY <2>2 DEF Sound, IInv, Connected, Snapshot, Built
  <1> QED
    BY <1>1, Invariance, PTL

(* What was claimed before serve was run is what each of its requests uses  *)
(* (load_access_urls, create_app).                                         *)
THEOREM OneSnapshotHolds == Spec => []OneSnapshot
  <1>1. IInv => OneSnapshot
    <2> SUFFICES ASSUME IInv, NEW r \in Requests, NEW f \in req[r].fetches
                 PROVE  f.via = held[f.to] /\ f.via >= since[f.to]
      BY Zenon DEF OneSnapshot
    <2>1. f.to \in named /\ f.via = held[f.to] /\ f.to \in Providers
      BY DEF IInv, Asked, TypeOK
    <2>2. phase \in Serving
      BY DEF IInv, Quiet, Fresh
    <2>3. since[f.to] <= held[f.to] /\ since[f.to] \in Nat /\ held[f.to] \in Nat
      BY <2>1, <2>2, MaxClaimsAssumption DEF IInv, Snapshot, Built, Serving, TypeOK
    <2> QED
      BY <2>1, <2>3
  <1> QED
    BY <1>1, Invariance, PTL

(* For any number of requests and days, whatever the clock does, the counts *)
(* of a provider and a day are 1, 2, 3, each once (RequestCounter.record).  *)
THEOREM NumbersInOrder == Spec => []NumberedInOrder
  <1>1. IInv => NumberedInOrder
    BY DEF IInv
  <1> QED
    BY <1>1, Invariance, PTL

(* The lines of claims, and they alone, are hidden (_RedactPathFilter).     *)
THEOREM ClaimsHidden == Spec => []OnlyClaimsAreHidden
  <1>1. IInv => OnlyClaimsAreHidden
    BY DEF IInv
  <1> QED
    BY <1>1, Invariance, PTL

(* For any requests and any changes of the store: a client app is turned    *)
(* away, and a claim fails, only for a fault that came after the start or   *)
(* that the start does not look for; and a file that cannot be parsed and a *)
(* directory that may not be written are what it looks for                 *)
(* (_check_app_store_or_exit, check_can_save).                             *)
THEOREM FaultsFoundFirst == Spec => []FaultsAreFoundAtStart
  <1>1. IInv => FaultsAreFoundAtStart
    BY DEF IInv
  <1> QED
    BY <1>1, Invariance, PTL

(***************************************************************************)
(* The script that runs a server and checks it (ManualVerify).             *)
(***************************************************************************)
Prepared == {"claim providers", "app new", "serve"}
Tests == {"claim", "again", "info", "accounts", "filtered", "anonymous", "revoke",
          "revoked"}
Ending == {"terminate", "wait", "remove", "end"}
AnyId == Prefixed \union Bare

ScriptTypes ==
    /\ given \in 0..3
    /\ pc \in {"start", "fetch", "make", "poll"} \union Prepared \union Tests \union Ending
    /\ outcome \in {"open", "usage", "failed", "interrupted", "done"}
    /\ polls \in Nat
    /\ listed \in Seq(AnyId) /\ picked \in Seq(AnyId)
    /\ dir \in BOOLEAN
    /\ app \in {"none", "unclaimed", "claimed", "revoked"}
    /\ defects \subseteq Defects
    /\ server \in {"none", "starting", "up", "stopped", "crashed"}
    /\ told \in BOOLEAN
    /\ port \in Foreign \union {"free", "own"}

(* The server under test has the port exactly while it listens, is told to  *)
(* stop once the script ends, and stops for nothing else.                  *)
OwnServer ==
    /\ port = "own" <=> server = "up"
    /\ told = TRUE <=> pc \in {"wait", "remove", "end"} /\ server # "none"
    /\ server = "stopped" => told = TRUE
    /\ server # "none" => pc \in {"poll"} \union Tests \union Ending
    /\ pc \in {"poll", "terminate", "wait"} \union Tests => server # "none"

OwnDirectory ==
    /\ pc \in {"poll", "terminate", "wait"} \union Prepared \union Tests => dir = TRUE
    /\ dir = TRUE => pc \notin {"start", "fetch", "make", "end"}
    /\ pc \in {"remove", "end"} /\ server \in Alive => outcome = "interrupted"

OwnApp ==
    /\ app = "claimed" => server \notin {"none", "starting"}
    /\ app = "revoked" => pc \in {"revoked"} \union Ending
    /\ pc = "revoked" => app = "revoked"
    /\ outcome = "done" => pc \in Ending /\ app = "revoked"

(* What a check has found stays true: the server that answered is the own   *)
(* one, or the own one is dead.                                            *)
Past(tests) == pc \in tests \/ outcome = "done"

Both(list) ==
    /\ Of(Prefixed, list) # <<>>
    /\ Of(Bare, list) # <<>>
    /\ list = Of(Prefixed, list) \o Of(Bare, list)
Pair(list) == <<Head(Of(Prefixed, list)), Head(Of(Bare, list))>>

Found ==
    /\ pc \in {"info", "accounts"} /\ app = "claimed" /\ server = "up" =>
           "replays a claim" \notin defects
    /\ Past({"filtered", "anonymous", "revoke", "revoked"}) =>
           /\ "replays a claim" \notin defects
           /\ app \in {"claimed", "revoked"}
           /\ server \in {"up", "crashed"} \/ (pc \in Ending /\ server = "stopped")
           /\ Both(listed)
    /\ Past({"anonymous", "revoke", "revoked"}) => picked = Pair(listed)
    /\ Past({"revoke", "revoked"}) => "admits anyone" \notin defects \/ server = "crashed"
    /\ outcome = "done" => "forgets a revocation" \notin defects \/ server = "crashed"

ScriptInv == ScriptTypes /\ OwnServer /\ OwnDirectory /\ OwnApp /\ Found

(* Of keeps of a list what is in Ids.                                      *)
LEMMA OfMembers ==
  ASSUME NEW S, NEW Ids, NEW list \in Seq(S)
  PROVE  /\ Of(Ids, list) \in Seq(S)
         /\ \A k \in DOMAIN Of(Ids, list) :
                /\ Of(Ids, list)[k] \in Ids
                /\ \E i \in DOMAIN list : list[i] = Of(Ids, list)[k]
  <1> DEFINE parts == [i \in DOMAIN list |-> IF list[i] \in Ids THEN <<list[i]>> ELSE <<>>]
  <1>1. /\ parts \in Seq(Seq(S)) /\ Len(parts) = Len(list)
        /\ \A n \in 1..Len(parts) : Len(parts[n]) <= 1
    <2>1. \A i \in DOMAIN list : parts[i] \in Seq(S)
      OBVIOUS
    <2>2. \A i \in DOMAIN list : Len(parts[i]) <= 1
      OBVIOUS
    <2>3. DOMAIN list = 1..Len(list) /\ Len(list) \in Nat /\ DOMAIN parts = 1..Len(list)
      OBVIOUS
    <2> HIDE DEF parts
    <2>4. parts \in [1..Len(list) -> Seq(S)]
      <3>1. parts = [i \in 1..Len(list) |-> parts[i]]
        BY <2>3 DEF parts
      <3> QED
        BY <2>1, <2>3, <3>1
    <2> QED
      BY <2>2, <2>3, <2>4
  <1>2. \A n \in DOMAIN list : Len(parts[n]) = 1 => list[n] \in Ids /\ parts[n][1] = list[n]
    OBVIOUS
  <1>3. Of(Ids, list) = FlattenSeq(parts)
    BY DEF Of
  <1> HIDE DEF parts
  <1>4. PICK pos : Sifting(parts, Of(Ids, list), pos)
    BY <1>1, <1>3, Sifted
  <1>5. Of(Ids, list) \in Seq(S)
    BY <1>1, <1>3, Sifted
  <1>6. ASSUME NEW k \in DOMAIN Of(Ids, list)
        PROVE  /\ Of(Ids, list)[k] \in Ids
               /\ \E i \in DOMAIN list : list[i] = Of(Ids, list)[k]
    <2> DEFINE kept == Of(Ids, list)
    <2>1. kept \in Seq(S) /\ k \in 1..Len(kept) /\ Sifting(parts, kept, pos)
      BY <1>4, <1>5
    <2> HIDE DEF kept
    <2>2. /\ pos[k] \in 1..Len(parts) /\ Len(parts[pos[k]]) = 1
          /\ kept[k] = parts[pos[k]][1]
      BY <2>1 DEF Sifting
    <2>3. pos[k] \in DOMAIN list
      BY <1>1, <2>2
    <2> QED
      BY <1>2, <2>2, <2>3 DEF kept
  <1> QED
    BY <1>5, <1>6

(* Nothing of an empty list.                                               *)
LEMMA OfNothing == \A Ids : Of(Ids, <<>>) = <<>>
  <1> SUFFICES ASSUME NEW Ids PROVE Of(Ids, <<>>) = <<>>
    OBVIOUS
  <1>1. <<>> \in Seq({})
    OBVIOUS
  <1>2. Of(Ids, <<>>) \in Seq({})
    BY <1>1, OfMembers
  <1> HIDE DEF Of
  <1> QED
    BY <1>2

(* The checks in their order.                                              *)
LEMMA AfterIs ==
  /\ After("claim") = "again" /\ After("again") = "info" /\ After("info") = "accounts"
  /\ After("accounts") = "filtered" /\ After("filtered") = "anonymous"
  /\ After("anonymous") = "revoke" /\ After("revoke") = "revoked"
  /\ After("revoked") = "terminate"
  <1>1. /\ DOMAIN Checks = 1..8 /\ Len(Checks) = 8
        /\ Checks[1] = "claim" /\ Checks[2] = "again" /\ Checks[3] = "info"
        /\ Checks[4] = "accounts" /\ Checks[5] = "filtered" /\ Checks[6] = "anonymous"
        /\ Checks[7] = "revoke" /\ Checks[8] = "revoked"
    BY DEF Checks
  <1>2. ASSUME NEW i \in 1..8
        PROVE  (CHOOSE j \in DOMAIN Checks : Checks[j] = Checks[i]) = i
    BY <1>1, <1>2
  <1>3. ASSUME NEW i \in 1..8
        PROVE  After(Checks[i]) = IF i = 8 THEN "terminate" ELSE Checks[i + 1]
    BY <1>1, <1>2 DEF After
  <1> QED
    BY <1>1, <1>3

LEMMA ScriptInitInv == ScriptInit => ScriptInv
  <1> SUFFICES ASSUME ScriptInit PROVE ScriptInv
    OBVIOUS
  <1>1. ScriptTypes
    <2>1. <<>> \in Seq(AnyId)
      OBVIOUS
    <2> QED
      BY <2>1 DEF ScriptInit, ScriptTypes, Foreign
  <1>2. OwnServer /\ OwnDirectory /\ OwnApp
    BY DEF ScriptInit, OwnServer, OwnDirectory, OwnApp, Prepared, Tests, Ending, Alive, Foreign
  <1>3. Found
    BY DEF ScriptInit, Found, Past
  <1> QED
    BY <1>1, <1>2, <1>3 DEF ScriptInv

(* An exception, at whatever step before the script cleans up.              *)
Raising ==
    /\ \E why \in {"usage", "failed", "interrupted"} : Raise(why)
    /\ pc \notin Ending
    /\ app' = app \/ (app' = "claimed" /\ port = "own")
    /\ UNCHANGED <<dir, defects, server, told, port>>

LEMMA Raised ==
  ASSUME ScriptInv, Raising
  PROVE  ScriptInv'
  <1> USE DEF ScriptInv, Raising, Raise, Leaves, Ending, Prepared, Tests
  <1>1. ScriptTypes'
    BY DEF ScriptTypes
  <1>2. OwnServer'
    BY DEF ScriptTypes, OwnServer
  <1>3. OwnDirectory'
    BY DEF ScriptTypes, OwnServer, OwnDirectory, Alive
  <1>4. OwnApp'
    BY DEF ScriptTypes, OwnServer, OwnApp
  <1>5. Found'
    BY DEF ScriptTypes, Found, Past
  <1> QED
    BY <1>1, <1>2, <1>3, <1>4, <1>5

(* What the script does before its server listens.                         *)
LEMMA BeforeServing ==
  ASSUME ScriptInv, Begin \/ FetchTokens \/ MakeDirectory \/ ClaimProviders \/ AppNew
                    \/ StartServer \/ Poll
  PROVE  ScriptInv'
  <1> SUFFICES ASSUME ~Raising PROVE ScriptInv'
    BY Raised
  <1> DEFINE Going(from, to) == pc = from /\ Goto(to)
  <1>1. \/ Going("start", "fetch") /\ UNCHANGED system
        \/ Going("start", "make") /\ UNCHANGED system
        \/ Going("fetch", "make") /\ UNCHANGED system
        \/ Going("make", "claim providers") /\ dir' = TRUE
           /\ UNCHANGED <<app, defects, server, told, port>>
        \/ Going("claim providers", "app new") /\ UNCHANGED system
        \/ Going("app new", "serve") /\ app' = "unclaimed"
           /\ UNCHANGED <<dir, defects, server, told, port>>
        \/ Going("serve", "poll") /\ server' = "starting"
           /\ UNCHANGED <<dir, app, defects, told, port>>
        \/ Going("poll", "claim") /\ UNCHANGED system
        \/ /\ pc = "poll" /\ polls' = polls + 1
           /\ UNCHANGED <<given, pc, outcome, listed, picked>> /\ UNCHANGED system
    <2>1. ASSUME NEW why \in {"usage", "failed"}, Raise(why), pc \notin Ending, UNCHANGED system
          PROVE  FALSE
      BY <2>1 DEF Raising, system
    <2>2. ASSUME AppNew, Raise("failed"), UNCHANGED app PROVE FALSE
      BY <2>2 DEF Raising, AppNew, Ending
    <2> QED
      BY <2>1, <2>2 DEF Begin, FetchTokens, MakeDirectory, ClaimProviders, AppNew,
                        StartServer, Poll, PollAgain, Ending
  <1> USE DEF ScriptInv, Goto, system, Prepared, Tests, Ending, Alive
  <1>2. CASE Going("start", "fetch") \/ Going("start", "make") \/ Going("fetch", "make")
    <2>1. ScriptTypes'
      BY <1>1, <1>2 DEF ScriptTypes
    <2>2. OwnServer'
      BY <1>1, <1>2 DEF ScriptTypes, OwnServer
    <2>3. OwnDirectory'
      BY <1>1, <1>2 DEF OwnServer, OwnDirectory
    <2>4. OwnApp'
      BY <1>1, <1>2 DEF OwnApp
    <2>5. Found'
      BY <1>1, <1>2 DEF OwnApp, Found, Past
    <2> QED
      BY <2>1, <2>2, <2>3, <2>4, <2>5
  <1>3. CASE Going("make", "claim providers") \/ Going("claim providers", "app new")
    <2>1. ScriptTypes'
      BY ZenonT(30), <1>1, <1>3 DEF ScriptTypes
    <2>2. OwnServer'
      BY <1>1, <1>3 DEF ScriptTypes, OwnServer
    <2>3. OwnDirectory'
      BY <1>1, <1>3 DEF OwnServer, OwnDirectory
    <2>4. OwnApp'
      BY <1>1, <1>3 DEF OwnApp
    <2>5. Found'
      BY <1>1, <1>3 DEF OwnApp, Found, Past
    <2> QED
      BY <2>1, <2>2, <2>3, <2>4, <2>5
  <1>4. CASE Going("app new", "serve")
    <2>1. ScriptTypes'
      BY <1>1, <1>4 DEF ScriptTypes
    <2>2. OwnServer'
      BY <1>1, <1>4 DEF ScriptTypes, OwnServer
    <2>3. OwnDirectory'
      BY <1>1, <1>4 DEF OwnServer, OwnDirectory
    <2>4. OwnApp'
      BY <1>1, <1>4 DEF OwnApp
    <2>5. Found'
      BY <1>1, <1>4 DEF OwnApp, Found, Past
    <2> QED
      BY <2>1, <2>2, <2>3, <2>4, <2>5
  <1>5. CASE Going("serve", "poll")
    <2>1. ScriptTypes'
      BY <1>1, <1>5 DEF ScriptTypes
    <2>2. OwnServer'
      BY <1>1, <1>5 DEF ScriptTypes, OwnServer
    <2>3. OwnDirectory'
      BY <1>1, <1>5 DEF OwnServer, OwnDirectory
    <2>4. OwnApp'
      BY <1>1, <1>5 DEF OwnServer, OwnApp
    <2>5. Found'
      BY <1>1, <1>5 DEF OwnApp, Found, Past
    <2> QED
      BY <2>1, <2>2, <2>3, <2>4, <2>5
  <1>6. CASE pc = "poll"
    <2>1. ScriptTypes'
      <3>1. /\ pc' = "poll" \/ pc' = "claim"
            /\ polls' = polls \/ polls' = polls + 1
            /\ UNCHANGED <<given, outcome, listed, picked, dir, app, defects, server, told, port>>
        BY <1>1, <1>6
      <3>2. polls \in Nat
        BY DEF ScriptTypes
      <3>3. polls' \in Nat
        BY <3>1, <3>2
      <3> QED
        BY ZenonT(30), <3>1, <3>3 DEF ScriptTypes
    <2>2. OwnServer'
      BY <1>1, <1>6 DEF ScriptTypes, OwnServer
    <2>3. OwnDirectory'
      BY <1>1, <1>6 DEF OwnServer, OwnDirectory
    <2>4. OwnApp'
      BY <1>1, <1>6 DEF OwnApp
    <2>5. Found'
      BY <1>1, <1>6 DEF OwnApp, Found, Past
    <2> QED
      BY <2>1, <2>2, <2>3, <2>4, <2>5
  <1> QED
    BY <1>1, <1>2, <1>3, <1>4, <1>5, <1>6

(* Revoking, cleaning up, and Control-C.                                   *)
LEMMA CleaningUp ==
  ASSUME ScriptInv, Revoke \/ Terminate \/ Wait \/ RemoveDirectory \/ Interrupt
  PROVE  ScriptInv'
  <1> SUFFICES ASSUME ~Raising PROVE ScriptInv'
    BY Raised
  <1> DEFINE Going(from, to) == pc = from /\ Goto(to)
  <1>1. \/ Going("revoke", "revoked") /\ app' = "revoked"
           /\ UNCHANGED <<dir, defects, server, told, port>>
        \/ Going("terminate", "wait") /\ told' = TRUE
           /\ UNCHANGED <<dir, app, defects, server, port>>
        \/ Going("wait", "remove") /\ server \notin Alive /\ UNCHANGED system
        \/ Going("remove", "end") /\ dir' = FALSE
           /\ UNCHANGED <<app, defects, server, told, port>>
        \/ /\ pc = "wait" /\ pc' = "remove" /\ outcome' = "interrupted"
           /\ UNCHANGED <<given, polls, listed, picked>> /\ UNCHANGED system
    <2>1. ASSUME Revoke, Raise("failed"), UNCHANGED app PROVE FALSE
      BY <2>1 DEF Raising, Revoke, Ending
    <2>2. ASSUME Interrupt, pc # "wait" PROVE FALSE
      BY <2>2 DEF Raising, Interrupt, Ending, system
    <2> QED
      BY <2>1, <2>2, AfterIs DEF Revoke, Terminate, Wait, RemoveDirectory, Interrupt
  <1> USE <1>1 DEF ScriptInv, Goto, system
  <1>2. ScriptTypes'
    BY DEF ScriptTypes, Tests, Ending
  <1>3. OwnServer'
    BY DEF ScriptTypes, OwnServer, Tests, Ending
  <1>4. OwnDirectory'
    BY DEF ScriptTypes, OwnServer, OwnDirectory, Alive, Prepared, Tests, Ending
  <1>5. OwnApp'
    BY DEF ScriptTypes, OwnServer, OwnApp, Found, Past, Ending
  <1>6. Found'
    BY DEF ScriptTypes, OwnServer, OwnApp, Found, Past, Ending
  <1> QED
    BY <1>2, <1>3, <1>4, <1>5, <1>6

(* What the server and the port do by themselves.                          *)
LEMMA ServerAndPort ==
  ASSUME ScriptInv, Listens \/ ObeysSignal \/ Crashes \/ ForeignComes \/ ForeignGoes
  PROVE  ScriptInv'
  <1> USE DEF ScriptInv, Listens, ObeysSignal, Crashes, Stops, ForeignComes, ForeignGoes,
              script, Foreign, Alive
  <1>1. ScriptTypes'
    BY DEF ScriptTypes
  <1>2. OwnServer'
    BY DEF ScriptTypes, OwnServer, Ending
  <1>3. OwnDirectory'
    BY DEF ScriptTypes, OwnServer, OwnDirectory
  <1>4. OwnApp'
    BY DEF ScriptTypes, OwnServer, OwnApp
  <1>5. Found'
    BY DEF ScriptTypes, OwnServer, OwnApp, Found, Past, Ending
  <1> QED
    BY <1>1, <1>2, <1>3, <1>4, <1>5

(* One check, passed: what it found about the own server.                  *)
LEMMA Checked ==
  ASSUME ScriptInv, NEW c \in Tests, Check(c)
  PROVE  ScriptInv'
  <1> SUFFICES ASSUME ~Raising PROVE ScriptInv'
    BY Raised
  <1>1. PICK status \in Status(c), list \in Lists :
           /\ pc = c /\ c # "revoke" /\ port # "free"
           /\ list # <<>> => port = "own" /\ c \in {"accounts", "filtered"}
           /\ Passes(c, status, list)
           /\ pc' = After(c)
           /\ outcome' = IF c = "revoked" THEN "done" ELSE outcome
           /\ listed' = IF c = "accounts" THEN list ELSE listed
           /\ picked' = IF c = "filtered" THEN list ELSE picked
           /\ UNCHANGED <<given, polls, dir, defects, server, told, port>>
           /\ app' = IF c = "claim" /\ port = "own" /\ status = 200 THEN "claimed" ELSE app
    <2>1. ASSUME pc = c, Raise("failed"), UNCHANGED <<dir, defects, server, told, port>>,
                 app' = app \/ (app' = "claimed" /\ port = "own")
          PROVE  FALSE
      BY <2>1 DEF Raising, Tests, Ending
    <2> QED
      BY <2>1 DEF Check
  <1>2. list \in Seq(AnyId)
    BY DEF Lists, BoundedSeq, SeqOf, AnyId
  <1>3. status = Want[c]
    BY <1>1 DEF Passes
  <1>4. c \in {"claim", "again", "info", "accounts", "filtered", "anonymous", "revoked"}
    BY <1>1 DEF Tests
  <1>5. port = "own" => status \in OwnStatus(c)
    BY DEF Status
  <1>6. c = "accounts" => Both(list)
    BY <1>1 DEF Passes, Both
  <1>7. c = "filtered" => list = Pair(listed)
    BY <1>1 DEF Passes, Pair
  <1>8. c = "accounts" => list # <<>>
    <2> SUFFICES ASSUME Both(<<>>) PROVE FALSE
      BY <1>6
    <2>1. Of(Prefixed, <<>>) = <<>>
      BY OfNothing
    <2> QED
      BY <2>1 DEF Both
  <1>9. ScriptTypes'
    BY <1>1, <1>2, AfterIs DEF ScriptInv, ScriptTypes, Tests, Ending
  <1>10. OwnServer'
    BY <1>1, <1>4, AfterIs DEF ScriptInv, ScriptTypes, OwnServer, Tests, Ending
  <1>11. OwnDirectory'
    BY <1>1, <1>4, AfterIs
       DEF ScriptInv, ScriptTypes, OwnServer, OwnDirectory, Alive, Prepared, Tests, Ending
  <1>12. OwnApp'
    BY <1>1, <1>4, AfterIs
       DEF ScriptInv, ScriptTypes, OwnServer, OwnApp, Ending
  <1>13. Found'
    <2>1. CASE c \in {"claim", "again", "info"}
      <3>1. ASSUME c = "again", server = "up" PROVE "replays a claim" \notin defects
        <4>1. 403 \in OwnStatus("again")
          BY <1>3, <1>5, <3>1 DEF ScriptInv, OwnServer, Want
        <4> DEFINE defect == "replays a claim"
        <4>2. defect \in defects => OwnStatus("again") = {200}
          BY DEF OwnStatus
        <4> HIDE DEF defect
        <4>3. defect \notin defects
          BY <4>1, <4>2
        <4> QED
          BY <4>3 DEF defect
      <3> QED
        BY <1>1, <2>1, <3>1, AfterIs DEF ScriptInv, OwnApp, Found, Past, Ending
    <2>2. CASE c = "accounts"
      <3>1. port = "own" /\ app = "claimed"
        <4>1. port = "own" /\ status = 200 /\ status \in OwnStatus("accounts")
          BY <1>1, <1>3, <1>5, <1>8, <2>2 DEF Want
        <4>2. Known
          BY <4>1 DEF OwnStatus
        <4> QED
          BY <1>1, <2>2, <4>1, <4>2 DEF ScriptInv, OwnApp, Known, Ending
      <3> QED
        <4>1. /\ pc' = "filtered" /\ listed' = list /\ app' = "claimed" /\ Both(list)
              /\ UNCHANGED <<outcome, defects, server>> /\ outcome # "done"
          BY <1>1, <1>6, <2>2, <3>1, AfterIs DEF ScriptInv, OwnApp, Ending
        <4>2. server = "up" /\ "replays a claim" \notin defects
          BY <1>1, <2>2, <3>1 DEF ScriptInv, OwnServer, Found
        <4>3. ~Past({"anonymous", "revoke", "revoked"})' /\ ~Past({"revoke", "revoked"})'
          BY <4>1 DEF Past
        <4> QED
          BY <4>1, <4>2, <4>3 DEF Found
    <2>3. CASE c = "filtered"
      BY <1>1, <1>7, <2>3, AfterIs DEF ScriptInv, OwnApp, Found, Past, Ending
    <2>4. CASE c = "anonymous"
      <3>1. "admits anyone" \notin defects \/ server = "crashed"
        <4>1. CASE server = "up"
          <5>1. 403 \in OwnStatus("anonymous")
            BY <1>3, <1>5, <2>4, <4>1 DEF ScriptInv, OwnServer, Want
          <5> DEFINE defect == "admits anyone"
          <5>2. defect \in defects => OwnStatus("anonymous") = {200}
            BY DEF OwnStatus
          <5> HIDE DEF defect
          <5>3. defect \notin defects
            BY <5>1, <5>2
          <5> QED
            BY <5>3 DEF defect
        <4>2. server \in {"up", "crashed"}
          BY <1>1, <2>4 DEF ScriptInv, Found, Past, Ending
        <4> QED
          BY <4>1, <4>2
      <3> QED
        BY <1>1, <2>4, <3>1, AfterIs DEF ScriptInv, OwnApp, Found, Past, Ending
    <2>5. CASE c = "revoked"
      <3>1. "forgets a revocation" \notin defects \/ server = "crashed"
        <4>1. CASE server = "up"
          <5>1. 403 \in OwnStatus("revoked")
            BY <1>3, <1>5, <2>5, <4>1 DEF ScriptInv, OwnServer, Want
          <5>2. Known => OwnStatus("revoked") = {200}
            BY DEF OwnStatus
          <5>3. ~Known
            BY <5>1, <5>2
          <5>4. app = "revoked"
            BY <1>1, <2>5 DEF ScriptInv, OwnApp
          <5> QED
            BY <5>3, <5>4 DEF Known
        <4>2. server \in {"up", "crashed"}
          BY <1>1, <2>5 DEF ScriptInv, Found, Past, Ending
        <4> QED
          BY <4>1, <4>2
      <3> QED
        BY <1>1, <2>5, <3>1, AfterIs DEF ScriptInv, OwnApp, Found, Past, Ending
    <2> QED
      BY <1>4, <2>1, <2>2, <2>3, <2>4, <2>5
  <1> QED
    BY <1>9, <1>10, <1>11, <1>12, <1>13 DEF ScriptInv

LEMMA ScriptStep == ScriptInv /\ [ScriptNext]_scriptVars => ScriptInv'
  <1> SUFFICES ASSUME ScriptInv, [ScriptNext]_scriptVars PROVE ScriptInv'
    OBVIOUS
  <1>1. CASE \E c \in ToSet(Checks) : Check(c)
    <2>1. ToSet(Checks) = Tests
      BY DEF ToSet, Checks, Tests
    <2> QED
      BY <1>1, <2>1, Checked
  <1>2. CASE UNCHANGED scriptVars
    <2> USE <1>2 DEF scriptVars, script, system
    <2>1. ScriptTypes'
      BY DEF ScriptInv, ScriptTypes
    <2>2. OwnServer' /\ OwnDirectory' /\ OwnApp'
      BY DEF ScriptInv, OwnServer, OwnDirectory, OwnApp
    <2>3. Found'
      BY DEF ScriptInv, Found, Past, Both, Pair
    <2> QED
      BY <2>1, <2>2, <2>3 DEF ScriptInv
  <1> QED
    BY <1>1, <1>2, BeforeServing, CleaningUp, ServerAndPort DEF ScriptNext, Step

LEMMA ScriptInvariance == ScriptSpec => []ScriptInv
  BY ScriptInitInv, ScriptStep, PTL DEF ScriptSpec

(* "Done" means, for any lists of accounts, that the started server showed  *)
(* both providers in order and the two accounts named, and has no defect,   *)
(* unless it died after it had shown them (run, expect).                   *)
THEOREM DoneVerifies == ScriptSpec => []DoneMeansVerified
  <1>1. ScriptInv => DoneMeansVerified
    <2> SUFFICES ASSUME ScriptInv, outcome = "done" PROVE DoneMeansVerified
      BY DEF DoneMeansVerified
    <2> DEFINE first == Of(Prefixed, listed)
               second == Of(Bare, listed)
    <2>1. /\ first \in Seq(AnyId) /\ second \in Seq(AnyId) /\ listed \in Seq(AnyId)
          /\ \A k \in DOMAIN first :
                 first[k] \in Prefixed /\ \E i \in DOMAIN listed : listed[i] = first[k]
          /\ \A k \in DOMAIN second :
                 second[k] \in Bare /\ \E i \in DOMAIN listed : listed[i] = second[k]
      BY OfMembers DEF ScriptInv, ScriptTypes
    <2>2. /\ first # <<>> /\ second # <<>> /\ listed = first \o second
          /\ picked = <<Head(first), Head(second)>>
      BY DEF ScriptInv, Found, Past, Both, Pair
    <2> HIDE DEF first, second
    <2>3. /\ 1 \in DOMAIN first /\ Head(first) = first[1]
          /\ 1 \in DOMAIN second /\ Head(second) = second[1]
      BY <2>1, <2>2
    <2>4. InOrder(listed)
      <3> SUFFICES ASSUME NEW i \in DOMAIN listed, NEW j \in DOMAIN listed,
                          listed[i] \in Bare, i < j
                   PROVE  listed[j] \in Bare
        BY DEF InOrder
      <3>1. i > Len(first)
        BY <2>1, <2>2, IdsAssumption
      <3>2. j - Len(first) \in DOMAIN second /\ listed[j] = second[j - Len(first)]
        BY <2>1, <2>2, <3>1
      <3> QED
        BY <2>1, <3>2
    <2>5. picked \in Prefixed \X Bare
      BY <2>1, <2>2, <2>3
    <2>6. ToSet(picked) \subseteq ToSet(listed)
      <3>1. ToSet(picked) = {first[1], second[1]}
        BY <2>2, <2>3 DEF ToSet
      <3> QED
        BY <2>1, <2>3, <3>1 DEF ToSet
    <2>7. /\ app = "revoked" /\ "replays a claim" \notin defects
          /\ defects = {} \/ server = "crashed"
      BY DEF ScriptInv, ScriptTypes, Defects, OwnApp, Found, Past
    <2> QED
      BY <2>4, <2>5, <2>6, <2>7 DEF DoneMeansVerified
  <1> QED
    BY <1>1, ScriptInvariance, PTL

(* However it ends, the directory is gone and the server told to stop, and   *)
(* unless the user cuts the wait short the directory outlives the server    *)
(* (main, serving).                                                        *)
THEOREM NothingStays == ScriptSpec => []NothingLeftBehind
  <1>1. ScriptInv => NothingLeftBehind
    BY DEF ScriptInv, ScriptTypes, OwnServer, OwnDirectory, Alive, Tests, Ending, Prepared,
           NothingLeftBehind
  <1> QED
    BY <1>1, ScriptInvariance, PTL
=============================================================================
