------------------------------ MODULE Accounts ------------------------------
(***************************************************************************)
(* GET /simplefin/accounts once the client app is admitted: the request is *)
(* routed to the providers that own the ids it names (app.py), asked of    *)
(* them all at once (transport.py), and their answers, which come in any   *)
(* order or not at all, are merged into one (merge.py).                    *)
(***************************************************************************)
EXTENDS Namespacing, FiniteSets

CONSTANTS
    Keys,         \* provider keys
    Order,        \* the providers in the order the config lists them
    PrefixPool,     \* the prefixes a config may choose from
    Held,         \* the ids of each provider's own accounts
    Strange,      \* ids no provider issued
    Requests,     \* accounts requests
    MaxAsked,     \* bound on the ids one request names
    CleanText,    \* whether all a provider sends can be written as UTF-8
    MayRepeat,    \* whether a provider may send an account twice
    ErrorFields   \* what may stand in a provider's errors field

ASSUME OrderAssumption ==
    Order \in Seq(Keys) /\ IsInjective(Order) /\ Range(Order) = Keys
ASSUME TextAssumption ==
    /\ PrefixPool \union Strange \subseteq Seq(STRING)
    /\ Held \in [Keys -> SUBSET Seq(STRING)]
    /\ \A p \in Keys : IsFiniteSet(Held[p])
ASSUME MaxAskedAssumption == MaxAsked \in Nat
ASSUME CleanTextAssumption == CleanText \in BOOLEAN /\ MayRepeat \in BOOLEAN
ASSUME ErrorFieldsAssumption == ErrorFields \subseteq {"none", "strings", "garbage"}

VARIABLES
    prefix,   \* each provider's prefix, from the config
    blanks,   \* allow_multiple_blank_prefixes, from the config
    phase,    \* where each request is
    asked,    \* the ids it names; none for all accounts
    plan,     \* per provider it goes to, the provider's own ids it asks for
    replies,  \* the providers' answers, in the order they came
    answer,   \* the merged accounts, each with the provider it came from
    errors,   \* the providers whose own errors it relays, in its order
    logged    \* the ids more than one account claims, with their providers

merged == <<answer, errors, logged>>
vars == <<prefix, blanks, phase, asked, plan, replies, merged>>
config == <<prefix, blanks>>

ExposedIds == UNION {{Exposed(prefix, p, id) : id \in Held[p]} : p \in Keys}

(* A config that does not pass the check never becomes a server. *)
Init ==
    /\ blanks \in BOOLEAN
    /\ prefix \in [Keys -> PrefixPool]
    /\ PrefixesOK(prefix, blanks)
    /\ phase = [r \in Requests |-> "idle"]
    /\ asked = [r \in Requests |-> {}]
    /\ plan = [r \in Requests |-> << >>]
    /\ replies = [r \in Requests |-> << >>]
    /\ answer = [r \in Requests |-> << >>]
    /\ errors = [r \in Requests |-> << >>]
    /\ logged = [r \in Requests |-> {}]

(* A request that is let in is routed at once. *)
Arrive(r) ==
    /\ phase[r] = "idle"
    /\ \E ids \in SUBSET (ExposedIds \union Strange) :
          /\ Cardinality(ids) <= MaxAsked
          /\ asked' = [asked EXCEPT ![r] = ids]
          /\ plan' = [plan EXCEPT ![r] = Routed(prefix, ids)]
    /\ phase' = [phase EXCEPT ![r] = "fetching"]
    /\ UNCHANGED <<config, replies, merged>>

(* What a provider may answer: its accounts that were asked for, in any    *)
(* order, one of them perhaps twice, in a text that can be written out     *)
(* again or not; or nothing this server can use, be it a timeout, a        *)
(* redirect, a status or a bad body.  Either may hold an errors array of   *)
(* strings, or something else in its place, or none.                       *)
Wanted(p, ids) == IF ids = {} THEN Held[p] ELSE Held[p] \intersect ids
Bodies(p, ids) ==
    LET sent == SetToSeqs(Wanted(p, ids)) \union
                    {<<id, id>> : id \in {x \in Wanted(p, ids) : MayRepeat}}
    IN [usable : {TRUE}, accounts : sent, clean : {TRUE, CleanText}, errors : ErrorFields]
        \union [usable : {FALSE}, accounts : {<< >>}, clean : {TRUE}, errors : ErrorFields]

Answered(came) == {came[i].from : i \in DOMAIN came}

(* One provider's fetch ends, in any order of the providers. *)
Fetch(r, p) ==
    /\ phase[r] = "fetching"
    /\ p \in DOMAIN plan[r] \ Answered(replies[r])
    /\ \E b \in Bodies(p, plan[r][p]) :
          replies' = [replies EXCEPT ![r] = Append(@, [from |-> p, body |-> b])]
    /\ UNCHANGED <<config, phase, asked, plan, merged>>

(* Mutant: the providers come in the order of their keys. *)
PlannedByKey(asks) == SetToSeq(DOMAIN asks)

(* The providers of a plan in the order of the config (_route_requests).   *)
Planned(asks) ==
    FlattenSeq([n \in DOMAIN Order |->
                   IF Order[n] \in DOMAIN asks THEN <<Order[n]>> ELSE << >>])

(* Mutant: the n-th answer is taken for the n-th request's. *)
ResultsAsAnswered(asks, came) == came

(* fetch_all keeps the order of the requests, not that of the answers. *)
Results(asks, came) ==
    LET planned == Planned(asks)
    IN [n \in DOMAIN planned |-> CHOOSE b \in Range(came) : b.from = planned[n]]

(* _accounts_and_errors, with the prefix of the provider that was asked, *)
Contribution(prefixes, p, result) ==
    IF result.body.usable
    THEN [i \in DOMAIN result.body.accounts |->
             [id |-> Exposed(prefixes, p, result.body.accounts[i]), from |-> result.from,
              own |-> result.body.accounts[i]]]
    ELSE << >>

(* and _error_strings: the errors of a usable answer, if they are strings. *)
Reported(result) ==
    IF result.body.usable /\ result.body.errors = "strings" THEN <<result.from>> ELSE << >>

(* What merge makes of the answers that came, provider by provider. *)
MergedAccounts(prefixes, asks, came) ==
    LET planned == Planned(asks)
        results == Results(asks, came)
    IN FlattenSeq([n \in DOMAIN planned |-> Contribution(prefixes, planned[n], results[n])])

MergedErrors(asks, came) ==
    LET results == Results(asks, came)
    IN FlattenSeq([n \in DOMAIN results |-> Reported(results[n])])

(* _log_id_collisions: the ids that come more than once, and from whom.    *)
Collisions(accounts) ==
    {[id |-> accounts[i].id,
      from |-> {a.from : a \in {b \in Range(accounts) : b.id = accounts[i].id}}] :
        i \in {j \in DOMAIN accounts :
                  \E k \in 1..(j - 1) : accounts[k].id = accounts[j].id}}

AllIn(asks, came) == Answered(came) = DOMAIN asks
Encodes(came) == \A i \in DOMAIN came : came[i].body.clean \/ ~came[i].body.usable

(* The collisions are logged before the answer is encoded. *)
Respond(r) ==
    /\ phase[r] = "fetching"
    /\ AllIn(plan[r], replies[r])
    /\ LET accounts == MergedAccounts(prefix, plan[r], replies[r])
       IN /\ logged' = [logged EXCEPT ![r] = Collisions(accounts)]
          /\ \/ /\ Encodes(replies[r])
                /\ answer' = [answer EXCEPT ![r] = accounts]
                /\ errors' = [errors EXCEPT ![r] = MergedErrors(plan[r], replies[r])]
                /\ phase' = [phase EXCEPT ![r] = "ok"]
             \/ /\ ~Encodes(replies[r])
                /\ phase' = [phase EXCEPT ![r] = "error"]
                /\ UNCHANGED <<answer, errors>>
    /\ UNCHANGED <<config, asked, plan, replies>>

Next ==
    \E r \in Requests :
        \/ Arrive(r)
        \/ \E p \in Keys : Fetch(r, p)
        \/ Respond(r)

Spec == Init /\ [][Next]_vars

-----------------------------------------------------------------------------
TypeOK ==
    /\ prefix \in [Keys -> PrefixPool]
    /\ blanks \in BOOLEAN
    /\ phase \in [Requests -> {"idle", "fetching", "ok", "error"}]
    /\ \A r \in Requests :
          /\ asked[r] \subseteq ExposedIds \union Strange
          /\ DOMAIN plan[r] \subseteq Keys
          /\ \A i \in DOMAIN replies[r] : replies[r][i].from \in DOMAIN plan[r]
          /\ \A i \in DOMAIN answer[r] : answer[r][i].from \in Keys

(* No provider hears another's account ids, unless that other's prefix is  *)
(* blank and so could be mistaken: what a provider is asked about was      *)
(* exposed by itself, by nobody, or by a provider with a blank prefix.     *)
NoNamedIdLeaks ==
    \A r \in Requests : \A p \in DOMAIN plan[r] : \A id \in plan[r][p] :
        LET x == Exposed(prefix, p, id)
        IN /\ x \in asked[r]
           /\ \A q \in Named(prefix) :
                 x \in {Exposed(prefix, q, own) : own \in Held[q]} => p = q

(* Asking for an account the client app was shown asks the provider it     *)
(* came from, for the id it has there; a blank prefix gives this up for an *)
(* id that starts with a named one.                                        *)
ShownIdsRouteBack ==
    \A r \in Requests : \A i \in DOMAIN answer[r] :
        LET shown == answer[r][i]
        IN \/ /\ shown.from \in Owners(prefix, shown.id)
              /\ Local(prefix, shown.from, shown.id) = shown.own
           \/ /\ shown.from \in Blank(prefix)
              /\ \E q \in Named(prefix) : IsPrefix(prefix[q], shown.id)

(* A provider's failure costs its own accounts and errors only: whatever   *)
(* the order of the answers and whoever failed, the accounts of each       *)
(* usable answer are shown once, together and as they came, under the      *)
(* prefix of the provider that sent them, and its errors are relayed once, *)
(* unless they are no strings, which costs nobody an account (merge.py).   *)
FailureIsContained ==
    \A r \in Requests : phase[r] = "ok" =>
        /\ \A i \in DOMAIN replies[r] :
              LET p == replies[r][i].from
                  sent == replies[r][i].body.accounts
              IN \E k \in 0..Len(answer[r]) :
                    /\ {j \in DOMAIN answer[r] : answer[r][j].from = p} = (k + 1)..(k + Len(sent))
                    /\ \A j \in DOMAIN sent :
                          answer[r][k + j].id = Exposed(prefix, p, sent[j])
        /\ IsInjective(errors[r])
        /\ Range(errors[r]) =
              {b.from : b \in {a \in Range(replies[r]) :
                                   a.body.usable /\ a.body.errors = "strings"}}

(* A collision is the operator's to mend by a prefix (merge.py): an id     *)
(* that came from several providers came from one with a blank prefix,     *)
(* and from one with a name at most.                                       *)
OnlyBlanksCollide ==
    \A r \in Requests : \A c \in logged[r] :
        \A p, q \in c.from : p \in Blank(prefix) \/ q \in Blank(prefix) \/ p = q

(* The same accounts and errors come in the same order whoever answered    *)
(* first: that of the config (fetch_all, merge).                           *)
InOrder(providers) ==
    \A i, j \in DOMAIN providers : i < j =>
        \E m, n \in DOMAIN Order :
            m <= n /\ Order[m] = providers[i] /\ Order[n] = providers[j]

ConfiguredOrder ==
    \A r \in Requests :
        InOrder([i \in DOMAIN answer[r] |-> answer[r][i].from]) /\ InOrder(errors[r])

(* A request that names ids is shown those and no others, also when none   *)
(* of them belongs to anybody.                                             *)
OnlyAskedIsShown ==
    \A r \in Requests : \A i \in DOMAIN answer[r] :
        asked[r] = {} \/ answer[r][i].id \in asked[r]

(* An admitted request is answered 200 whatever a provider sends (README). *)
AlwaysAnswers200 == \A r \in Requests : phase[r] # "error"
=============================================================================
