---------------------------- MODULE Namespacing ----------------------------
(***************************************************************************)
(* Account ids behind per-provider prefixes: which prefixes a Config       *)
(* admits (config.py), what merge exposes an id as (merge.py), and which   *)
(* providers an id asked for belongs to (provider_resolution.py).          *)
(*                                                                         *)
(* A text is a sequence of characters; prefix maps each configured         *)
(* provider's key to its prefix, the blank one being << >>.                *)
(***************************************************************************)
EXTENDS Naturals, SequencesExt

Blank(prefix) == {p \in DOMAIN prefix : prefix[p] = << >>}
Named(prefix) == DOMAIN prefix \ Blank(prefix)

(* Mutant: two named prefixes only have to differ. *)
PrefixesDiffer(prefix, allowBlanks) ==
    /\ allowBlanks \/ \A p, q \in Blank(prefix) : p = q
    /\ \A p, q \in Named(prefix) : p # q => prefix[p] # prefix[q]

(* _check_provider_prefixes: one blank prefix unless several are allowed,  *)
(* and no named prefix the start of another.                               *)
PrefixesOK(prefix, allowBlanks) ==
    /\ allowBlanks \/ \A p, q \in Blank(prefix) : p = q
    /\ \A p, q \in Named(prefix) : p # q => ~IsPrefix(prefix[p], prefix[q])

(* The id the client app sees for a provider's own. *)
Exposed(prefix, p, id) == prefix[p] \o id

Carried(prefix, id) == {p \in DOMAIN prefix : IsPrefix(prefix[p], id)}

(* Mutant: every prefix the id carries counts, not only the longest. *)
OwnersOfAnyPrefix(prefix, id) == Carried(prefix, id)

(* resolve_providers_for_account: all those tied for the longest prefix,   *)
Owners(prefix, id) ==
    {p \in Carried(prefix, id) :
        \A q \in Carried(prefix, id) : Len(prefix[q]) <= Len(prefix[p])}

(* with the id as that provider knows it.                                  *)
Local(prefix, p, id) == SubSeq(id, Len(prefix[p]) + 1, Len(id))

(* _route_requests: every provider, with no filter, if no id is named;     *)
(* else each provider that owns one, with its own ids.                     *)
Owned(prefix, p, ids) == {x \in ids : p \in Owners(prefix, x)}

(* Mutant: ids that belong to nobody are dropped before the test for none. *)
RoutedToAll(prefix, ids) ==
    IF \A p \in DOMAIN prefix : Owned(prefix, p, ids) = {}
    THEN [p \in DOMAIN prefix |-> {}]
    ELSE [p \in {q \in DOMAIN prefix : Owned(prefix, q, ids) # {}} |->
             {Local(prefix, p, x) : x \in Owned(prefix, p, ids)}]

Routed(prefix, ids) ==
    IF ids = {}
    THEN [p \in DOMAIN prefix |-> {}]
    ELSE [p \in {q \in DOMAIN prefix : Owned(prefix, q, ids) # {}} |->
             {Local(prefix, p, x) : x \in Owned(prefix, p, ids)}]
=============================================================================
