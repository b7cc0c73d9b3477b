----------------------------- MODULE ConfigLoad -----------------------------
(***************************************************************************)
(* What load_config makes of a config file (config.py): the checks of one  *)
(* field at a time, the merge with the built-in providers                  *)
(* (provider_registry.py), and the checks that span providers, in their    *)
(* order, each of which ends the load with something to blame.  A Config   *)
(* may also be built without a file, from prefixes that are all given.     *)
(*                                                                         *)
(* A text is a sequence of characters; a root is a model of its own,       *)
(* judged by UrlMatching, and here only good or not.                       *)
(***************************************************************************)
EXTENDS Namespacing, FiniteSets

CONSTANTS
    Chars,          \* what a file is written with,
    PrefixAlphabet,    \* what PREFIX_PATTERN allows of it,
    KeyAlphabet,       \* and what KEY_PATTERN does
    BuiltIn,        \* KNOWN_PROVIDERS: a function from keys to roots
    ProviderLists, CustomLists, BaseUrls, GoodRoots,
    Ids,            \* account ids as providers have them
    None            \* no prefix written

Entry == [key : Seq(Chars), prefix : Seq(Chars) \cup {None}]
Custom == [key : Seq(Chars), root : STRING]

ASSUME CharsAssumption ==
    /\ KeyAlphabet \subseteq PrefixAlphabet /\ PrefixAlphabet \subseteq Chars
    /\ ":" \in PrefixAlphabet \ KeyAlphabet
    /\ None \notin Seq(Chars)
ASSUME FilesAssumption ==
    /\ ProviderLists \subseteq Seq(Entry) /\ CustomLists \subseteq Seq(Custom)
    /\ DOMAIN BuiltIn \subseteq Seq(KeyAlphabet) /\ IsFiniteSet(DOMAIN BuiltIn)
    /\ Ids \subseteq Seq(Chars)

VARIABLES
    file,    \* the file, or what stands for it: base, allow, providers, customs
    stage,   \* how far the load got
    blame,   \* what it ended with
    prefix   \* the Config: a function from providers' keys to prefixes

vars == <<file, stage, blame, prefix>>

Text(chars, t) == \A i \in DOMAIN t : t[i] \in chars
Empty == [k \in {} |-> None]

Init ==
    /\ file \in [parsed : BOOLEAN, base : BaseUrls, allow : BOOLEAN,
                 providers : ProviderLists, customs : CustomLists]
    /\ stage = IF file.parsed THEN "text" ELSE "keyed"
    /\ ~file.parsed =>
           /\ \A i \in DOMAIN file.providers : file.providers[i].prefix # None
           /\ \A i \in DOMAIN file.customs : file.customs[i].root \in GoodRoots
    /\ blame = {} /\ prefix = Empty

Goto(from, to) == stage = from /\ stage' = to /\ UNCHANGED <<file, blame>>
Reject(from, faults) ==
    /\ stage = from /\ faults # {}
    /\ stage' = "rejected"
    /\ blame' = faults
    /\ UNCHANGED <<file, prefix>>

(* The base URL's own rules; a URL is told by what they look at.           *)
BaseUrlOK(u) ==
    /\ u.ascii /\ u.host # "none" /\ ~u.userinfo
    /\ u.scheme = "https" \/ (u.scheme = "http" /\ u.host = "loopback")

(* Pydantic's pass over the fields, which collects every fault.            *)
FieldFaults(f) ==
    (IF BaseUrlOK(f.base) THEN {} ELSE {<<"base_url", 0>>}) \cup
    (IF f.providers = << >> THEN {<<"no providers", 0>>} ELSE {}) \cup
    {<<"prefix", i>> : i \in {j \in DOMAIN f.providers :
        f.providers[j].prefix # None /\ ~Text(PrefixAlphabet, f.providers[j].prefix)}} \cup
    {<<"root", i>> : i \in {j \in DOMAIN f.customs : f.customs[j].root \notin GoodRoots}}

Validate ==
    \/ Reject("text", FieldFaults(file))
    \/ FieldFaults(file) = {} /\ Goto("text", "model") /\ UNCHANGED prefix

BadKeys(f) == {i \in DOMAIN f.customs :
                f.customs[i].key = << >> \/ ~Text(KeyAlphabet, f.customs[i].key)}

(* Keys that an earlier entry of the merged list has.                      *)
TakenKeys(f) == {i \in DOMAIN f.customs :
                  \/ f.customs[i].key \in DOMAIN BuiltIn
                  \/ \E j \in 1..(i - 1) : f.customs[j].key = f.customs[i].key}

First(S) == IF S = {} THEN {} ELSE {CHOOSE i \in S : \A j \in S : i <= j}

(* merged_providers: every custom provider becomes an entry, and none may  *)
(* have another's key.                                                     *)
MergeFaults(f) ==
    IF BadKeys(f) # {} THEN {<<"custom key", i>> : i \in First(BadKeys(f))}
    ELSE {<<"taken", i>> : i \in First(TakenKeys(f))}

(* find_provider: the root of the first entry that has the key.            *)
Roots(f) ==
    [k \in {f.customs[i].key : i \in DOMAIN f.customs} \cup DOMAIN BuiltIn |->
        IF k \in DOMAIN BuiltIn THEN BuiltIn[k]
        ELSE f.customs[CHOOSE i \in DOMAIN f.customs :
                 /\ f.customs[i].key = k
                 /\ \A j \in 1..(i - 1) : f.customs[j].key # k].root]

Merge ==
    \/ Reject("model", MergeFaults(file))
    \/ MergeFaults(file) = {} /\ Goto("model", "merged") /\ UNCHANGED prefix

(* _check_provider_keys: the first key that has no entry or came before.   *)
WrongKeys(f) == {i \in DOMAIN f.providers :
                 \/ f.providers[i].key \notin DOMAIN Roots(f)
                 \/ \E j \in 1..(i - 1) : f.providers[j].key = f.providers[i].key}
KeyFaults(f) ==
    {<<IF f.providers[i].key \in DOMAIN Roots(f) THEN "twice" ELSE "unknown", i>> :
        i \in First(WrongKeys(f))}

(* Mutant: keys are left to the checks of the Config.                      *)
CheckKeysLater == Goto("merged", "keyed") /\ UNCHANGED prefix

CheckKeys ==
    \/ Reject("merged", KeyFaults(file))
    \/ KeyFaults(file) = {} /\ Goto("merged", "keyed") /\ UNCHANGED prefix

(* Mutant: the default prefix is the key alone.                            *)
ResolvedAsKey(entry) == IF entry.prefix = None THEN entry.key ELSE entry.prefix

Resolved(entry) == IF entry.prefix = None THEN Append(entry.key, ":") ELSE entry.prefix

(* Every Provider checks its prefix, the one it was given or the default.  *)
ProviderFaults(f) ==
    {<<"prefix", i>> : i \in First({j \in DOMAIN f.providers :
                                        ~Text(PrefixAlphabet, Resolved(f.providers[j]))})}

Build ==
    \/ Reject("keyed", ProviderFaults(file))
    \/ /\ ProviderFaults(file) = {}
       /\ Goto("keyed", "built")
       /\ prefix' = [k \in {file.providers[i].key : i \in DOMAIN file.providers} |->
                         Resolved(file.providers[CHOOSE i \in DOMAIN file.providers :
                                                     file.providers[i].key = k])]

Overlaps(pre) == {o \in Named(pre) \X Named(pre) : o[1] # o[2] /\ IsPrefix(pre[o[1]], pre[o[2]])}
Blanks(pre) == {<<"blanks", k>> : k \in Blank(pre)}

(* Mutant: each prefix is compared with the next one only.                 *)
PrefixFaultsOfNeighbours(f, pre) ==
    IF Cardinality(Blank(pre)) > 1 /\ ~f.allow THEN Blanks(pre)
    ELSE {<<"overlap", o>> : o \in {<<f.providers[i].key, f.providers[i + 1].key>> :
                                         i \in 1..(Len(f.providers) - 1)} \cap Overlaps(pre)}

(* _check_provider_prefixes.  Of several pairs that overlap the code names *)
(* the first, which the model leaves open.                                 *)
PrefixFaults(f, pre) ==
    IF Cardinality(Blank(pre)) > 1 /\ ~f.allow THEN Blanks(pre)
    ELSE {<<"overlap", o>> : o \in Overlaps(pre)}

(* Config.__post_init__: the merge and the keys again, then the prefixes.  *)
SpanningFaults ==
    IF MergeFaults(file) # {} THEN MergeFaults(file)
    ELSE IF KeyFaults(file) # {} THEN KeyFaults(file)
    ELSE PrefixFaults(file, prefix)

PostInit ==
    \/ \E f \in SpanningFaults : Reject("built", {f})
    \/ SpanningFaults = {} /\ Goto("built", "config") /\ UNCHANGED prefix

Next == Validate \/ Merge \/ CheckKeys \/ Build \/ PostInit
Spec == Init /\ [][Next]_vars

-----------------------------------------------------------------------------
(* What a file has to be, told without an order of checks (config.py and   *)
(* the configuration part of the README).                                  *)
Sound(f) ==
    LET ps == f.providers
        cs == f.customs
        keys == {cs[i].key : i \in DOMAIN cs} \cup DOMAIN BuiltIn
        used == [i \in DOMAIN ps |->
                     IF ps[i].prefix = None THEN Append(ps[i].key, ":") ELSE ps[i].prefix]
    IN  /\ f.parsed => BaseUrlOK(f.base) /\ ps # << >>
        /\ \A i \in DOMAIN cs : cs[i].key \in Seq(KeyAlphabet) \ {<< >>} /\ cs[i].root \in GoodRoots
        /\ Cardinality(keys) = Len(cs) + Cardinality(DOMAIN BuiltIn)
        /\ \A i \in DOMAIN ps : ps[i].key \in keys /\ used[i] \in Seq(PrefixAlphabet)
        /\ \A i, j \in DOMAIN ps : i # j =>
               /\ ps[i].key # ps[j].key
               /\ IsPrefix(used[i], used[j]) => used[i] = << >> /\ (used[j] # << >> \/ f.allow)

(* A file is rejected for what is wrong with it: a prefix nobody wrote is  *)
(* never at fault, neither for its form ("a bad key derives a bad prefix", *)
(* _resolve) nor for overlapping another such ("prefix-free by             *)
(* construction", ARCHITECTURE.md), and a key is unknown only if nothing   *)
(* defines it.                                                             *)
BlameIsDeserved ==
    \A f \in blame :
        /\ f[1] = "prefix" => file.providers[f[2]].prefix # None
        /\ f[1] = "overlap" =>
               \E i \in DOMAIN file.providers :
                   file.providers[i].prefix # None /\ file.providers[i].key \in {f[2][1], f[2][2]}
        /\ f[1] = "unknown" =>
               /\ file.providers[f[2]].key \notin DOMAIN BuiltIn
               /\ \A i \in DOMAIN file.customs : file.customs[i].key # file.providers[f[2]].key

(* Under any Config the id a named provider's account is shown under leads *)
(* back to that provider alone, with its own id (merge.py,                 *)
(* provider_resolution.py), whichever prefixes were written and which      *)
(* derived.                                                                *)
EveryIdFindsItsProvider ==
    stage = "config" =>
        \A p \in Named(prefix), x \in Ids :
            /\ Owners(prefix, Exposed(prefix, p, x)) = {p}
            /\ Local(prefix, p, Exposed(prefix, p, x)) = x

(* Exactly the files that should be are accepted, whatever the order the   *)
(* checks come in and the entries are written in.                          *)
AcceptedIfSound ==
    /\ stage = "config" => Sound(file)
    /\ stage = "rejected" => ~Sound(file)
=============================================================================
