---------------------------- MODULE UrlMatching ----------------------------
(***************************************************************************)
(* Which URLs belong to a provider (url_validation.py): a claim URL before *)
(* it is posted to, the access URL a provider answers with before it is    *)
(* stored and probed, and the stored one again when serve starts, under    *)
(* whatever root the config has by then.                                   *)
(*                                                                         *)
(* A character is <<c, n>>: c percent-encoded n times over.  httpx2 also   *)
(* resolves a plain dot segment; no URL that has one gets past HasDot of   *)
(* the path as written, so the model leaves it where it is.                *)
(***************************************************************************)
EXTENDS Naturals, SequencesExt

CONSTANTS
    Symbols,    \* what texts are made of: characters, and parts of an origin
    RootUrls,   \* provider roots a config may name, accepted or not
    GivenUrls   \* URLs from a setup token or a provider

Char == Symbols \X Nat
RawUrl ==
    [scheme : Char \ {<<"/", 0>>}, host : Seq(Char), path : Seq(Char),
     creds : BOOLEAN, query : BOOLEAN,
     port : {"none", "default", "other", "out of range"}]

ASSUME SymbolsAssumption == {"/", ".", " ", "bank", ":8443", "accounts"} \subseteq Symbols
ASSUME UrlAssumption == RootUrls \subseteq RawUrl /\ GivenUrls \subseteq RawUrl
\* The slash that ends a URL's authority is the first there is (urlsplit).
ASSUME AuthorityAssumption ==
    \A raw \in GivenUrls :
        \A i \in DOMAIN raw.host : raw.host[i] # <<"/", 0>>

VARIABLES
    root,   \* the provider's root, as the config has it
    url,    \* the URL to judge, as it came
    kind,   \* what it is used as: "claim" or "access"
    stage,  \* how far it got
    sent    \* the URL last put on the wire, << >> if none

vars == <<root, url, kind, stage, sent>>

Slash == <<"/", 0>>
Dot == <<".", 0>>
Space == <<" ", 0>>

(* A text percent-decoded n times.                                         *)
Less(c, n) == <<c[1], IF c[2] < n THEN 0 ELSE c[2] - n>>
View(n, text) == [i \in DOMAIN text |-> Less(text[i], n)]

(* httpx2's rendering: what may not stand in a path is encoded; an empty    *)
(* path stays empty.                                                       *)
Normal(path) == [i \in DOMAIN path |-> IF path[i] = Space THEN <<" ", 1>> ELSE path[i]]

Lower(c) == IF c[1] = "BANK" THEN <<"bank", c[2]>> ELSE c

(* NormalizedUrl.origin and .origin_and_path.                              *)
Origin(raw) ==
    <<raw.scheme>> \o [i \in DOMAIN raw.host |-> Lower(raw.host[i])] \o
    (IF raw.port = "other" THEN <<<<":8443", 0>>>> ELSE << >>)
Text(raw) == Origin(raw) \o Normal(raw.path)

(* _has_dot_segment: a segment that unquotes to "." or "..".              *)
HasDotSegment(path) ==
    \E i \in DOMAIN path : \E j \in {i, i + 1} \cap DOMAIN path :
        /\ \A k \in i..j : Less(path[k], 1) = Dot
        /\ i = 1 \/ path[i - 1] = Slash
        /\ j = Len(path) \/ path[j + 1] = Slash

(* Mutant: only the path as written is searched for dot segments.          *)
ParsableAsWritten(raw) ==
    /\ raw.host # << >> /\ raw.port # "out of range" /\ ~raw.query
    /\ ~HasDotSegment(raw.path)

(* What parse_url does not raise on.                                       *)
Parsable(raw) ==
    /\ raw.host # << >> /\ raw.port # "out of range" /\ ~raw.query
    /\ ~HasDotSegment(raw.path)
    /\ ~HasDotSegment(View(1, Normal(raw.path)))

Loopback(host) == host = <<<<"127.0.0.1", 0>>>>

(* Mutant: any name for this machine will do for http.                     *)
RootOKByName(raw) ==
    /\ Parsable(raw) /\ ~raw.creds
    /\ \/ raw.scheme[1] = "https://"
       \/ raw.scheme[1] = "http://" /\ raw.host \in {<<<<"127.0.0.1", 0>>>>, <<<<"localhost", 0>>>>}

(* parse_root: what it does not raise on,                                  *)
RootOK(raw) ==
    /\ Parsable(raw) /\ ~raw.creds
    /\ \/ raw.scheme[1] = "https://"
       \/ raw.scheme[1] = "http://" /\ Loopback(raw.host)

(* Mutant: the root is compared as it stands.                              *)
RootTextAsIs(raw) == Text(raw)

(* and the text it gives matching, which ends in a slash.                  *)
RootText(raw) ==
    IF Last(Text(raw)) = Slash THEN Text(raw) ELSE Append(Text(raw), Slash)

(* Mutant: the candidate is compared without a slash of its own.           *)
MatchesAsIs(r, raw) == IsPrefix(RootText(r), Text(raw))

(* _check_matches_root.                                                    *)
Matches(r, raw) == IsPrefix(RootText(r), Append(Text(raw), Slash))

(* validate_claim_url and validate_access_url.                             *)
Valid(r, raw, k) ==
    /\ Parsable(raw)
    /\ raw.creds = (k = "access")
    /\ Matches(r, raw)

(* A provider's client puts "accounts" under its base URL.                 *)
AccountsUrl(raw) ==
    LET base == Text(raw) IN
    (IF Last(base) = Slash THEN base ELSE Append(base, Slash)) \o <<<<"accounts", 0>>>>

Init ==
    /\ root \in {r \in RootUrls : RootOK(r)}
    /\ url \in GivenUrls
    /\ kind \in {"claim", "access"}
    /\ stage = "given"
    /\ sent = << >>

(* claim posts to the setup token's URL.                                   *)
PostClaim ==
    /\ stage = "given" /\ kind = "claim" /\ Valid(root, url, kind)
    /\ stage' = "posted"
    /\ sent' = Text(url)
    /\ UNCHANGED <<root, url, kind>>

(* claim stores the access URL it was answered with and probes it.         *)
StoreAndProbe ==
    /\ stage = "given" /\ kind = "access" /\ Valid(root, url, kind)
    /\ stage' = "stored"
    /\ sent' = AccountsUrl(url)
    /\ UNCHANGED <<root, url, kind>>

Refuse ==
    /\ stage \in {"given", "configured"} /\ ~Valid(root, url, kind)
    /\ stage' = "refused"
    /\ UNCHANGED <<root, url, kind, sent>>

(* The config is edited between the claim and the start of serve, which    *)
(* goes on only with one it accepts.                                       *)
Configure ==
    /\ stage = "stored"
    /\ root' \in {r \in RootUrls : RootOK(r)}
    /\ stage' = "configured"
    /\ sent' = << >>
    /\ UNCHANGED <<url, kind>>

(* serve accepts the stored URL, and asks the provider for accounts.       *)
Serve ==
    /\ stage = "configured" /\ Valid(root, url, kind)
    /\ stage' = "serving"
    /\ sent' = AccountsUrl(url)
    /\ UNCHANGED <<root, url, kind>>

Next == PostClaim \/ StoreAndProbe \/ Refuse \/ Configure \/ Serve
Spec == Init /\ [][Next]_vars

-----------------------------------------------------------------------------
(* A text cut at its slashes; the first piece of a URL is its origin.      *)
Cut(cut, c) ==
    IF c = Slash THEN Append(cut, << >>)
    ELSE [cut EXCEPT ![Len(cut)] = Append(@, c)]
Segments(text) ==
    LET upTo[n \in 0..Len(text)] == IF n = 0 THEN <<<< >>>> ELSE Cut(upTo[n - 1], text[n])
    IN  upTo[Len(text)]

(* Where a server that resolves dot segments ends up.                      *)
Enter(at, s) ==
    IF s = <<Dot>> THEN at
    ELSE IF s = <<Dot, Dot>> THEN IF Len(at) > 1 THEN Front(at) ELSE at
    ELSE Append(at, s)
Resolved(text) ==
    LET cut == Segments(text)
        after[n \in 0..Len(cut)] == IF n = 0 THEN << >> ELSE Enter(after[n - 1], cut[n])
    IN  after[Len(cut)]

(* A URL of the provider, told segment by segment: nothing in its path     *)
(* moves about, whether a server decodes it or not, and it goes on from    *)
(* the root's last segment.                                                *)
Belongs(r, raw, k) ==
    /\ raw.host # << >> /\ raw.port # "out of range" /\ ~raw.query
    /\ raw.creds <=> k = "access"
    /\ \A n \in {0, 1} : LET cut == Segments(View(n, raw.path)) IN
           \A i \in DOMAIN cut : View(1, cut[i]) \notin {<<Dot>>, <<Dot, Dot>>}
    /\ IsPrefix(Front(Segments(RootText(r))), Segments(Text(raw)))

(* The variables have their types: what is sent is a text that starts at a *)
(* scheme and has a host (url_validation.py, NormalizedUrl).               *)
TypeOK ==
    /\ RootOK(root) /\ kind \in {"claim", "access"}
    /\ stage \in {"given", "posted", "stored", "configured", "serving", "refused"}
    /\ sent = << >> \/ (Len(sent) >= 2 /\ sent[1] = root.scheme)

(* A root that ends in two slashes: see FetchedStartsWithRoot.             *)
DoubleSlash(r) == RootText(r)[Len(RootText(r)) - 1] = Slash

(* No request with a setup token or with credentials leaves the provider's *)
(* root, even if the server decodes the path and resolves it.              *)
SentUnderRoot ==
    sent # << >> /\ ~DoubleSlash(root) =>
        \A n \in {0, 1} :
            IsPrefix(Front(Resolved(View(n, RootText(root)))), Resolved(View(n, sent)))

(* The root ends where a segment of what is sent ends, decoded or not: a   *)
(* "/simplefin" root does not cover "/simplefin-evil".                     *)
SentOnBoundary ==
    sent # << >> /\ ~DoubleSlash(root) =>
        \A n \in {0, 1} :
            LET r == View(n, RootText(root))
                t == View(n, sent)
            IN  /\ Len(t) >= Len(r) - 1
                /\ \A i \in 1..(Len(r) - 1) : t[i] = r[i]
                /\ Len(t) >= Len(r) => t[Len(r)] = Slash

(* What goes out goes over https, or stays on this machine at an address   *)
(* that no resolver can move (parse_root and the match on the origin).     *)
SentInPrivate ==
    sent # << >> =>
        \/ sent[1][1] = "https://"
        \/ sent[1][1] = "http://" /\ sent[2][1] = "127.0.0.1"

(* "The string compared is the string fetched" (url_validation.py, rule 2),*)
(* so what is fetched starts with the root.                                *)
FetchedStartsWithRoot ==
    stage \in {"stored", "serving"} => IsPrefix(RootText(root), sent)

(* A URL is refused for a cause only, and every cause refuses it.          *)
RefusedForCause ==
    /\ stage = "refused" => ~Belongs(root, url, kind)
    /\ stage \in {"posted", "serving"} => Belongs(root, url, kind)
=============================================================================
