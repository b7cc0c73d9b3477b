----------------------------- MODULE ClientUrls -----------------------------
(***************************************************************************)
(* The two URLs a client app is given: the claim URL in a setup token      *)
(* (setup_token.py) and the access URL it is exchanged for                 *)
(* (access_url.py), from a base_url the config accepts (config.py), to a   *)
(* client that takes them apart again and a proxy at base_url that passes  *)
(* on what comes after it.                                                 *)
(*                                                                         *)
(* A URL is a sequence of characters <<c, n>>, c percent-encoded n times   *)
(* over.  A scheme, a host and a word of a path count as one character.    *)
(***************************************************************************)
EXTENDS Naturals, SequencesExt

CONSTANTS
    Symbols,       \* what texts are made of
    Unreserved,    \* those that quote leaves alone
    Bases,         \* base_urls in a config file, sound or not
    ClaimSecrets,  \* what a setup token can hold
    Credentials    \* what a user name or a password can be

Char == Symbols \X Nat
Base == [scheme : Char, user : BOOLEAN, host : Seq(Char), path : Seq(Char),
         query : BOOLEAN]

ASSUME SymbolsAssumption ==
    /\ {"/", ":", "@", "%", "simplefin", "claim", "accounts"} \subseteq Symbols
    /\ Unreserved \subseteq Symbols \ {"/", ":", "@", "%"}
(* urlsplit ends the host where a path begins, and begins it after an "@".  *)
ASSUME BasesAssumption ==
    /\ Bases \subseteq Base
    /\ \A b \in Bases :
           /\ \A i \in DOMAIN b.host : b.host[i] \notin {<<"/", 0>>, <<"@", 0>>}
           /\ b.path # <<>> => b.path[1] = <<"/", 0>>
(* token_urlsafe has only characters that quote leaves alone.              *)
ASSUME SecretsAssumption == ClaimSecrets \subseteq Seq(Unreserved \X {0}) \ {<<>>}
ASSUME CredentialsAssumption == Credentials \subseteq Seq(Char) \ {<<>>}

VARIABLES
    base,      \* base_url
    secret,    \* the secret the setup token was made of
    username,  \* the credentials the claim was answered with,
    password,
    url,       \* the URL the client app holds
    stage,     \* how far it is: "none", "token" or "access"
    asked      \* the last request the server got: its path and credentials

clientVars == <<base, secret, username, password, url, stage, asked>>

C(c) == <<c, 0>>
Slash == C("/")
Https == C("https://")
Http == C("http://")
Loopback(host) == host \in {<<C("127.0.0.1")>>, <<C("[::1]")>>}

(* _validate_base_url.  One host stands for all that are not ASCII.         *)
BaseOK(b) ==
    /\ b.host # <<C("idn")>>
    /\ b.scheme \in {Https, Http}
    /\ b.host # <<>>
    /\ ~b.user
    /\ b.scheme = Http => Loopback(b.host)

(* str.rstrip("/").                                                        *)
Stripped(path) ==
    LET kept == {i \in DOMAIN path : path[i] # Slash}
    IN  SubSeq(path, 1, IF kept = {} THEN 0 ELSE CHOOSE i \in kept : \A j \in kept : j <= i)

(* urllib.parse.quote.  Mutant: with its default, which leaves a "/" alone. *)
QuoteButSlash(text) ==
    [i \in DOMAIN text |->
        IF text[i][2] = 0 /\ text[i][1] \in Unreserved \union {"/"}
        THEN text[i] ELSE <<text[i][1], text[i][2] + 1>>]
Quote(text) ==
    [i \in DOMAIN text |->
        IF text[i][2] = 0 /\ text[i][1] \in Unreserved
        THEN text[i] ELSE <<text[i][1], text[i][2] + 1>>]
Unquote(text) ==
    [i \in DOMAIN text |-> <<text[i][1], IF text[i][2] = 0 THEN 0 ELSE text[i][2] - 1>>]

(* build_setup_token, before the base64, and build_access_url; urlunsplit.   *)
(* A query in base_url is dropped.                                         *)
Unsplit(scheme, netloc, path) == <<scheme>> \o (netloc \o path)
ClaimPrefix == <<Slash, C("simplefin"), Slash, C("claim"), Slash>>
(* Mutant: the path stays as it is.                                        *)
ClaimUrlUnstripped(b, s) == Unsplit(b.scheme, b.host, b.path \o (ClaimPrefix \o s))
ClaimUrl(b, s) == Unsplit(b.scheme, b.host, Stripped(b.path) \o (ClaimPrefix \o s))

UserPart(user, pass) == Quote(user) \o (<<C(":")>> \o Quote(pass))
AccessUrl(b, user, pass) ==
    Unsplit(b.scheme, (UserPart(user, pass) \o <<C("@")>>) \o b.host,
            Stripped(b.path) \o <<Slash, C("simplefin")>>)

(***************************************************************************)
(* How a client app takes a URL apart (urlsplit), and what of its path     *)
(* reaches the server.                                                     *)
(***************************************************************************)
First(c, text) ==
    LET at == {i \in DOMAIN text : text[i] = c}
    IN  IF at = {} THEN Len(text) + 1 ELSE CHOOSE i \in at : \A j \in at : i <= j
LastAt(text) ==
    LET at == {i \in DOMAIN text : text[i] = C("@")}
    IN  IF at = {} THEN 0 ELSE CHOOSE i \in at : \A j \in at : j <= i

Authority(u) == SubSeq(Tail(u), 1, First(Slash, Tail(u)) - 1)
Path(u) == SubSeq(Tail(u), First(Slash, Tail(u)), Len(u) - 1)
UserInfo(u) == SubSeq(Authority(u), 1, LastAt(Authority(u)) - 1)
Host(u) == SubSeq(Authority(u), LastAt(Authority(u)) + 1, Len(Authority(u)))
User(u) == Unquote(SubSeq(UserInfo(u), 1, First(C(":"), UserInfo(u)) - 1))
Password(u) ==
    Unquote(SubSeq(UserInfo(u), First(C(":"), UserInfo(u)) + 1, Len(UserInfo(u))))

(* The proxy answers at base_url, however many slashes that ends in, and    *)
(* knows nothing outside it.                                               *)
Passed(path) ==
    LET place == Stripped(base.path)
    IN  IF IsPrefix(place, path) THEN SubSeq(path, Len(place) + 1, Len(path)) ELSE <<>>

Nothing == [to |-> <<>>, user |-> <<>>, password |-> <<>>]

ClientInit ==
    /\ base \in {b \in Bases : BaseOK(b)}
    /\ secret \in ClaimSecrets
    /\ username = <<>> /\ password = <<>> /\ url = <<>>
    /\ stage = "none"
    /\ asked = Nothing

(* app new or app regen prints a setup token, which goes to a client app.   *)
Issue ==
    /\ stage = "none"
    /\ stage' = "token"
    /\ url' = ClaimUrl(base, secret)
    /\ UNCHANGED <<base, secret, username, password, asked>>

(* The client app posts to the claim URL, and is answered if its path is    *)
(* that of the claim route with the secret.                                *)
Exchange ==
    /\ stage = "token"
    /\ asked' = [Nothing EXCEPT !.to = Passed(Path(url))]
    /\ IF asked'.to = ClaimPrefix \o secret
       THEN \E user, pass \in Credentials :
                /\ username' = user /\ password' = pass
                /\ url' = AccessUrl(base, user, pass)
                /\ stage' = "access"
       ELSE stage' = "refused" /\ UNCHANGED <<username, password, url>>
    /\ UNCHANGED <<base, secret>>

(* It then asks for accounts below the access URL, as often as it likes.    *)
AskAccounts ==
    /\ stage \in {"access", "asked"}
    /\ asked' = [to |-> Passed(Path(url) \o <<Slash, C("accounts")>>),
                 user |-> User(url), password |-> Password(url)]
    /\ stage' = "asked"
    /\ UNCHANGED <<base, secret, username, password, url>>

ClientNext == Issue \/ Exchange \/ AskAccounts

ClientSpec == ClientInit /\ [][ClientNext]_clientVars

(***************************************************************************)
(* Properties.                                                             *)
(***************************************************************************)
(* Every setup token issued under a base_url the config accepts leads to     *)
(* the claim route with the secret it was made of: whatever base_url ends   *)
(* in, no such token is spent on a page that is not there.                 *)
TokenReachesClaim == stage # "refused"

(* What a client app takes out of its access URL are the credentials the    *)
(* claim issued, whichever characters they have, and they reach the route   *)
(* for accounts; and neither they nor the setup token are given to another  *)
(* host, or in the clear to another machine.                               *)
CredentialsSurvive ==
    /\ stage = "asked" =>
          asked = [to |-> <<Slash, C("simplefin"), Slash, C("accounts")>>,
                   user |-> username, password |-> password]
    /\ url # <<>> =>
          Host(url) = base.host /\ (Head(url) = Http => Loopback(base.host))
=============================================================================
