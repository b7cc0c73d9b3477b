---------------------------- MODULE MCClientUrls ----------------------------
(* An instance of ClientUrls for TLC: base_urls with every end a path can    *)
(* have, and every short credential over the characters that mean something *)
(* in a URL, encoded already or not.                                       *)
EXTENDS ClientUrls

MCSymbols ==
    {"/", ":", "@", "%", "a", "s", "simplefin", "claim", "accounts", "https://",
     "http://", "ftp://", "host", "localhost", "127.0.0.1", "[::1]", "idn"}
MCUnreserved == {"a", "s"}

Hosts == {<<>>} \union {<<C(h)>> : h \in {"host", "localhost", "127.0.0.1", "[::1]", "idn"}}
Paths == UNION {[1..n -> {Slash, C("a")}] : n \in 0..3}

MCBases ==
    [scheme : {Https, Http, C("ftp://")}, user : BOOLEAN, host : Hosts,
     path : {p \in Paths : p = <<>> \/ p[1] = Slash}, query : BOOLEAN]

MCSecrets == {<<C("s")>>, <<C("s"), C("a")>>}

Letters == {C("/"), C(":"), C("@"), C("%"), C("a"), <<"/", 1>>}
MCCredentials == UNION {[1..n -> Letters] : n \in 1..2}
=============================================================================
