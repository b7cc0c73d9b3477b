--------------------------- MODULE MCUrlMatching ---------------------------
(* Instance of UrlMatching for TLC: every short path over the characters   *)
(* that matter, on one origin, and the variations of everything else.      *)
EXTENDS UrlMatching

MCSymbols ==
    {"/", ".", " ", "a", "b", "bank", "BANK", ".evil", "127.0.0.1", "localhost", ":8443",
     "https://", "http://", "file://", "accounts"}

A == <<"a", 0>>
B == <<"b", 0>>
Url(scheme, host, path) ==
    [scheme |-> <<scheme, 0>>, host |-> host, port |-> "none", path |-> path,
     creds |-> TRUE, query |-> FALSE]
Bank == <<<<"bank", 0>>>>
BankEvil == <<<<"bank", 0>>, <<".evil", 0>>>>
Shouted == <<<<"BANK", 0>>>>
Loop == <<<<"127.0.0.1", 0>>>>
Local == <<<<"localhost", 0>>>>

Alphabet == {A, Dot, Slash, <<".", 1>>, <<".", 2>>, <<"/", 1>>}
Tails == UNION {[1..n -> Alphabet] : n \in 0..3} \cup {<<Slash>> \o t : t \in [1..3 -> Alphabet]}
Paths == {<<Slash, A>> \o t : t \in Tails}

Plain == Url("https://", Bank, <<Slash, A, Slash, B>>)
Others ==
    {Url("https://", Bank, p) : p \in {<< >>, <<Slash>>, <<Slash, B>>, <<Slash, A, Slash, Space>>}}
    \cup {Url(s, h, <<Slash, A>>) : s \in {"https://", "http://", "file://"},
                                   h \in {Bank, BankEvil, Shouted, Loop, Local, << >>}}
    \cup {[Plain EXCEPT !.port = port] : port \in {"default", "other", "out of range"}}
    \cup {[Plain EXCEPT !.query = TRUE]}

MCGiven ==
    {Url("https://", Bank, p) : p \in Paths} \cup
    {[u EXCEPT !.creds = c] : u \in Others \cup {Plain}, c \in BOOLEAN} \cup
    {[Url("https://", Bank, <<Slash, A>> \o t) EXCEPT !.creds = FALSE] : t \in [1..2 -> Alphabet]}

RootPaths == {<< >>, <<Slash, A>>, <<Slash, A, Slash>>, <<Slash, A, <<"/", 1>>>>,
              <<Slash, A, Slash, Space>>, <<Slash, A, Dot>>, <<Slash, A, Slash, Slash>>,
              <<Slash, A, Slash, Dot>>}
MCRoots ==
    {[Url(s, h, p) EXCEPT !.creds = c] :
        s \in {"https://", "http://"}, h \in {Bank, Loop, Local}, p \in RootPaths, c \in BOOLEAN}
=============================================================================
