----------------------------- MODULE MCAccounts -----------------------------
(* Instance of Accounts for TLC: three providers, prefixes of which some    *)
(* start others, and own ids that look like a prefixed one.                 *)
EXTENDS Accounts

MCPrefixes == {<< >>, <<"a">>, <<"a", "b">>, <<"b">>, <<"c">>}
MCKeys == {"p1", "p2", "p3"}
MCOrder == <<"p2", "p1", "p3">>
MCHeld ==
    [p1 |-> {<<"x">>, <<"a", "x">>}, p2 |-> {<<"x">>}, p3 |-> {<<"b", "x">>}]
MCStrange == {<<"d">>}
=============================================================================
