---------------------------- MODULE MCConfigLoad ----------------------------
(* Instance of ConfigLoad for TLC: one built-in provider, up to three      *)
(* entries and two custom providers, with texts of which some start others *)
(* and some hold what a key or a prefix may not.                           *)
EXTENDS ConfigLoad

MCKeyAlphabet == {"a", "b"}
MCPrefixAlphabet == {"a", "b", "A", ":"}
MCChars == {"a", "b", "A", ":", "/"}
MCBuiltIn == [k \in {<<"a">>} |-> "built-in root"]
MCGoodRoots == {"built-in root", "a root"}

MCIds == {<< >>, <<":">>, <<"b">>, <<"b", ":">>, <<"a", "b", ":">>}

Keys == {<<"a">>, <<"a", "b">>, <<"b">>, <<"A">>, <<"/">>}
Written == {None, << >>, <<"a">>, <<"a", ":">>, <<"/">>}
Entries == [key : Keys, prefix : Written]
Known == [key : {<<"a">>, <<"a", "b">>, <<"b">>}, prefix : {None, << >>, <<"a">>, <<"a", "b">>}]
Three == {<<x, y, z>> : x \in {e \in Known : e.key = <<"b">>},
                        y \in {e \in Known : e.key = <<"a">>},
                        z \in {e \in Known : e.key = <<"a", "b">>}}
MCProviderLists ==
    {<< >>} \cup {<<e>> : e \in Entries} \cup {<<x, y>> : x, y \in Entries} \cup Three

Customs == [key : {<<"a">>, <<"a", "b">>, <<"b">>, <<"A">>, << >>}, root : {"a root"}]
MCCustomLists ==
    {<< >>} \cup {<<c>> : c \in Customs} \cup {<<x, y>> : x, y \in Customs} \cup
    {<<[key |-> <<"b">>, root |-> "a bad root"]>>}

Base == [ascii |-> TRUE, scheme |-> "https", host |-> "name", userinfo |-> FALSE]
MCBaseUrls == {Base, [Base EXCEPT !.scheme = "http"]}
=============================================================================
