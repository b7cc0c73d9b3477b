---------------------------- MODULE MCAppTokens ----------------------------
(* Instance of AppTokens for TLC. *)
EXTENDS AppRegistry, TLC

Symmetry ==
    Permutations(Keys) \union Permutations(Commands) \union Permutations(Claims)
        \union Permutations(Requests)
=============================================================================
