-------------------------- MODULE MCProviderClaim --------------------------
(* Instance of ProviderClaim for TLC: two providers that may have the same  *)
(* root, and tokens of both origins.                                        *)
EXTENDS ProviderClaim, TLC

CONSTANTS t1, t2, o1, o2

MCOrigin == t1 :> o1 @@ t2 :> o2

Symmetry == Permutations(Claims)
=============================================================================
