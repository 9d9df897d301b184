----------------------------- MODULE MCOAuthTokens -----------------------------
(*****************************************************************************)
(* Model of OAuthTokens: families and codes are interchangeable.  Two refresh*)
(* lifetimes let a restart shorten or lengthen what later rotations grant.   *)
(*****************************************************************************)
EXTENDS OAuthTokens, TLC

Symmetry == Permutations(Provider) \cup Permutations(Code) \cup Permutations(Family)
================================================================================
