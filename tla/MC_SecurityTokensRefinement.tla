------------------- MODULE MC_SecurityTokensRefinement -------------------
(* The refinement of TokenQuery checked on the instance of                 *)
(* MC_SecurityTokens.                                                      *)
EXTENDS SecurityTokensRefinement

MCTokenLens == {0, 1, 2, 6}
MCDeviceErrors == {-1, 3}
=============================================================================
