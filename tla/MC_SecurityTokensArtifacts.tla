-------------------- MODULE MC_SecurityTokensArtifacts --------------------
(* The artifact history instantiated for TLC, with the constants of        *)
(* MC_SecurityTokens: three calls, so a failing call can meet the output   *)
(* of an earlier successful one in the same sink.                          *)
EXTENDS SecurityTokensArtifacts

MCTokenLens == {0, 1, 2, 6}
MCDeviceErrors == {-1, 3}
=============================================================================
