------------------------- MODULE MC_SecurityTokens -------------------------
(* The token handlers instantiated for TLC: three invocations in one      *)
(* process, four stream slots so that the streams an earlier call leaks   *)
(* can make a later fopen fail, tokens of two bytes and a four-byte        *)
(* response buffer.  The declared token lengths cover the empty blob,     *)
(* a length that is not a multiple of the token size, a valid blob and a  *)
(* whole-token blob larger than the buffer.                                *)
EXTENDS SecurityTokens

MCTokenLens == {0, 1, 2, 6}
MCDeviceErrors == {-1, 3}
=============================================================================
