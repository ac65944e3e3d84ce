--------------------------- MODULE MCRefreshTokens ---------------------------
(* Model-checking instances of RefreshTokens. *)
EXTENDS RefreshTokens
=============================================================================
