---------------------------- MODULE MCOtpChallenge ----------------------------
(* Model-checking instance of OtpChallenge by itself. *)
EXTENDS OtpChallenge
=============================================================================
