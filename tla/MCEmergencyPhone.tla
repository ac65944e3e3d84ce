--------------------------- MODULE MCEmergencyPhone ---------------------------
(* Model-checking instances of EmergencyPhone. *)
EXTENDS EmergencyPhone
=============================================================================
