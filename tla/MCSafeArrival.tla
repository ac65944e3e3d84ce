--------------------------- MODULE MCSafeArrival ---------------------------
(* Model-checking instances of SafeArrival. *)
EXTENDS SafeArrival
=============================================================================
