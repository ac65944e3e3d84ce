------------------------ MODULE MCPaystackEntitlement ------------------------
(* Model-checking instances of PaystackEntitlement. *)
EXTENDS PaystackEntitlement, TLC

CONSTANTS p1, p2, ada

(* Two payments of one user.                                                *)
BothAda == p1 :> ada @@ p2 :> ada
=============================================================================
