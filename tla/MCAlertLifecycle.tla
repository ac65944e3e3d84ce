-------------------------- MODULE MCAlertLifecycle --------------------------
(* Model-checking instances of AlertLifecycle. *)
EXTENDS AlertLifecycle
=============================================================================
