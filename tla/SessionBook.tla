----------------------------- MODULE SessionBook -----------------------------
(***************************************************************************)
(* What the refresh tokens promise: a sign-in opens one session, which     *)
(* lives through any number of rotations and ends once, for good.          *)
(***************************************************************************)
CONSTANT Chains       \* the sessions sign-ins may open

VARIABLE standing     \* Chains -> "none", "live" or "ended"

BookInit == standing = [c \in Chains |-> "none"]

OpenChain(c) ==
    /\ standing[c] = "none"
    /\ standing' = [standing EXCEPT ![c] = "live"]

(* A sign-out ends one session, a password reset all that are live.        *)
EndChains(C) ==
    /\ \A c \in C : standing[c] = "live"
    /\ standing' = [c \in Chains |-> IF c \in C THEN "ended" ELSE standing[c]]

BookNext ==
    \/ \E c \in Chains : OpenChain(c)
    \/ \E C \in SUBSET Chains : EndChains(C)

BookSpec == BookInit /\ [][BookNext]_standing
=============================================================================
