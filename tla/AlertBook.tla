------------------------------ MODULE AlertBook ------------------------------
(***************************************************************************)
(* What the alert subsystem promises to a reader of the database: an alert *)
(* is one logical record, opened at a stage chosen by the user, moved      *)
(* between stages while it is active, and ended exactly once, either       *)
(* cancelled or resolved.  The alerts row, the watch_sessions row and the  *)
(* audit trail are three views of that one record and change together.    *)
(***************************************************************************)
EXTENDS Naturals, Sequences

CONSTANTS Alerts, Stages

VARIABLES standing,   \* Alerts -> "none", "active", "cancelled" or "resolved"
          stage,      \* Alerts -> the current stage, "none" before the opening
          history     \* Alerts -> the sequence of the events that happened to it

bookVars == << standing, stage, history >>

Open(a, s) ==
    /\ standing[a] = "none"
    /\ standing' = [standing EXCEPT ![a] = "active"]
    /\ stage' = [stage EXCEPT ![a] = s]
    /\ history' = [history EXCEPT ![a] = << "alert_created" >>]

ChangeStage(a, s) ==
    /\ standing[a] = "active"
    /\ stage' = [stage EXCEPT ![a] = s]
    /\ history' = [history EXCEPT ![a] = Append(@, "alert_escalated")]
    /\ UNCHANGED standing

End(a, how, event) ==
    /\ standing[a] = "active"
    /\ standing' = [standing EXCEPT ![a] = how]
    /\ history' = [history EXCEPT ![a] = Append(@, event)]
    /\ UNCHANGED stage

BookInit ==
    /\ standing = [a \in Alerts |-> "none"]
    /\ stage = [a \in Alerts |-> "none"]
    /\ history = [a \in Alerts |-> << >>]

BookNext ==
    \E a \in Alerts :
        \/ \E s \in Stages : Open(a, s) \/ ChangeStage(a, s)
        \/ End(a, "cancelled", "alert_cancelled")
        \/ End(a, "resolved", "session_closed")

BookSpec == BookInit /\ [][BookNext]_bookVars
==============================================================================
