----------------------------- MODULE MCMembership -----------------------------
(***************************************************************************)
(* Model-checking instance of the two ways people are let in by others:    *)
(* into a safety circle (Circles) and into the reviewer role               *)
(* (ReviewerRequests).  They have no table in common, so what holds of     *)
(* each alone holds of both together; a behaviour shows one of them,       *)
(* chosen by part.                                                         *)
(***************************************************************************)
EXTENDS Circles, TLC

CONSTANTS Admins, Requests, NoRequest

ASSUME NoRequestAssumption == NoRequest \notin Requests

VARIABLES part, reviewers, request, audit, asking, resolving

Role == INSTANCE ReviewerRequests

roleVars == << reviewers, request, audit, asking, resolving >>

(* Users, devices and rows are only compared for identity.                 *)
Interchangeable ==
    Permutations(Users) \cup Permutations(Devices) \cup Permutations(Invitations)
    \cup Permutations(Admins) \cup Permutations(Requests)

-----------------------------------------------------------------------------
MembershipInit == part \in {"circle", "role"} /\ Init /\ Role!Init

CircleNext == part = "circle" /\ Next /\ UNCHANGED << part, roleVars >>
RoleNext == part = "role" /\ Role!Next /\ UNCHANGED << part, vars >>

MembershipSpec ==
    MembershipInit /\ [][CircleNext \/ RoleNext]_<< part, vars, roleVars >>

-----------------------------------------------------------------------------
(* The audit trail explains the roles and the requests, though verdicts    *)
(* and requests cross.                                                     *)
AuditExplains == Role!AuditExplains
=============================================================================
