--------------------------- MODULE ReviewerRequests ---------------------------
(***************************************************************************)
(* Requests for the reviewer role: requestReviewerRole and                 *)
(* resolveReviewerRequest of RolesService, as READ COMMITTED transactions  *)
(* of many users and administrators.                                       *)
(*                                                                         *)
(* A transaction is one step up to each read, and one from its first write *)
(* to its commit: what it writes it holds until then, and it reads nothing *)
(* afterwards.  The unique index on pending requests lets one of two       *)
(* insertions fail.                                                        *)
(***************************************************************************)
EXTENDS Naturals, Sequences

CONSTANTS Users, Admins,
          Requests,   \* identities reviewer_role_requests may hand out
          NoRequest, NoUser

VARIABLES reviewers,  \* the users with a user_roles row for "reviewer"
          request,    \* reviewer_role_requests
          audit,      \* the verdicts in admin_audit_logs on each request, in order
          asking,     \* how far each user's requestReviewerRole has come
          resolving   \* each administrator's resolveReviewerRequest

vars == << reviewers, request, audit, asking, resolving >>

-----------------------------------------------------------------------------
Verdicts == {"approved", "rejected"}
Statuses == {"none", "pending"} \cup Verdicts
Idle == [request |-> NoRequest, verdict |-> "approved"]

IsPending(r, u) == request[r].status = "pending" /\ request[r].user = u
HasPending(u) == \E r \in Requests : IsPending(r, u)

Init ==
    /\ reviewers = {}
    /\ request = [r \in Requests |-> [status |-> "none", user |-> NoUser]]
    /\ audit = [r \in Requests |-> << >>]
    /\ asking = [u \in Users |-> "idle"]
    /\ resolving = [a \in Admins |-> Idle]

-----------------------------------------------------------------------------
(* requestReviewerRole. *)

(* getUserRoleNames: the user is no reviewer.                              *)
ReadRoles(u) ==
    /\ asking[u] = "idle" /\ u \notin reviewers
    /\ asking' = [asking EXCEPT ![u] = "roles"]
    /\ UNCHANGED << reviewers, request, audit, resolving >>

(* A request that is pending is returned as it is.                         *)
ReadPending(u) ==
    /\ asking[u] = "roles"
    /\ asking' = [asking EXCEPT ![u] = IF HasPending(u) THEN "idle" ELSE "none"]
    /\ UNCHANGED << reviewers, request, audit, resolving >>

InsertRequest(u) ==
    /\ asking[u] = "none"
    /\ asking' = [asking EXCEPT ![u] = "idle"]
    /\ IF HasPending(u) THEN UNCHANGED request
       ELSE \E r \in Requests :
                /\ request[r].status = "none"
                /\ request' = [request EXCEPT ![r] = [status |-> "pending", user |-> u]]
    /\ UNCHANGED << reviewers, audit, resolving >>

-----------------------------------------------------------------------------
(* resolveReviewerRequest. *)

ReadRequest(a, r, verdict) ==
    /\ resolving[a] = Idle
    /\ request[r].status = "pending"
    /\ resolving' = [resolving EXCEPT ![a] = [request |-> r, verdict |-> verdict]]
    /\ UNCHANGED << reviewers, request, audit, asking >>

(* Fault: the UPDATE asks for a pending request, and nobody looks whether  *)
(* it has found one.                                                       *)
ResolveUnheeded(a) ==
    LET r == resolving[a].request  verdict == resolving[a].verdict IN
    /\ resolving[a] # Idle
    /\ reviewers' = IF verdict = "approved" THEN reviewers \cup {request[r].user} ELSE reviewers
    /\ request' = [request EXCEPT ![r].status = IF @ = "pending" THEN verdict ELSE @]
    /\ audit' = [audit EXCEPT ![r] = Append(@, verdict)]
    /\ resolving' = [resolving EXCEPT ![a] = Idle]
    /\ UNCHANGED asking

(* The role is granted, the request updated, whatever its status is by     *)
(* now, and the audit row inserted.                                        *)
Resolve(a) ==
    LET r == resolving[a].request  verdict == resolving[a].verdict IN
    /\ resolving[a] # Idle
    /\ reviewers' = IF verdict = "approved" THEN reviewers \cup {request[r].user} ELSE reviewers
    /\ request' = [request EXCEPT ![r].status = verdict]
    /\ audit' = [audit EXCEPT ![r] = Append(@, verdict)]
    /\ resolving' = [resolving EXCEPT ![a] = Idle]
    /\ UNCHANGED asking

(* The server is stopped, or a statement fails: nothing is written.        *)
RollBack(a) ==
    /\ resolving[a] # Idle
    /\ resolving' = [resolving EXCEPT ![a] = Idle]
    /\ UNCHANGED << reviewers, request, audit, asking >>

(* Every request of the table may be used once, which bounds the model.    *)
Next ==
    \/ \E u \in Users : ReadRoles(u) \/ ReadPending(u) \/ InsertRequest(u)
    \/ \E a \in Admins :
        \/ \E r \in Requests, verdict \in Verdicts : ReadRequest(a, r, verdict)
        \/ Resolve(a) \/ RollBack(a)

Spec == Init /\ [][Next]_vars

-----------------------------------------------------------------------------
TypeOK ==
    /\ reviewers \subseteq Users
    /\ request \in [Requests -> [status : Statuses, user : Users \cup {NoUser}]]
    /\ audit \in [Requests -> Seq(Verdicts)]
    /\ asking \in [Users -> {"idle", "roles", "none"}]
    /\ resolving \in [Admins -> [request : Requests \cup {NoRequest}, verdict : Verdicts]]

(* A user has one pending request at most, though two of the user's calls  *)
(* or a call and a verdict overlap.                                        *)
OnePending ==
    \A r, s \in Requests :
        request[r].status = "pending" /\ request[s].status = "pending"
            /\ request[r].user = request[s].user => r = s

(* Whoever has the role was given it by a verdict that the audit trail     *)
(* shows, though other verdicts on the request may have come before or     *)
(* after it.                                                               *)
ReviewerIsAudited ==
    \A u \in reviewers : \E r \in Requests :
        request[r].user = u /\ \E i \in 1..Len(audit[r]) : audit[r][i] = "approved"

(* The last verdict in the audit trail of a request is its status, and a   *)
(* request without a verdict is as its user left it.                       *)
LastVerdictStands ==
    \A r \in Requests :
        IF audit[r] = << >> THEN request[r].status \in {"none", "pending"}
        ELSE request[r].status = audit[r][Len(audit[r])]

(* The audit trail explains the tables: each role by an approval, each     *)
(* request by its last verdict, though verdicts and requests cross.        *)
AuditExplains == ReviewerIsAudited /\ LastVerdictStands

(* "Only pending reviewer requests can be resolved": a verdict stands.     *)
ResolvedOnce ==
    [][\A r \in Requests :
         request[r].status \in Verdicts => request'[r].status = request[r].status]_vars

(* "You already have reviewer access": nobody who has the role has a       *)
(* request pending.                                                        *)
ReviewerHasNoRequest ==
    \A r \in Requests : request[r].status = "pending" => request[r].user \notin reviewers
=============================================================================
