------------------------------- MODULE Circles -------------------------------
(***************************************************************************)
(* The invitations and the members of one safety circle: invite, accept,   *)
(* decline and leave of CirclesService, called by the owner's and the      *)
(* other users' devices at once.                                           *)
(*                                                                         *)
(* An invitation names a user or an e-mail address, and the look-up for an *)
(* earlier one compares like with like.  The owner never leaves, and is    *)
(* left out of the members.                                                *)
(***************************************************************************)
EXTENDS Naturals, FiniteSets

CONSTANTS Users,        \* the people who may be invited
          NoUser,
          Devices,      \* the devices each person has
          Invitations,  \* identities safety_circle_invitations may hand out
          NoInvitation

ASSUME NoUserAssumption == NoUser \notin Users
ASSUME NoInvitationAssumption == NoInvitation \notin Invitations

VARIABLES member,      \* the status in safety_circle_members
          invitation,  \* safety_circle_invitations
          expired,     \* the invitations whose expires_at has passed
          inviting,    \* the owner's calls of invite
          accepting,   \* the invitation whose row each user's accepts have locked
          leaving,     \* the users whose leave has found them to be members
          joins        \* history: how often each user has become a member

vars == << member, invitation, expired, inviting, accepting, leaving, joins >>

-----------------------------------------------------------------------------
Ways == {"id", "email"}
NoCall == [to |-> NoUser, way |-> "id"]

Pending(i) == invitation[i].status = "pending"
IsFor(i, u, way) == invitation[i].to = u /\ invitation[i].way = way
Waiting(u, way) == {i \in Invitations : Pending(i) /\ i \notin expired /\ IsFor(i, u, way)}
Calls == Users \X Devices
Free(i) == \A c \in Calls : accepting[c] # i

Init ==
    /\ member = [u \in Users |-> "none"]
    /\ invitation = [i \in Invitations |-> [status |-> "none", to |-> NoUser, way |-> "id"]]
    /\ expired = {}
    /\ inviting = [d \in Devices |-> NoCall]
    /\ accepting = [c \in Calls |-> NoInvitation]
    /\ leaving = {}
    /\ joins = [u \in Users |-> 0]

-----------------------------------------------------------------------------
(* invite: the owner is the owner, and no invitation waits: a second       *)
(* statement inserts one.  Whether the user is a member already is not     *)
(* asked.                                                                  *)
LookUp(d, u, way) ==
    /\ inviting[d] = NoCall
    /\ Waiting(u, way) = {}
    /\ inviting' = [inviting EXCEPT ![d] = [to |-> u, way |-> way]]
    /\ UNCHANGED << member, invitation, expired, accepting, leaving, joins >>

Insert(d) ==
    /\ inviting[d] # NoCall
    /\ \E i \in Invitations :
        /\ invitation[i].status = "none"
        /\ invitation' = [invitation EXCEPT ![i] =
               [status |-> "pending", to |-> inviting[d].to, way |-> inviting[d].way]]
    /\ inviting' = [inviting EXCEPT ![d] = NoCall]
    /\ UNCHANGED << member, expired, accepting, leaving, joins >>

(* Seven days have passed.  The status stays.                              *)
Expire(i) ==
    /\ invitation[i].status # "none" /\ i \notin expired
    /\ expired' = expired \cup {i}
    /\ UNCHANGED << member, invitation, inviting, accepting, leaving, joins >>

-----------------------------------------------------------------------------
(* Fault: the row is read without FOR UPDATE.                              *)
AcceptReads(u, d, i) ==
    /\ accepting[<< u, d >>] = NoInvitation
    /\ Pending(i) /\ i \notin expired /\ invitation[i].to = u
    /\ accepting' = [accepting EXCEPT ![<< u, d >>] = i]
    /\ UNCHANGED << member, invitation, expired, inviting, leaving, joins >>

(* accept: the invitation is pending and for this user; its row is locked. *)
AcceptLock(u, d, i) ==
    /\ accepting[<< u, d >>] = NoInvitation
    /\ Pending(i) /\ i \notin expired /\ invitation[i].to = u
    /\ Free(i)
    /\ accepting' = [accepting EXCEPT ![<< u, d >>] = i]
    /\ UNCHANGED << member, invitation, expired, inviting, leaving, joins >>

(* The member is inserted or made active again, the invitation accepted.   *)
AcceptCommit(u, d) ==
    /\ accepting[<< u, d >>] # NoInvitation
    /\ member' = [member EXCEPT ![u] = "active"]
    /\ joins' = [joins EXCEPT ![u] = IF member[u] = "active" THEN @ ELSE @ + 1]
    /\ invitation' = [invitation EXCEPT ![accepting[<< u, d >>]].status = "accepted"]
    /\ accepting' = [accepting EXCEPT ![<< u, d >>] = NoInvitation]
    /\ UNCHANGED << expired, inviting, leaving >>

(* The server is stopped: the transaction is rolled back.                  *)
AcceptRolledBack(u, d) ==
    /\ accepting[<< u, d >>] # NoInvitation
    /\ accepting' = [accepting EXCEPT ![<< u, d >>] = NoInvitation]
    /\ UNCHANGED << member, invitation, expired, inviting, leaving, joins >>

(* decline: one UPDATE of a pending invitation, expired or not.            *)
Decline(u, i) ==
    /\ Pending(i) /\ invitation[i].to = u /\ Free(i)
    /\ invitation' = [invitation EXCEPT ![i].status = "declined"]
    /\ UNCHANGED << member, expired, inviting, accepting, leaving, joins >>

(* leave: requireMember, then an UPDATE that does not ask again.           *)
LeaveCheck(u) ==
    /\ member[u] = "active" /\ u \notin leaving
    /\ leaving' = leaving \cup {u}
    /\ UNCHANGED << member, invitation, expired, inviting, accepting, joins >>

LeaveCommit(u) ==
    /\ u \in leaving
    /\ member' = [member EXCEPT ![u] = "left"]
    /\ leaving' = leaving \ {u}
    /\ UNCHANGED << invitation, expired, inviting, accepting, joins >>

Next ==
    \/ \E d \in Devices :
        \/ \E u \in Users, way \in Ways : LookUp(d, u, way)
        \/ Insert(d)
    \/ \E i \in Invitations : Expire(i)
    \/ \E u \in Users :
        \/ \E i \in Invitations : Decline(u, i) \/ \E d \in Devices : AcceptLock(u, d, i)
        \/ \E d \in Devices : AcceptCommit(u, d) \/ AcceptRolledBack(u, d)
        \/ LeaveCheck(u) \/ LeaveCommit(u)

Spec == Init /\ [][Next]_vars

-----------------------------------------------------------------------------
TypeOK ==
    /\ member \in [Users -> {"none", "active", "left"}]
    /\ invitation \in [Invitations -> [status : {"none", "pending", "accepted", "declined"},
                                       to : Users \cup {NoUser}, way : Ways]]
    /\ expired \subseteq Invitations
    /\ inviting \in [Devices -> [to : Users \cup {NoUser}, way : Ways]]
    /\ accepting \in [Calls -> Invitations \cup {NoInvitation}]
    /\ leaving \subseteq Users
    /\ joins \in [Users -> Nat]

Accepted(u) == {i \in Invitations : invitation[i].status = "accepted" /\ invitation[i].to = u}

(* Nobody is a member again without an invitation of their own for each    *)
(* time: an invitation lets its user in once, whatever overlaps with the   *)
(* acceptance.                                                             *)
JoinsAreInvited ==
    \A u \in Users :
        /\ joins[u] <= Cardinality(Accepted(u))
        /\ member[u] = "active" => joins[u] > 0

(* An invitation whose acceptance has begun waits for its answer: nobody   *)
(* declines it meanwhile.                                                  *)
LockedIsPending ==
    \A u \in Users, d \in Devices :
        accepting[<< u, d >>] # NoInvitation =>
            Pending(accepting[<< u, d >>]) /\ invitation[accepting[<< u, d >>]].to = u

(* An invitation is answered once.                                         *)
AnsweredOnce ==
    [][\A i \in Invitations :
         invitation[i].status \in {"accepted", "declined"} => invitation'[i] = invitation[i]]_vars

(* "duplicate pending invitations are reused": one invitation waits for a  *)
(* person at one address.                                                  *)
InvitationsAreReused ==
    \A u \in Users, way \in Ways : \A i, k \in Waiting(u, way) : i = k
=============================================================================
