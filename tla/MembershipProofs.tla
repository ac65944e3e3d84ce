--------------------------- MODULE MembershipProofs ---------------------------
(***************************************************************************)
(* The two ways of being let in, proved: Circles for any number of people, *)
(* devices and invitations, ReviewerRequests for any number of users,      *)
(* administrators and requests, and the latter in MCMembership, where both *)
(* stand side by side.                                                     *)
(*                                                                         *)
(* What carries the proof about circles is OneHolder, that two acceptances *)
(* never hold one row: whoever commits an acceptance still finds it        *)
(* pending, so every join uses up an invitation of its own.  The proof     *)
(* about roles needs Referred: a verdict that is under way, and one that   *)
(* has been given, are about a request that a user has made.               *)
(***************************************************************************)
EXTENDS MCMembership, FiniteSetTheorems, SequenceTheorems, TLAPS

-----------------------------------------------------------------------------
(* Safety circles.                                                         *)

OneHolder ==
    \A c, d \in Calls :
        accepting[c] # NoInvitation /\ accepting[c] = accepting[d] => c = d

AcceptedIsFinite == \A u \in Users : IsFiniteSet(Accepted(u))

Locked == TypeOK /\ LockedIsPending /\ OneHolder
CircleInv == Locked /\ AcceptedIsFinite /\ JoinsAreInvited

-----------------------------------------------------------------------------
LEMMA InitLocked == Init => Locked
BY NoInvitationAssumption
   DEF Init, Locked, TypeOK, LockedIsPending, OneHolder, Calls, NoCall, Ways

LEMMA InsertLocked == ASSUME Locked, NEW d \in Devices, Insert(d) PROVE Locked'
<1>1. PICK i \in Invitations :
        /\ invitation[i].status = "none"
        /\ invitation' = [invitation EXCEPT ![i] =
               [status |-> "pending", to |-> inviting[d].to, way |-> inviting[d].way]]
    BY DEF Insert
<1>2. TypeOK'
    BY <1>1 DEF Locked, TypeOK, Insert, NoCall, Ways
<1>3. LockedIsPending'
    <2>1. \A c \in Calls : accepting[c] # i
        BY <1>1, NoInvitationAssumption DEF Locked, LockedIsPending, Pending, Calls
    <2>2. \A k \in Invitations : k # i => invitation'[k] = invitation[k]
        BY <1>1 DEF Locked, TypeOK
    <2>3. \A c \in Calls : accepting[c] # NoInvitation =>
            invitation'[accepting[c]] = invitation[accepting[c]]
        BY <2>1, <2>2 DEF Locked, TypeOK
    <2>4. accepting' = accepting
        BY DEF Insert
    <2> QED
        BY <2>3, <2>4 DEF Locked, LockedIsPending, Pending, Calls
<1>4. OneHolder'
    BY DEF Locked, OneHolder, Insert
<1> QED
    BY <1>2, <1>3, <1>4 DEF Locked

LEMMA AcceptLockLocked ==
    ASSUME Locked, NEW u \in Users, NEW d \in Devices, NEW i \in Invitations, AcceptLock(u, d, i)
    PROVE  Locked'
<1>1. /\ << u, d >> \in Calls
      /\ accepting' = [accepting EXCEPT ![<< u, d >>] = i]
      /\ UNCHANGED << member, invitation, expired, inviting, leaving, joins >>
      /\ Pending(i) /\ invitation[i].to = u
      /\ \A c \in Calls : accepting[c] # i
    BY DEF AcceptLock, Free, Calls
<1>2. TypeOK'
    BY <1>1 DEF Locked, TypeOK
<1>3. LockedIsPending'
    BY <1>1 DEF Locked, TypeOK, LockedIsPending, Pending, Calls
<1>4. OneHolder'
    BY <1>1 DEF Locked, TypeOK, OneHolder
<1> QED
    BY <1>2, <1>3, <1>4 DEF Locked

(* What a call that holds a row knows of it.                               *)
LEMMA Holding ==
    ASSUME Locked, NEW u \in Users, NEW d \in Devices, accepting[<< u, d >>] # NoInvitation
    PROVE  /\ << u, d >> \in Calls
           /\ accepting[<< u, d >>] \in Invitations
           /\ invitation[accepting[<< u, d >>]].status = "pending"
           /\ invitation[accepting[<< u, d >>]].to = u
           /\ \A c \in Calls : accepting[c] = accepting[<< u, d >>] => c = << u, d >>
BY DEF Locked, TypeOK, LockedIsPending, OneHolder, Pending, Calls

LEMMA AcceptCommitLocked ==
    ASSUME Locked, NEW u \in Users, NEW d \in Devices, AcceptCommit(u, d)
    PROVE  Locked'
<1> DEFINE i == accepting[<< u, d >>]
<1>1. /\ << u, d >> \in Calls /\ i \in Invitations
      /\ invitation[i].status = "pending" /\ invitation[i].to = u
      /\ \A c \in Calls : accepting[c] = i => c = << u, d >>
      /\ invitation' = [invitation EXCEPT ![i].status = "accepted"]
      /\ accepting' = [accepting EXCEPT ![<< u, d >>] = NoInvitation]
    BY Holding DEF AcceptCommit
<1> HIDE DEF i
<1>2. TypeOK'
    BY <1>1 DEF Locked, TypeOK, AcceptCommit
<1>3. LockedIsPending'
    BY <1>1 DEF Locked, TypeOK, LockedIsPending, Pending, Calls
<1>4. OneHolder'
    BY <1>1 DEF Locked, TypeOK, OneHolder
<1> QED
    BY <1>2, <1>3, <1>4 DEF Locked

LEMMA DeclineLocked ==
    ASSUME Locked, NEW u \in Users, NEW i \in Invitations, Decline(u, i)
    PROVE  Locked'
<1>1. TypeOK'
    BY DEF Locked, TypeOK, Decline
<1>2. LockedIsPending'
    BY DEF Locked, TypeOK, LockedIsPending, Pending, Decline, Free, Calls
<1>3. OneHolder'
    BY DEF Locked, OneHolder, Decline
<1> QED
    BY <1>1, <1>2, <1>3 DEF Locked

LEMMA OtherStepsLocked ==
    ASSUME Locked,
           \/ \E d \in Devices, u \in Users, way \in Ways : LookUp(d, u, way)
           \/ \E i \in Invitations : Expire(i)
           \/ \E u \in Users, d \in Devices : AcceptRolledBack(u, d)
           \/ \E u \in Users : LeaveCheck(u) \/ LeaveCommit(u)
           \/ UNCHANGED vars
    PROVE  Locked'
<1> USE DEF Locked, TypeOK, LockedIsPending, OneHolder, Pending
<1>1. ASSUME NEW d \in Devices, NEW u \in Users, NEW way \in Ways, LookUp(d, u, way)
      PROVE  Locked'
    BY <1>1 DEF LookUp
<1>2. ASSUME NEW i \in Invitations, Expire(i) PROVE Locked'
    BY <1>2 DEF Expire
<1>3. ASSUME NEW u \in Users, NEW d \in Devices, AcceptRolledBack(u, d) PROVE Locked'
    <2>1. << u, d >> \in Calls /\ accepting' = [accepting EXCEPT ![<< u, d >>] = NoInvitation]
        BY <1>3 DEF AcceptRolledBack, Calls
    <2>2. TypeOK' /\ OneHolder'
        BY <1>3, <2>1 DEF AcceptRolledBack
    <2>3. LockedIsPending'
        BY <1>3, <2>1 DEF AcceptRolledBack, Calls
    <2> QED
        BY <2>2, <2>3
<1>4. ASSUME NEW u \in Users, LeaveCheck(u) \/ LeaveCommit(u) PROVE Locked'
    BY <1>4 DEF LeaveCheck, LeaveCommit
<1>5. CASE UNCHANGED vars
    BY <1>5 DEF vars
<1> QED
    BY <1>1, <1>2, <1>3, <1>4, <1>5

LEMMA StepLocked == ASSUME Locked, [Next]_vars PROVE Locked'
BY InsertLocked, AcceptLockLocked, AcceptCommitLocked, DeclineLocked, OtherStepsLocked DEF Next

-----------------------------------------------------------------------------
(* Only AcceptCommit accepts and only it makes a member.                   *)
LEMMA OtherStepsJoin ==
    ASSUME CircleInv, [Next]_vars,
           ~\E u \in Users, d \in Devices : AcceptCommit(u, d)
    PROVE  \A u \in Users : /\ Accepted(u)' = Accepted(u) /\ joins'[u] = joins[u]
                            /\ member'[u] = "active" => member[u] = "active"
<1> USE DEF CircleInv, Locked, TypeOK
<1>1. ASSUME NEW d \in Devices, Insert(d), NEW u \in Users
      PROVE  /\ Accepted(u)' = Accepted(u) /\ joins'[u] = joins[u]
             /\ member'[u] = "active" => member[u] = "active"
    BY <1>1 DEF Insert, Accepted
<1>2. ASSUME NEW v \in Users, NEW i \in Invitations, Decline(v, i), NEW u \in Users
      PROVE  /\ Accepted(u)' = Accepted(u) /\ joins'[u] = joins[u]
             /\ member'[u] = "active" => member[u] = "active"
    BY <1>2 DEF Decline, Pending, Accepted
<1>3. ASSUME NEW v \in Users, LeaveCommit(v), NEW u \in Users
      PROVE  /\ Accepted(u)' = Accepted(u) /\ joins'[u] = joins[u]
             /\ member'[u] = "active" => member[u] = "active"
    BY <1>3 DEF LeaveCommit, Accepted
<1>4. CASE UNCHANGED << member, invitation, joins >>
    BY <1>4 DEF Accepted
<1>5. \/ \E d \in Devices : Insert(d)
      \/ \E v \in Users, i \in Invitations : Decline(v, i)
      \/ \E v \in Users : LeaveCommit(v)
      \/ UNCHANGED << member, invitation, joins >>
    BY DEF Next, vars, LookUp, Expire, AcceptLock, AcceptRolledBack, LeaveCheck
<1> QED
    BY <1>1, <1>2, <1>3, <1>4, <1>5

LEMMA AcceptCommitJoins ==
    ASSUME CircleInv, NEW u \in Users, NEW d \in Devices, AcceptCommit(u, d)
    PROVE  AcceptedIsFinite' /\ JoinsAreInvited'
<1> DEFINE i == accepting[<< u, d >>]
<1>1. /\ i \in Invitations
      /\ invitation[i].status = "pending" /\ invitation[i].to = u
      /\ invitation' = [invitation EXCEPT ![i].status = "accepted"]
      /\ member' = [member EXCEPT ![u] = "active"]
      /\ joins' = [joins EXCEPT ![u] = IF member[u] = "active" THEN @ ELSE @ + 1]
    BY Holding DEF CircleInv, AcceptCommit
<1> HIDE DEF i
<1>2. \A v \in Users : IsFiniteSet(Accepted(v)) /\ Cardinality(Accepted(v)) \in Nat
    BY FS_CardinalityType DEF CircleInv, AcceptedIsFinite
<1>3. Accepted(u)' = Accepted(u) \cup {i} /\ i \notin Accepted(u)
    BY <1>1 DEF CircleInv, Locked, TypeOK, Accepted
<1>4. IsFiniteSet(Accepted(u)') /\ Cardinality(Accepted(u)') = Cardinality(Accepted(u)) + 1
    BY <1>2, <1>3, FS_AddElement
<1>5. \A v \in Users : v # u =>
        Accepted(v)' = Accepted(v) /\ joins'[v] = joins[v] /\ member'[v] = member[v]
    BY <1>1 DEF CircleInv, Locked, TypeOK, Accepted
<1>6. AcceptedIsFinite'
    BY <1>2, <1>4, <1>5 DEF AcceptedIsFinite
<1>7. joins'[u] <= Cardinality(Accepted(u)') /\ joins'[u] > 0
    BY <1>1, <1>2, <1>4 DEF CircleInv, Locked, TypeOK, JoinsAreInvited
<1>8. JoinsAreInvited'
    BY <1>5, <1>7 DEF CircleInv, JoinsAreInvited
<1> QED
    BY <1>6, <1>8

LEMMA CircleInit == Init => CircleInv
<1> SUFFICES ASSUME Init PROVE CircleInv
    OBVIOUS
<1>1. \A u \in Users : Accepted(u) = {}
    BY DEF Init, Accepted
<1>2. IsFiniteSet({}) /\ Cardinality({}) = 0
    BY FS_EmptySet
<1> QED
    BY <1>1, <1>2, InitLocked DEF Init, CircleInv, AcceptedIsFinite, JoinsAreInvited

LEMMA CircleStep == ASSUME CircleInv, [Next]_vars PROVE CircleInv'
<1>1. Locked'
    BY StepLocked DEF CircleInv
<1>2. AcceptedIsFinite' /\ JoinsAreInvited'
    <2>1. CASE \E u \in Users, d \in Devices : AcceptCommit(u, d)
        BY <2>1, AcceptCommitJoins
    <2>2. CASE ~\E u \in Users, d \in Devices : AcceptCommit(u, d)
        BY <2>2, OtherStepsJoin DEF CircleInv, AcceptedIsFinite, JoinsAreInvited
    <2> QED
        BY <2>1, <2>2
<1> QED
    BY <1>1, <1>2 DEF CircleInv

LEMMA CircleInductive == Spec => []CircleInv
BY CircleInit, CircleStep, PTL DEF Spec

-----------------------------------------------------------------------------
(* The tables and the calls of CirclesService are what they are declared   *)
(* to be.                                                                  *)
THEOREM CircleTypeCorrect == Spec => []TypeOK
BY CircleInductive, PTL DEF CircleInv, Locked

(* An invitation whose acceptance has locked it is pending until the       *)
(* acceptance ends: a decline waits.                                       *)
THEOREM LockedStaysPending == Spec => []LockedIsPending
BY CircleInductive, PTL DEF CircleInv, Locked

(* Every time somebody becomes a member an invitation of theirs has been   *)
(* accepted for it, and for nothing else.                                  *)
THEOREM MembersAreInvited == Spec => []JoinsAreInvited
BY CircleInductive, PTL DEF CircleInv

LEMMA AnsweredStep ==
    ASSUME CircleInv, [Next]_vars, NEW i \in Invitations,
           invitation[i].status \in {"accepted", "declined"}
    PROVE  invitation'[i] = invitation[i]
<1>1. ASSUME NEW d \in Devices, Insert(d) PROVE invitation'[i] = invitation[i]
    BY <1>1 DEF CircleInv, Locked, TypeOK, Insert
<1>2. ASSUME NEW u \in Users, NEW k \in Invitations, Decline(u, k)
      PROVE  invitation'[i] = invitation[i]
    BY <1>2 DEF CircleInv, Locked, TypeOK, Decline, Pending
<1>3. ASSUME NEW u \in Users, NEW d \in Devices, AcceptCommit(u, d)
      PROVE  invitation'[i] = invitation[i]
    BY <1>3, Holding DEF CircleInv, Locked, TypeOK, AcceptCommit
<1>4. \/ \E d \in Devices : Insert(d)
      \/ \E u \in Users, k \in Invitations : Decline(u, k)
      \/ \E u \in Users, d \in Devices : AcceptCommit(u, d)
      \/ UNCHANGED invitation
    BY DEF Next, vars, LookUp, Expire, AcceptLock, AcceptRolledBack, LeaveCheck, LeaveCommit
<1> QED
    BY <1>1, <1>2, <1>3, <1>4

(* An answer to an invitation is the last one, whichever calls cross.      *)
THEOREM AnswersStand == Spec => AnsweredOnce
<1>1. CircleInv /\ [Next]_vars =>
        [\A i \in Invitations :
           invitation[i].status \in {"accepted", "declined"} => invitation'[i] = invitation[i]]_vars
    BY AnsweredStep
<1> QED
    BY <1>1, CircleInductive, PTL DEF Spec, AnsweredOnce

-----------------------------------------------------------------------------
(* The reviewer role.                                                      *)

Made(r) == request[r].status # "none"

(* Whoever resolves a request resolves one that a user has made.           *)
Referred ==
    /\ \A r \in Requests : Made(r) => request[r].user \in Users
    /\ \A a \in Admins :
        resolving[a] # Role!Idle => resolving[a].request \in Requests /\ Made(resolving[a].request)

RoleInv ==
    /\ Role!TypeOK /\ Referred
    /\ Role!OnePending /\ Role!ReviewerIsAudited /\ Role!LastVerdictStands

-----------------------------------------------------------------------------
LEMMA RoleInit == Role!Init => RoleInv
<1> SUFFICES ASSUME Role!Init PROVE RoleInv
    OBVIOUS
<1>1. Role!TypeOK
    BY DEF Role!Init, Role!TypeOK, Role!Statuses, Role!Verdicts, Role!Idle
<1>2. Referred
    BY DEF Role!Init, Referred, Made
<1>3. Role!OnePending /\ Role!ReviewerIsAudited /\ Role!LastVerdictStands
    BY DEF Role!Init, Role!OnePending, Role!ReviewerIsAudited, Role!LastVerdictStands
<1> QED
    BY <1>1, <1>2, <1>3 DEF RoleInv

(* A call that leaves the tables alone disturbs nothing but its own step.  *)
LEMMA TablesAlone ==
    ASSUME RoleInv, UNCHANGED << reviewers, request, audit >>
    PROVE  Role!OnePending' /\ Role!ReviewerIsAudited' /\ Role!LastVerdictStands'
BY DEF RoleInv, Role!OnePending, Role!ReviewerIsAudited, Role!LastVerdictStands

LEMMA ReadRolesOK == ASSUME RoleInv, NEW u \in Users, Role!ReadRoles(u) PROVE RoleInv'
<1>1. Role!TypeOK' /\ Referred'
    BY DEF RoleInv, Role!TypeOK, Referred, Made, Role!ReadRoles
<1> QED
    BY <1>1, TablesAlone DEF RoleInv, Role!ReadRoles

LEMMA ReadPendingOK == ASSUME RoleInv, NEW u \in Users, Role!ReadPending(u) PROVE RoleInv'
<1>1. Role!TypeOK' /\ Referred'
    BY DEF RoleInv, Role!TypeOK, Referred, Made, Role!ReadPending
<1> QED
    BY <1>1, TablesAlone DEF RoleInv, Role!ReadPending

LEMMA RollBackOK == ASSUME RoleInv, NEW a \in Admins, Role!RollBack(a) PROVE RoleInv'
<1>1. Role!TypeOK' /\ Referred'
    BY DEF RoleInv, Role!TypeOK, Referred, Made, Role!RollBack, Role!Idle, Role!Verdicts
<1> QED
    BY <1>1, TablesAlone DEF RoleInv, Role!RollBack

LEMMA ReadRequestOK ==
    ASSUME RoleInv, NEW a \in Admins, NEW r \in Requests, NEW verdict \in Role!Verdicts,
           Role!ReadRequest(a, r, verdict)
    PROVE  RoleInv'
<1>1. Role!TypeOK'
    BY DEF RoleInv, Role!TypeOK, Role!ReadRequest
<1>2. Referred'
    BY DEF RoleInv, Role!TypeOK, Referred, Made, Role!ReadRequest
<1> QED
    BY <1>1, <1>2, TablesAlone DEF RoleInv, Role!ReadRequest

-----------------------------------------------------------------------------
LEMMA InsertRequestOK == ASSUME RoleInv, NEW u \in Users, Role!InsertRequest(u) PROVE RoleInv'
<1> USE DEF RoleInv
<1>1. CASE Role!HasPending(u)
    <2>1. UNCHANGED << reviewers, request, audit, resolving >>
        BY <1>1 DEF Role!InsertRequest
    <2>2. Role!TypeOK' /\ Referred'
        BY <2>1 DEF Role!TypeOK, Referred, Made, Role!InsertRequest
    <2> QED
        BY <2>1, <2>2, TablesAlone
<1>2. CASE ~Role!HasPending(u)
    <2>1. PICK r \in Requests :
            /\ request[r].status = "none"
            /\ request' = [request EXCEPT ![r] = [status |-> "pending", user |-> u]]
        BY <1>2 DEF Role!InsertRequest
    <2>2. UNCHANGED << reviewers, audit, resolving >>
        BY DEF Role!InsertRequest
    <2>3. audit[r] = << >>
        <3>1. SUFFICES ASSUME audit[r] # << >> PROVE FALSE
            OBVIOUS
        <3>2. audit[r] \in Seq(Role!Verdicts) /\ Len(audit[r]) \in 1..Len(audit[r])
            BY <3>1, EmptySeq DEF Role!TypeOK
        <3>3. audit[r][Len(audit[r])] \in Role!Verdicts
            BY <3>2, ElementOfSeq
        <3> QED
            BY <2>1, <3>1, <3>3 DEF Role!LastVerdictStands, Role!Verdicts
    <2>4. Role!TypeOK'
        BY <2>1, <2>2 DEF Role!TypeOK, Role!Statuses, Role!InsertRequest
    <2>5. Referred'
        BY <2>1, <2>2 DEF Role!TypeOK, Referred, Made
    <2>6. Role!OnePending'
        <3>1. \A s \in Requests : request[s].status = "pending" => request[s].user # u
            BY <1>2 DEF Role!HasPending, Role!IsPending
        <3> QED
            BY <2>1, <3>1 DEF Role!TypeOK, Role!OnePending
    <2>7. Role!ReviewerIsAudited'
        <3>1. \A i \in 1..Len(audit[r]) : FALSE
            BY <2>3
        <3>2. \A s \in Requests : s # r => request'[s] = request[s]
            BY <2>1 DEF Role!TypeOK
        <3> QED
            BY <2>2, <3>1, <3>2 DEF Role!ReviewerIsAudited
    <2>8. Role!LastVerdictStands'
        BY <2>1, <2>2, <2>3 DEF Role!TypeOK, Role!LastVerdictStands
    <2> QED
        BY <2>4, <2>5, <2>6, <2>7, <2>8
<1> QED
    BY <1>1, <1>2

LEMMA ResolveOK == ASSUME RoleInv, NEW a \in Admins, Role!Resolve(a) PROVE RoleInv'
<1> DEFINE r == resolving[a].request
           verdict == resolving[a].verdict
<1>1. /\ r \in Requests /\ Made(r) /\ request[r].user \in Users
      /\ verdict \in Role!Verdicts
    BY DEF RoleInv, Role!TypeOK, Referred, Role!Resolve
<1>2. /\ reviewers' = IF verdict = "approved" THEN reviewers \cup {request[r].user} ELSE reviewers
      /\ request' = [request EXCEPT ![r].status = verdict]
      /\ audit' = [audit EXCEPT ![r] = Append(@, verdict)]
      /\ resolving' = [resolving EXCEPT ![a] = Role!Idle]
      /\ UNCHANGED asking
    BY DEF Role!Resolve
<1> HIDE DEF r, verdict
<1>3. /\ audit[r] \in Seq(Role!Verdicts)
      /\ audit'[r] = Append(audit[r], verdict)
      /\ \A s \in Requests : s # r => audit'[s] = audit[s]
      /\ request'[r].status = verdict
      /\ \A s \in Requests : request'[s].user = request[s].user
      /\ \A s \in Requests : s # r => request'[s] = request[s]
    BY <1>1, <1>2 DEF RoleInv, Role!TypeOK
<1>4. /\ Append(audit[r], verdict) \in Seq(Role!Verdicts)
      /\ Len(Append(audit[r], verdict)) = Len(audit[r]) + 1
      /\ Len(audit[r]) \in Nat
      /\ Append(audit[r], verdict)[Len(audit[r]) + 1] = verdict
      /\ \A i \in 1..Len(audit[r]) : Append(audit[r], verdict)[i] = audit[r][i]
    BY <1>1, <1>3, AppendProperties, LenProperties
<1>5. Role!TypeOK'
    <2>1. audit' \in [Requests -> Seq(Role!Verdicts)]
        BY <1>1, <1>2, <1>4 DEF RoleInv, Role!TypeOK
    <2> QED
        BY <1>1, <1>2, <2>1 DEF RoleInv, Role!TypeOK, Role!Statuses, Role!Verdicts, Role!Idle
<1>6. Referred'
    BY <1>1, <1>2, <1>3 DEF RoleInv, Role!TypeOK, Referred, Made, Role!Verdicts
<1>7. Role!OnePending'
    BY <1>1, <1>3 DEF RoleInv, Role!OnePending, Role!Verdicts
<1>8. Role!ReviewerIsAudited'
    <2>1. \A s \in Requests : \A i \in 1..Len(audit[s]) :
            i \in 1..Len(audit'[s]) /\ audit'[s][i] = audit[s][i]
        BY <1>3, <1>4
    <2>2. \A v \in reviewers : \E s \in Requests :
            request'[s].user = v /\ \E i \in 1..Len(audit'[s]) : audit'[s][i] = "approved"
        BY <1>3, <2>1 DEF RoleInv, Role!ReviewerIsAudited
    <2>3. verdict = "approved" =>
            \E i \in 1..Len(audit'[r]) : audit'[r][i] = "approved"
        BY <1>3, <1>4
    <2> QED
        BY <1>1, <1>2, <1>3, <2>2, <2>3 DEF Role!ReviewerIsAudited
<1>9. Role!LastVerdictStands'
    <2>1. audit'[r] # << >> /\ audit'[r][Len(audit'[r])] = verdict
        BY <1>3, <1>4
    <2> QED
        BY <1>3, <2>1 DEF RoleInv, Role!LastVerdictStands
<1> QED
    BY <1>5, <1>6, <1>7, <1>8, <1>9 DEF RoleInv

-----------------------------------------------------------------------------
LEMMA RoleStep == ASSUME RoleInv, [Role!Next]_(Role!vars) PROVE RoleInv'
<1>1. CASE UNCHANGED Role!vars
    <2>1. Role!TypeOK' /\ Referred'
        BY <1>1 DEF RoleInv, Role!TypeOK, Referred, Made, Role!vars
    <2> QED
        BY <1>1, <2>1, TablesAlone DEF Role!vars, RoleInv
<1>2. ASSUME NEW u \in Users,
             Role!ReadRoles(u) \/ Role!ReadPending(u) \/ Role!InsertRequest(u)
      PROVE  RoleInv'
    BY <1>2, ReadRolesOK, ReadPendingOK, InsertRequestOK
<1>3. ASSUME NEW a \in Admins, NEW r \in Requests, NEW verdict \in Role!Verdicts,
             Role!ReadRequest(a, r, verdict)
      PROVE  RoleInv'
    BY <1>3, ReadRequestOK
<1>4. ASSUME NEW a \in Admins, Role!Resolve(a) \/ Role!RollBack(a) PROVE RoleInv'
    BY <1>4, ResolveOK, RollBackOK
<1> QED
    BY <1>1, <1>2, <1>3, <1>4 DEF Role!Next

LEMMA RoleInductive == MembershipSpec => []RoleInv
<1>1. MembershipInit => RoleInv
    BY RoleInit DEF MembershipInit
<1>2. RoleInv /\ [CircleNext \/ RoleNext]_<< part, vars, roleVars >> => RoleInv'
    <2> SUFFICES ASSUME RoleInv, [CircleNext \/ RoleNext]_<< part, vars, roleVars >>
                 PROVE  RoleInv'
        OBVIOUS
    <2>1. [Role!Next]_(Role!vars)
        BY DEF CircleNext, RoleNext, roleVars, Role!vars
    <2> QED
        BY <2>1, RoleStep
<1> QED
    BY <1>1, <1>2, PTL DEF MembershipSpec

(* The tables and the calls are what they are declared to be, whatever     *)
(* overlaps: requestReviewerRole and resolveReviewerRequest.               *)
THEOREM RoleTypeCorrect == MembershipSpec => []Role!TypeOK
BY RoleInductive, PTL DEF RoleInv

(* A user has one pending request at most, though the look-up and the      *)
(* insertion are two statements.                                           *)
THEOREM OnePendingAlways == MembershipSpec => []Role!OnePending
BY RoleInductive, PTL DEF RoleInv

(* The audit trail explains the roles and the requests, however many       *)
(* administrators resolve a request at once: of two verdicts that cross,   *)
(* the one that commits last is also recorded last.                        *)
THEOREM AuditIsComplete == MembershipSpec => []AuditExplains
<1>1. RoleInv => AuditExplains
    BY DEF RoleInv, AuditExplains, Role!AuditExplains
<1>2. QED
    BY <1>1, RoleInductive, PTL
=============================================================================
