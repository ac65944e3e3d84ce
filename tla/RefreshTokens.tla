---------------------------- MODULE RefreshTokens ----------------------------
(***************************************************************************)
(* Refresh sessions of one user: sign-in, rotation, sign-out and password  *)
(* reset in AuthService, and the phones that hold the tokens (api.ts,      *)
(* secure-session.ts, the sign-out buttons).                               *)
(*                                                                         *)
(* Rotation and logout lock the row of their token; rotation then inserts  *)
(* the successor, which as a child of the users row needs that row to be   *)
(* free of another transaction's FOR UPDATE; a password reset locks the    *)
(* users row and then every live token.  A rotation and a reset can so     *)
(* wait for each other, and the database aborts one of them.               *)
(*                                                                         *)
(* The expiry of tokens (30 days) is left out.  A lost request is a        *)
(* request that fails; a phone that is killed loses the answer.            *)
(***************************************************************************)
EXTENDS Naturals

CONSTANTS Phones,     \* the user's devices
          Tokens,     \* identities auth_refresh_sessions may hand out
          NoToken,    \* no token
          MaxLost     \* bound on the answers that are lost after a commit

ASSUME NoTokenAssumption == NoToken \notin Tokens
ASSUME LostAssumption == MaxLost \in Nat

VARIABLES row,       \* auth_refresh_sessions
          stored,    \* the refresh token each phone has in its secure store
          signIn,    \* the sign-in each phone has under way
          refresh,   \* the refresh each phone has under way (refreshInFlight)
          logout,    \* the sign-out each phone has under way
          reset,     \* a password reset: "idle", "locked" or "done"
          signedOut, \* history: the phones whose user has signed out last
          lost

rows == << row >>
phone == << stored, signedOut >>
calls == << signIn, refresh, logout >>
vars == << row, stored, signIn, refresh, logout, reset, signedOut, lost >>

-----------------------------------------------------------------------------
NoRow == [status |-> "none", chain |-> NoToken]
Rows == [status : {"none", "live", "revoked"}, chain : Tokens \cup {NoToken}]

NoCall == [at |-> "idle", token |-> NoToken, next |-> NoToken]
Stages == {"idle", "sent", "locked", "answered", "failed"}
Calls == [at : Stages, token : Tokens \cup {NoToken}, next : Tokens \cup {NoToken}]

Live(t) == row[t].status = "live"
LiveTokens == {t \in Tokens : Live(t)}

(* A sign-in opens a chain, named by its first token; rotation goes on in  *)
(* the same chain.                                                         *)
Insert(t, chain) == [row EXCEPT ![t] = [status |-> "live", chain |-> chain]]

(* Row locks follow from how far a transaction has come.                   *)
Locks(p, t) ==
    \/ refresh[p].at = "locked" /\ refresh[p].token = t
    \/ logout[p].at = "locked" /\ logout[p].token = t
Free(t) == \A p \in Phones : ~Locks(p, t)
UserFree == reset # "locked"
Fresh == {t \in Tokens : row[t].status = "none"}

Init ==
    /\ row = [t \in Tokens |-> NoRow]
    /\ stored = [p \in Phones |-> NoToken]
    /\ signIn = [p \in Phones |-> "idle"]
    /\ refresh = [p \in Phones |-> NoCall]
    /\ logout = [p \in Phones |-> NoCall]
    /\ reset = "idle"
    /\ signedOut = [p \in Phones |-> FALSE]
    /\ lost = 0

-----------------------------------------------------------------------------
(* passwordAuth.  The password is checked in one transaction, and the      *)
(* token is issued in a second one; the answer may be lost.                *)

CheckPassword(p) ==
    /\ stored[p] = NoToken /\ signIn[p] = "idle" /\ logout[p].at = "idle"
    /\ UserFree
    /\ signIn' = [signIn EXCEPT ![p] = "checked"]
    /\ UNCHANGED << rows, phone, refresh, logout, reset, lost >>

IssueRefreshToken(p) ==
    /\ signIn[p] = "checked" /\ UserFree
    /\ \E t \in Fresh :
        /\ row' = Insert(t, t)
        /\ \/ /\ stored' = [stored EXCEPT ![p] = t]
              /\ signedOut' = [signedOut EXCEPT ![p] = FALSE]
              /\ UNCHANGED lost
           \/ /\ lost < MaxLost
              /\ lost' = lost + 1
              /\ UNCHANGED phone
    /\ signIn' = [signIn EXCEPT ![p] = "idle"]
    /\ UNCHANGED << refresh, logout, reset >>

-----------------------------------------------------------------------------
(* refreshSecureAccessToken and AuthService.refresh. *)

(* Fault: every request that is answered 401 refreshes for itself, and a   *)
(* second refresh goes out with the token the first one has rotated.       *)
RefreshAgain(p) ==
    /\ stored[p] # NoToken /\ refresh[p].at \in {"idle", "answered"}
    /\ refresh' = [refresh EXCEPT ![p] = [at |-> "sent", token |-> stored[p], next |-> NoToken]]
    /\ UNCHANGED << rows, phone, signIn, logout, reset, lost >>

(* A request has been answered 401; one refresh is under way at a time,    *)
(* and whoever needs another waits for it.                                 *)
Refresh(p) ==
    /\ stored[p] # NoToken /\ refresh[p].at = "idle"
    /\ refresh' = [refresh EXCEPT ![p] = [at |-> "sent", token |-> stored[p], next |-> NoToken]]
    /\ UNCHANGED << rows, phone, signIn, logout, reset, lost >>

(* Fault: the row is read without FOR UPDATE.                              *)
RotateReadOnly(p) ==
    /\ refresh[p].at = "sent"
    /\ refresh' = [refresh EXCEPT ![p].at = IF Live(refresh[p].token) THEN "locked" ELSE "failed"]
    /\ UNCHANGED << rows, phone, signIn, logout, reset, lost >>

(* select ... for update, and the check of revoked_at.                     *)
RotateLock(p) ==
    /\ refresh[p].at = "sent" /\ Free(refresh[p].token)
    /\ refresh' = [refresh EXCEPT ![p].at = IF Live(refresh[p].token) THEN "locked" ELSE "failed"]
    /\ UNCHANGED << rows, phone, signIn, logout, reset, lost >>

(* The successor is inserted, the token revoked, the transaction commits.  *)
RotateCommit(p) ==
    /\ refresh[p].at = "locked" /\ UserFree
    /\ LET current == refresh[p].token IN
       \E t \in Fresh :
        /\ row' = [Insert(t, row[current].chain) EXCEPT ![current].status = "revoked"]
        /\ refresh' = [refresh EXCEPT ![p] = [at |-> "answered", token |-> current, next |-> t]]
    /\ UNCHANGED << phone, signIn, logout, reset, lost >>

(* What follows the commit fails and the phone is answered 401, or the     *)
(* answer is lost, or the phone is killed before it has stored it.         *)
LoseAnswer(p) ==
    /\ refresh[p].at = "answered" /\ lost < MaxLost
    /\ refresh' = [refresh EXCEPT ![p].at = "failed"]
    /\ lost' = lost + 1
    /\ UNCHANGED << rows, phone, signIn, logout, reset >>

(* saveSecureSession and restoreSecureAuth, whatever the user has done.    *)
StoreAnswer(p) ==
    /\ refresh[p].at = "answered"
    /\ stored' = [stored EXCEPT ![p] = refresh[p].next]
    /\ refresh' = [refresh EXCEPT ![p] = NoCall]
    /\ UNCHANGED << rows, signIn, logout, reset, signedOut, lost >>

(* Fault: refreshInFlight is cleared after a success only.                 *)
RefreshFailedHangs(p) ==
    /\ refresh[p].at = "failed"
    /\ UNCHANGED vars

(* The token stays in the store.                                           *)
RefreshFailed(p) ==
    /\ refresh[p].at = "failed"
    /\ refresh' = [refresh EXCEPT ![p] = NoCall]
    /\ UNCHANGED << rows, phone, signIn, logout, reset, lost >>

-----------------------------------------------------------------------------
(* Sign-out: logout, whose failure is ignored, and clearAuthSession. *)

SignOut(p) ==
    /\ stored[p] # NoToken /\ logout[p].at = "idle"
    /\ logout' = [logout EXCEPT ![p] = [at |-> "sent", token |-> stored[p], next |-> NoToken]]
    /\ UNCHANGED << rows, phone, signIn, refresh, reset, lost >>

LogoutLock(p) ==
    /\ logout[p].at = "sent" /\ Free(logout[p].token)
    /\ logout' = [logout EXCEPT ![p].at = IF Live(logout[p].token) THEN "locked" ELSE "failed"]
    /\ UNCHANGED << rows, phone, signIn, refresh, reset, lost >>

LogoutCommit(p) ==
    /\ logout[p].at = "locked"
    /\ row' = [row EXCEPT ![logout[p].token].status = "revoked"]
    /\ logout' = [logout EXCEPT ![p].at = "answered"]
    /\ UNCHANGED << phone, signIn, refresh, reset, lost >>

(* No connection.                                                          *)
LogoutLost(p) ==
    /\ logout[p].at = "sent"
    /\ logout' = [logout EXCEPT ![p].at = "failed"]
    /\ UNCHANGED << rows, phone, signIn, refresh, reset, lost >>

ClearAuthSession(p) ==
    /\ logout[p].at \in {"answered", "failed"}
    /\ stored' = [stored EXCEPT ![p] = NoToken]
    /\ signedOut' = [signedOut EXCEPT ![p] = TRUE]
    /\ logout' = [logout EXCEPT ![p] = NoCall]
    /\ UNCHANGED << rows, signIn, refresh, reset, lost >>

-----------------------------------------------------------------------------
(* resetPassword. *)


(* The users row is locked and the code is right.                          *)
ResetLock ==
    /\ reset \in {"idle", "done"}
    /\ reset' = "locked"
    /\ UNCHANGED << rows, phone, calls, lost >>

(* Fault: the UPDATE skips the rows that are locked.                       *)
ResetRevokeFree ==
    /\ reset = "locked"
    /\ reset' = "done"
    /\ row' = [t \in Tokens |->
                 IF Live(t) /\ Free(t) THEN [row[t] EXCEPT !.status = "revoked"] ELSE row[t]]
    /\ UNCHANGED << phone, calls, lost >>

(* The UPDATE of the live tokens waits for those that are locked.          *)
ResetRevoke ==
    /\ reset = "locked"
    /\ \A t \in LiveTokens : Free(t)
    /\ row' = [t \in Tokens |-> IF Live(t) THEN [row[t] EXCEPT !.status = "revoked"] ELSE row[t]]
    /\ reset' = "done"
    /\ UNCHANGED << phone, calls, lost >>

(* A rotation that needs the users row and a reset that needs its token:   *)
(* the database aborts one of them.                                        *)
BreakDeadlock(p) ==
    /\ reset = "locked" /\ refresh[p].at = "locked"
    /\ \/ refresh' = [refresh EXCEPT ![p].at = "failed"] /\ UNCHANGED reset
       \/ reset' = "idle" /\ UNCHANGED refresh
    /\ UNCHANGED << rows, phone, signIn, logout, lost >>

-----------------------------------------------------------------------------
Step(p) ==
    \/ CheckPassword(p) \/ IssueRefreshToken(p)
    \/ Refresh(p) \/ RotateLock(p) \/ RotateCommit(p)
    \/ LoseAnswer(p) \/ StoreAnswer(p) \/ RefreshFailed(p)
    \/ SignOut(p) \/ LogoutLock(p) \/ LogoutCommit(p) \/ LogoutLost(p) \/ ClearAuthSession(p)
    \/ BreakDeadlock(p)

Next == (\E p \in Phones : Step(p)) \/ ResetLock \/ ResetRevoke

Spec == Init /\ [][Next]_vars

(* The server goes on with what it has begun, the database breaks a        *)
(* deadlock and lets the transactions that wait for a row have it in turn, *)
(* and the phone hears the answers.                                        *)
FairSpec ==
    /\ Spec
    /\ WF_vars(ResetRevoke)
    /\ \A p \in Phones :
        /\ WF_vars(RotateLock(p)) /\ SF_vars(RotateCommit(p)) /\ WF_vars(BreakDeadlock(p))
        /\ WF_vars(StoreAnswer(p)) /\ WF_vars(RefreshFailed(p))
        /\ WF_vars(LogoutLock(p)) /\ WF_vars(LogoutCommit(p)) /\ WF_vars(ClearAuthSession(p))

-----------------------------------------------------------------------------
TypeOK ==
    /\ row \in [Tokens -> Rows]
    /\ stored \in [Phones -> Tokens \cup {NoToken}]
    /\ signIn \in [Phones -> {"idle", "checked"}]
    /\ refresh \in [Phones -> Calls]
    /\ logout \in [Phones -> Calls]
    /\ reset \in {"idle", "locked", "done"}
    /\ signedOut \in [Phones -> BOOLEAN]
    /\ lost \in 0..MaxLost

(* However rotations, sign-outs and resets interleave, a session has one   *)
(* token that is valid, or none: a rotated token can never be used again   *)
(* beside its successor.                                                   *)
OneLivePerChain ==
    \A t, u \in Tokens : Live(t) /\ Live(u) /\ row[t].chain = row[u].chain => t = u

(* Two transactions never hold the row of one token, and whoever holds it  *)
(* still finds the token valid.                                            *)
LockedIsLive ==
    \A p \in Phones : \A t \in Tokens :
        Locks(p, t) =>
            /\ Live(t)
            /\ \A q \in Phones : Locks(q, t) => q = p
            /\ ~(refresh[p].at = "locked" /\ logout[p].at = "locked"
                 /\ refresh[p].token = logout[p].token)

(* A password reset ends every session: none that was being rotated at the *)
(* time slips through it.                                                  *)
ResetEndsAll == [][reset = "locked" /\ reset' = "done" => \A t \in Tokens : ~Live(t)']_vars

(* While no answer is lost, the token a phone has stored is its session's  *)
(* valid one, unless the session has ended or the phone is refreshing it.  *)
PhoneHoldsLive ==
    lost = 0 =>
        \A p \in Phones : stored[p] # NoToken =>
            \/ Live(stored[p])
            \/ refresh[p].at = "answered" /\ refresh[p].token = stored[p]
            \/ \A t \in Tokens : row[t].chain = row[stored[p]].chain => ~Live(t)

(* The rows implement the abstract record: a chain lives while one of its  *)
(* tokens does, and a chain that has ended stays ended.                    *)
Standing(c) ==
    IF row[c].chain # c THEN "none"
    ELSE IF \E t \in Tokens : Live(t) /\ row[t].chain = c THEN "live"
    ELSE "ended"

Book == INSTANCE SessionBook WITH Chains <- Tokens,
                                  standing <- [c \in Tokens |-> Standing(c)]
ImplementsBook == Book!BookSpec

(* A refresh ends, though a reset may wait for its token and it for the    *)
(* reset's users row, or the model runs out of tokens.                     *)
RefreshEnds ==
    \A p \in Phones : refresh[p].at = "sent" ~> refresh[p].at = "idle" \/ Fresh = {}

(* Once the user has signed out, the phone holds no session until the next *)
(* sign-in: "Local sign-out should still work if the network is            *)
(* unavailable", as the sign-out handlers say.                             *)
SignOutStands == \A p \in Phones : signedOut[p] => stored[p] = NoToken
=============================================================================
