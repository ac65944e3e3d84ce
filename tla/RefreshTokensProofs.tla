-------------------------- MODULE RefreshTokensProofs --------------------------
(***************************************************************************)
(* RefreshTokens proved for any number of phones and tokens: one valid     *)
(* token in a session, the row locks, the refinement of SessionBook, and   *)
(* that a phone whose answers arrive holds its session's valid token.      *)
(*                                                                         *)
(* Core is what the server keeps by its locks; Owned and NextIsNew say     *)
(* which phone a session belongs to, and that nobody uses the successor of *)
(* a token before its phone has stored it.                                 *)
(***************************************************************************)
EXTENDS RefreshTokens, TLAPS

Issued(t) == t \in Tokens /\ row[t].status # "none"

(* A token's session is named by its first token, and has a row.           *)
RowsOK ==
    \A t \in Tokens :
        IF row[t].status = "none" THEN row[t] = NoRow
        ELSE row[t].chain \in Tokens /\ row[row[t].chain].chain = row[t].chain

CallsOK ==
    \A p \in Phones :
        /\ stored[p] # NoToken => Issued(stored[p])
        /\ refresh[p].at # "idle" => Issued(refresh[p].token)
        /\ refresh[p].at = "answered" => Issued(refresh[p].next)
        /\ logout[p].at # "idle" => Issued(logout[p].token)

Core == TypeOK /\ RowsOK /\ CallsOK /\ LockedIsLive /\ OneLivePerChain

-----------------------------------------------------------------------------
LEMMA InitCore == Init => Core
<1> SUFFICES ASSUME Init PROVE Core
    OBVIOUS
<1>1. TypeOK
    BY LostAssumption DEF Init, TypeOK, Rows, NoRow, NoCall, Calls, Stages
<1>2. RowsOK /\ CallsOK /\ LockedIsLive /\ OneLivePerChain
    BY DEF Init, RowsOK, CallsOK, LockedIsLive, OneLivePerChain, Locks, Live, NoRow, NoCall
<1> QED
    BY <1>1, <1>2 DEF Core

(* Steps that leave the rows alone and lock none: what they change are the *)
(* calls and what a phone has stored.                                      *)
LEMMA RowsAlone ==
    ASSUME Core, row' = row, TypeOK', CallsOK',
           \A p \in Phones, t \in Tokens : Locks(p, t)' => Locks(p, t),
           \A p \in Phones : refresh'[p].at = "locked" =>
                refresh[p].at = "locked" /\ refresh'[p].token = refresh[p].token,
           \A p \in Phones : logout'[p].at = "locked" =>
                logout[p].at = "locked" /\ logout'[p].token = logout[p].token
    PROVE  Core'
<1>1. RowsOK' /\ OneLivePerChain'
    BY DEF Core, RowsOK, OneLivePerChain, Live
<1>2. LockedIsLive'
    BY DEF Core, LockedIsLive, Live
<1> QED
    BY <1>1, <1>2 DEF Core

LEMMA QuietStepCore ==
    ASSUME Core, NEW p \in Phones,
           \/ CheckPassword(p) \/ Refresh(p) \/ LoseAnswer(p) \/ StoreAnswer(p)
           \/ RefreshFailed(p) \/ SignOut(p) \/ LogoutLost(p) \/ ClearAuthSession(p)
           \/ BreakDeadlock(p)
    PROVE  Core'
<1> USE DEF Core, TypeOK, Calls, Stages, phone, rows
<1>1. CASE CheckPassword(p)
    <2>1. TypeOK' /\ CallsOK'
        BY <1>1 DEF CheckPassword, CallsOK, Issued
    <2> QED
        BY <1>1, <2>1, RowsAlone DEF CheckPassword, Locks
<1>2. CASE Refresh(p)
    <2>1. TypeOK' /\ CallsOK'
        BY <1>2 DEF Refresh, CallsOK, Issued
    <2> QED
        BY <1>2, <2>1, RowsAlone DEF Refresh, Locks
<1>3. CASE LoseAnswer(p)
    <2>1. TypeOK' /\ CallsOK'
        BY <1>3, LostAssumption DEF LoseAnswer, CallsOK, Issued
    <2> QED
        BY <1>3, <2>1, RowsAlone DEF LoseAnswer, Locks
<1>4. CASE StoreAnswer(p)
    <2>1. TypeOK' /\ CallsOK'
        BY <1>4 DEF StoreAnswer, CallsOK, Issued, NoCall
    <2> QED
        BY <1>4, <2>1, RowsAlone DEF StoreAnswer, Locks, NoCall
<1>5. CASE RefreshFailed(p)
    <2>1. TypeOK' /\ CallsOK'
        BY <1>5 DEF RefreshFailed, CallsOK, Issued, NoCall
    <2> QED
        BY <1>5, <2>1, RowsAlone DEF RefreshFailed, Locks, NoCall
<1>6. CASE SignOut(p)
    <2>1. TypeOK' /\ CallsOK'
        BY <1>6 DEF SignOut, CallsOK, Issued
    <2> QED
        BY <1>6, <2>1, RowsAlone DEF SignOut, Locks
<1>7. CASE LogoutLost(p)
    <2>1. TypeOK' /\ CallsOK'
        BY <1>7 DEF LogoutLost, CallsOK, Issued
    <2> QED
        BY <1>7, <2>1, RowsAlone DEF LogoutLost, Locks
<1>8. CASE ClearAuthSession(p)
    <2>1. TypeOK' /\ CallsOK'
        BY <1>8 DEF ClearAuthSession, CallsOK, Issued, NoCall
    <2> QED
        BY <1>8, <2>1, RowsAlone DEF ClearAuthSession, Locks, NoCall
<1>9. CASE BreakDeadlock(p)
    <2>1. TypeOK' /\ CallsOK'
        BY <1>9 DEF BreakDeadlock, CallsOK, Issued
    <2> QED
        BY <1>9, <2>1, RowsAlone DEF BreakDeadlock, Locks
<1> QED
    BY <1>1, <1>2, <1>3, <1>4, <1>5, <1>6, <1>7, <1>8, <1>9

LEMMA ResetLockCore == ASSUME Core, ResetLock PROVE Core'
<1>1. TypeOK' /\ CallsOK'
    BY DEF Core, TypeOK, CallsOK, Issued, ResetLock, rows, phone, calls
<1> QED
    BY <1>1, RowsAlone DEF ResetLock, rows, calls, Locks

LEMMA StutterCore == ASSUME Core, UNCHANGED vars PROVE Core'
<1>1. TypeOK' /\ CallsOK'
    BY DEF Core, TypeOK, CallsOK, Issued, vars
<1> QED
    BY <1>1, RowsAlone DEF vars, Locks

-----------------------------------------------------------------------------
(* A lock is granted on a row that is free, and kept if it is live.        *)
LEMMA RotateLockCore == ASSUME Core, NEW p \in Phones, RotateLock(p) PROVE Core'
<1> USE DEF Core, RotateLock, rows, phone
<1>1. TypeOK' /\ CallsOK'
    BY DEF TypeOK, Calls, Stages, CallsOK, Issued
<1>2. RowsOK' /\ OneLivePerChain'
    BY DEF RowsOK, OneLivePerChain, Live
<1>3. LockedIsLive'
    BY DEF TypeOK, Calls, Stages, LockedIsLive, Locks, Live, Free, CallsOK, Issued
<1> QED
    BY <1>1, <1>2, <1>3

LEMMA LogoutLockCore == ASSUME Core, NEW p \in Phones, LogoutLock(p) PROVE Core'
<1> USE DEF Core, LogoutLock, rows, phone
<1>1. TypeOK' /\ CallsOK'
    BY DEF TypeOK, Calls, Stages, CallsOK, Issued
<1>2. RowsOK' /\ OneLivePerChain'
    BY DEF RowsOK, OneLivePerChain, Live
<1>3. LockedIsLive'
    BY DEF TypeOK, Calls, Stages, LockedIsLive, Locks, Live, Free, CallsOK, Issued
<1> QED
    BY <1>1, <1>2, <1>3

-----------------------------------------------------------------------------
(* A fresh token is nobody's: it is in no session and in no call.          *)
LEMMA FreshIsNew ==
    ASSUME Core, NEW t \in Fresh
    PROVE  /\ t \in Tokens /\ row[t] = NoRow /\ ~Live(t)
           /\ \A u \in Tokens : row[u].chain # t
           /\ \A p \in Phones : ~Locks(p, t)
BY NoTokenAssumption
   DEF Core, TypeOK, RowsOK, CallsOK, Issued, Fresh, Live, NoRow, Locks

LEMMA IssueCore == ASSUME Core, NEW p \in Phones, IssueRefreshToken(p) PROVE Core'
<1>1. PICK t \in Fresh :
        /\ row' = Insert(t, t)
        /\ \/ /\ stored' = [stored EXCEPT ![p] = t]
              /\ signedOut' = [signedOut EXCEPT ![p] = FALSE]
              /\ UNCHANGED lost
           \/ /\ lost < MaxLost
              /\ lost' = lost + 1
              /\ UNCHANGED phone
    BY DEF IssueRefreshToken
<1>2. UNCHANGED << refresh, logout, reset >> /\ signIn' = [signIn EXCEPT ![p] = "idle"]
    BY DEF IssueRefreshToken
<1>3. /\ t \in Tokens /\ ~Live(t) /\ row[t] = NoRow
      /\ \A u \in Tokens : row[u].chain # t
      /\ \A q \in Phones : ~Locks(q, t)
    BY FreshIsNew
<1>4. /\ row'[t] = [status |-> "live", chain |-> t]
      /\ \A u \in Tokens : u # t => row'[u] = row[u]
      /\ row' \in [Tokens -> Rows]
    BY <1>1, <1>3 DEF Core, TypeOK, Insert, Rows
<1>5. TypeOK'
    <2>1. /\ stored' \in [Phones -> Tokens \cup {NoToken}]
          /\ signedOut' \in [Phones -> BOOLEAN]
        BY <1>1, <1>3 DEF Core, TypeOK, phone
    <2>2. lost' \in 0..MaxLost
        BY <1>1, LostAssumption DEF Core, TypeOK
    <2> QED
        BY <1>2, <1>4, <2>1, <2>2 DEF Core, TypeOK
<1>6. RowsOK'
    BY <1>3, <1>4 DEF Core, RowsOK, NoRow
<1>7. CallsOK'
    BY <1>1, <1>2, <1>3, <1>4 DEF Core, TypeOK, CallsOK, Issued, phone
<1>8. LockedIsLive'
    BY <1>2, <1>3, <1>4 DEF Core, LockedIsLive, Locks, Live
<1>9. OneLivePerChain'
    BY <1>3, <1>4 DEF Core, OneLivePerChain, Live
<1> QED
    BY <1>5, <1>6, <1>7, <1>8, <1>9 DEF Core

(* What a rotation does to the rows.                                       *)
LEMMA RotateRows ==
    ASSUME Core, NEW p \in Phones, RotateCommit(p)
    PROVE  \E t, current \in Tokens :
             /\ refresh[p].at = "locked" /\ refresh[p].token = current
             /\ t \in Fresh /\ t # current /\ Live(current)
             /\ row[current].chain \in Tokens
             /\ row' \in [Tokens -> Rows]
             /\ row'[t] = [status |-> "live", chain |-> row[current].chain]
             /\ row'[current] = [status |-> "revoked", chain |-> row[current].chain]
             /\ \A u \in Tokens : u \notin {t, current} => row'[u] = row[u]
             /\ refresh' = [refresh EXCEPT ![p] = [at |-> "answered", token |-> current, next |-> t]]
             /\ UNCHANGED << phone, signIn, logout, reset, lost >>
<1> DEFINE current == refresh[p].token
<1>1. /\ refresh[p].at = "locked"
      /\ UNCHANGED << phone, signIn, logout, reset, lost >>
      /\ \E t \in Fresh :
            /\ row' = [Insert(t, row[current].chain) EXCEPT ![current].status = "revoked"]
            /\ refresh' = [refresh EXCEPT ![p] = [at |-> "answered", token |-> current, next |-> t]]
    BY DEF RotateCommit
<1>2. PICK t \in Fresh :
        /\ row' = [Insert(t, row[current].chain) EXCEPT ![current].status = "revoked"]
        /\ refresh' = [refresh EXCEPT ![p] = [at |-> "answered", token |-> current, next |-> t]]
    BY <1>1
<1>3. current \in Tokens /\ Live(current) /\ row[current].chain \in Tokens
    BY <1>1 DEF Core, CallsOK, Issued, LockedIsLive, Locks, RowsOK, Live
<1>4. t \in Tokens /\ t # current
    BY <1>3, FreshIsNew
<1>5. row[current] \in Rows /\ row \in [Tokens -> Rows]
    BY <1>3 DEF Core, TypeOK
<1> HIDE DEF current
<1>6. /\ row' \in [Tokens -> Rows]
      /\ row'[t] = [status |-> "live", chain |-> row[current].chain]
      /\ row'[current] = [status |-> "revoked", chain |-> row[current].chain]
      /\ \A u \in Tokens : u \notin {t, current} => row'[u] = row[u]
    BY <1>2, <1>3, <1>4, <1>5 DEF Insert, Rows
<1> QED
    BY <1>1, <1>2, <1>3, <1>4, <1>6 DEF current

LEMMA RotateCommitCore == ASSUME Core, NEW p \in Phones, RotateCommit(p) PROVE Core'
<1>1. PICK t, current \in Tokens :
        /\ refresh[p].at = "locked" /\ refresh[p].token = current
        /\ t \in Fresh /\ t # current /\ Live(current)
        /\ row[current].chain \in Tokens
        /\ row' \in [Tokens -> Rows]
        /\ row'[t] = [status |-> "live", chain |-> row[current].chain]
        /\ row'[current] = [status |-> "revoked", chain |-> row[current].chain]
        /\ \A u \in Tokens : u \notin {t, current} => row'[u] = row[u]
        /\ refresh' = [refresh EXCEPT ![p] = [at |-> "answered", token |-> current, next |-> t]]
        /\ UNCHANGED << phone, signIn, logout, reset, lost >>
    BY RotateRows
<1>3. /\ row[t] = NoRow /\ ~Live(t)
      /\ \A u \in Tokens : row[u].chain # t
      /\ \A q \in Phones : ~Locks(q, t)
    BY <1>1, FreshIsNew
<1>4. /\ refresh'[p] = [at |-> "answered", token |-> current, next |-> t]
      /\ \A q \in Phones : q # p => refresh'[q] = refresh[q]
      /\ refresh' \in [Phones -> Calls]
    <2>1. refresh \in [Phones -> Calls]
        BY DEF Core, TypeOK
    <2>2. [at |-> "answered", token |-> current, next |-> t] \in Calls
        BY <1>1 DEF Calls, Stages
    <2> QED
        BY <1>1, <2>1, <2>2
<1>9. TypeOK'
    BY <1>1, <1>4 DEF Core, TypeOK, phone
<1>5. RowsOK'
    BY <1>1, <1>3 DEF Core, RowsOK, NoRow, Live
<1>6. CallsOK'
    <2>1. \A u \in Tokens : row[u].status # "none" => row'[u].status # "none"
        BY <1>1
    <2>2. row'[t].status # "none" /\ row'[current].status # "none"
        BY <1>1
    <2>3. stored' = stored /\ logout' = logout
        BY <1>1 DEF phone
    <2>4. \A q \in Phones : q # p => /\ refresh'[q].at = refresh[q].at
                                    /\ refresh'[q].token = refresh[q].token
                                    /\ refresh'[q].next = refresh[q].next
        BY <1>4
    <2>5. refresh'[p].token = current /\ refresh'[p].next = t
        BY <1>4
    <2> QED
        BY <2>1, <2>2, <2>3, <2>4, <2>5 DEF Core, CallsOK, Issued
<1>7. LockedIsLive'
    <2>1. \A q \in Phones, u \in Tokens : Locks(q, u)' => Locks(q, u)
        BY <1>1, <1>4 DEF Locks
    <2>2. \A q \in Phones : ~Locks(q, current)'
        BY <1>1, <1>4 DEF Core, LockedIsLive, Locks
    <2>3. \A q \in Phones : refresh'[q].at = "locked" =>
            refresh[q].at = "locked" /\ refresh'[q].token = refresh[q].token
        BY <1>4
    <2>4. \A q \in Phones, u \in Tokens : Locks(q, u)' =>
            Locks(q, u) /\ u # current /\ u # t /\ Live(u)'
        <3> SUFFICES ASSUME NEW q \in Phones, NEW u \in Tokens, Locks(q, u)'
                     PROVE  Locks(q, u) /\ u # current /\ u # t /\ Live(u)'
            OBVIOUS
        <3>1. Locks(q, u) /\ u # current /\ u # t
            BY <1>3, <2>1, <2>2
        <3>2. Live(u)
            BY <3>1 DEF Core, LockedIsLive
        <3> QED
            BY <1>1, <3>1, <3>2 DEF Live
    <2> QED
        BY <1>1, <2>3, <2>4 DEF Core, LockedIsLive
<1>8. OneLivePerChain'
    BY <1>1 DEF Core, OneLivePerChain, Live
<1> QED
    BY <1>5, <1>6, <1>7, <1>8, <1>9 DEF Core

LEMMA LogoutCommitCore == ASSUME Core, NEW p \in Phones, LogoutCommit(p) PROVE Core'
<1> DEFINE current == logout[p].token
<1>1. /\ logout[p].at = "locked"
      /\ row' = [row EXCEPT ![current].status = "revoked"]
      /\ logout' = [logout EXCEPT ![p].at = "answered"]
      /\ UNCHANGED << phone, signIn, refresh, reset, lost >>
    BY DEF LogoutCommit
<1>2. current \in Tokens /\ Live(current)
    BY <1>1 DEF Core, CallsOK, Issued, LockedIsLive, Locks
<1>3. /\ row' \in [Tokens -> Rows]
      /\ row'[current] = [status |-> "revoked", chain |-> row[current].chain]
      /\ \A u \in Tokens : u # current => row'[u] = row[u]
    BY <1>1, <1>2 DEF Core, TypeOK, Rows
<1>4. TypeOK'
    BY <1>1, <1>3 DEF Core, TypeOK, phone, Calls, Stages
<1>5. RowsOK'
    BY <1>2, <1>3 DEF Core, RowsOK, Live
<1>6. CallsOK'
    BY <1>1, <1>3 DEF Core, TypeOK, CallsOK, Issued, phone, Calls
<1>7. LockedIsLive'
    <2>1. \A q \in Phones, u \in Tokens : Locks(q, u)' => Locks(q, u)
        BY <1>1 DEF Core, TypeOK, Locks, Calls
    <2>2. \A q \in Phones : ~Locks(q, current)'
        BY <1>1, <1>2 DEF Core, TypeOK, LockedIsLive, Locks, Calls
    <2>3. \A q \in Phones : logout'[q].at = "locked" =>
            logout[q].at = "locked" /\ logout'[q].token = logout[q].token
        BY <1>1 DEF Core, TypeOK, Calls
    <2> QED
        BY <1>1, <1>3, <2>1, <2>2, <2>3 DEF Core, LockedIsLive, Live
<1>8. OneLivePerChain'
    BY <1>2, <1>3 DEF Core, OneLivePerChain, Live
<1> QED
    BY <1>4, <1>5, <1>6, <1>7, <1>8 DEF Core

LEMMA ResetRevokeCore == ASSUME Core, ResetRevoke PROVE Core'
<1>1. /\ \A t \in Tokens : Live(t) => Free(t)
      /\ row' = [t \in Tokens |->
                   IF Live(t) THEN [row[t] EXCEPT !.status = "revoked"] ELSE row[t]]
      /\ reset' = "done" /\ UNCHANGED << stored, signedOut, signIn, refresh, logout, lost >>
    BY DEF ResetRevoke, LiveTokens, phone, calls
<1>2. \A t \in Tokens : /\ row'[t] \in Rows /\ row'[t].chain = row[t].chain
                        /\ row'[t].status # "live"
                        /\ row'[t].status = "none" <=> row[t].status = "none"
                        /\ row'[t].status = "none" => row'[t] = row[t]
    BY <1>1 DEF Core, TypeOK, Rows, Live
<1>3. TypeOK'
    BY <1>1, <1>2 DEF Core, TypeOK
<1>4. RowsOK' /\ OneLivePerChain'
    BY <1>2 DEF Core, RowsOK, OneLivePerChain, Live
<1>5. CallsOK'
    BY <1>1, <1>2 DEF Core, CallsOK, Issued
<1>6. LockedIsLive'
    <2>1. \A p \in Phones, t \in Tokens : ~Locks(p, t)
        BY <1>1 DEF Core, LockedIsLive, Free
    <2> QED
        BY <1>1, <2>1 DEF LockedIsLive, Locks
<1> QED
    BY <1>3, <1>4, <1>5, <1>6 DEF Core

LEMMA StepCore == ASSUME Core, [Next]_vars PROVE Core'
<1>1. ASSUME NEW p \in Phones, Step(p) PROVE Core'
    BY <1>1, QuietStepCore, IssueCore, RotateLockCore, RotateCommitCore, LogoutLockCore,
       LogoutCommitCore DEF Step
<1> QED
    BY <1>1, ResetLockCore, ResetRevokeCore, StutterCore DEF Next

LEMMA CoreAlways == Spec => []Core
BY InitCore, StepCore, PTL DEF Spec

(* The rows, the phones' stores and the calls are what they are declared   *)
(* to be.                                                                  *)
THEOREM TypeCorrect == Spec => []TypeOK
BY CoreAlways, PTL DEF Core

(* A session never has two valid tokens, whatever rotations, sign-outs and *)
(* resets overlap: rotateRefreshToken revokes what it replaces.            *)
THEOREM OneValidToken == Spec => []OneLivePerChain
BY CoreAlways, PTL DEF Core

(* select ... for update serialises whoever uses a token, and a check of   *)
(* revoked_at under the lock stays true until the commit.                  *)
THEOREM LocksGuardTokens == Spec => []LockedIsLive
BY CoreAlways, PTL DEF Core

-----------------------------------------------------------------------------
(* The rows implement SessionBook. *)

Alive(c) == \E t \in Tokens : Live(t) /\ row[t].chain = c

LEMMA InitRefines == Init => Book!BookInit
BY NoTokenAssumption DEF Init, Book!BookInit, Standing, NoRow

(* Standing is about the names and the valid tokens of sessions: a step    *)
(* that keeps both, session by session, is a stutter.                      *)
LEMMA SameStanding ==
    ASSUME \A c \in Tokens : (row[c].chain = c) <=> (row'[c].chain = c),
           \A c \in Tokens : row[c].chain = c => (Alive(c) <=> Alive(c)')
    PROVE  UNCHANGED [c \in Tokens |-> Standing(c)]
<1>1. \A c \in Tokens : Standing(c)' = Standing(c)
    BY DEF Standing, Alive
<1> QED
    BY <1>1

LEMMA RowsRefine ==
    ASSUME row' = row
    PROVE  UNCHANGED [c \in Tokens |-> Standing(c)]
BY SameStanding DEF Alive, Live

LEMMA IssueRefines ==
    ASSUME Core, NEW p \in Phones, IssueRefreshToken(p)
    PROVE  Book!BookNext
<1>1. PICK t \in Fresh : row' = Insert(t, t)
    BY DEF IssueRefreshToken
<1>2. /\ t \in Tokens /\ row[t] = NoRow
      /\ \A u \in Tokens : row[u].chain # t
    BY FreshIsNew
<1>3. /\ row'[t] = [status |-> "live", chain |-> t]
      /\ \A u \in Tokens : u # t => row'[u] = row[u]
    BY <1>1, <1>2 DEF Core, TypeOK, Insert
<1>4. Standing(t) = "none"
    BY <1>2 DEF Standing
<1>5. Standing(t)' = "live"
    BY <1>2, <1>3 DEF Standing, Live
<1>6. \A c \in Tokens : c # t => Standing(c)' = Standing(c)
    <2> SUFFICES ASSUME NEW c \in Tokens, c # t PROVE Standing(c)' = Standing(c)
        OBVIOUS
    <2>1. row'[c] = row[c] /\ (Alive(c) <=> Alive(c)')
        BY <1>2, <1>3, NoTokenAssumption DEF Alive, Live, NoRow
    <2> QED
        BY <2>1 DEF Standing, Alive
<1>7. Book!OpenChain(t)
    BY <1>2, <1>4, <1>5, <1>6 DEF Book!OpenChain
<1> QED
    BY <1>2, <1>7 DEF Book!BookNext

LEMMA RotateRefines ==
    ASSUME Core, NEW p \in Phones, RotateCommit(p)
    PROVE  UNCHANGED [c \in Tokens |-> Standing(c)]
<1>1. PICK t, current \in Tokens :
        /\ t \in Fresh /\ t # current /\ Live(current)
        /\ row'[t] = [status |-> "live", chain |-> row[current].chain]
        /\ row'[current] = [status |-> "revoked", chain |-> row[current].chain]
        /\ \A u \in Tokens : u \notin {t, current} => row'[u] = row[u]
    BY RotateRows
<1>2. row[t] = NoRow /\ \A u \in Tokens : row[u].chain # t
    BY <1>1, FreshIsNew
<1>3. \A c \in Tokens : (row[c].chain = c) <=> (row'[c].chain = c)
    BY <1>1, <1>2
<1>4. \A c \in Tokens : Alive(c) <=> Alive(c)'
    <2> SUFFICES ASSUME NEW c \in Tokens PROVE Alive(c) <=> Alive(c)'
        OBVIOUS
    <2>1. CASE c = row[current].chain
        BY <1>1, <2>1 DEF Alive, Live
    <2>2. CASE c # row[current].chain
        BY <1>1, <1>2, <2>2 DEF Alive, Live, NoRow
    <2> QED
        BY <2>1, <2>2
<1> QED
    BY <1>3, <1>4, SameStanding

LEMMA LogoutRefines ==
    ASSUME Core, NEW p \in Phones, LogoutCommit(p)
    PROVE  Book!BookNext
<1>1. PICK current \in Tokens :
        /\ Live(current)
        /\ row' = [row EXCEPT ![current].status = "revoked"]
    BY DEF Core, CallsOK, Issued, LockedIsLive, Locks, LogoutCommit
<1>2. /\ row'[current] = [status |-> "revoked", chain |-> row[current].chain]
      /\ \A u \in Tokens : u # current => row'[u] = row[u]
    BY <1>1 DEF Core, TypeOK, Rows
<1>3. PICK d \in Tokens : d = row[current].chain /\ row[d].chain = d
    BY <1>1 DEF Core, RowsOK, Live
<1>4. Standing(d) = "live"
    BY <1>1, <1>3 DEF Standing
<1>5. Standing(d)' = "ended"
    <2>1. row'[d].chain = d
        BY <1>2, <1>3
    <2>2. ~Alive(d)'
        BY <1>1, <1>2, <1>3 DEF Core, OneLivePerChain, Alive, Live
    <2> QED
        BY <2>1, <2>2 DEF Standing, Alive
<1>6. \A c \in Tokens : c # d => Standing(c)' = Standing(c)
    <2> SUFFICES ASSUME NEW c \in Tokens, c # d PROVE Standing(c)' = Standing(c)
        OBVIOUS
    <2>1. (row[c].chain = c <=> row'[c].chain = c) /\ (Alive(c) <=> Alive(c)')
        BY <1>2, <1>3 DEF Alive, Live
    <2> QED
        BY <2>1 DEF Standing, Alive
<1>7. Book!EndChains({d})
    BY <1>4, <1>5, <1>6 DEF Book!EndChains
<1> QED
    BY <1>7 DEF Book!BookNext

LEMMA ResetRefines ==
    ASSUME Core, ResetRevoke
    PROVE  Book!BookNext
<1> DEFINE C == {c \in Tokens : Standing(c) = "live"}
<1>1. row' = [t \in Tokens |->
                IF Live(t) THEN [row[t] EXCEPT !.status = "revoked"] ELSE row[t]]
    BY DEF ResetRevoke
<1>2. \A t \in Tokens : row'[t].chain = row[t].chain /\ row'[t].status # "live"
    BY <1>1 DEF Core, TypeOK, Rows, Live
<1>3. \A c \in Tokens : Standing(c)' = IF c \in C THEN "ended" ELSE Standing(c)
    BY <1>2 DEF Standing, Live
<1>4. Book!EndChains(C)
    BY <1>3 DEF Book!EndChains
<1>5. C \in SUBSET Tokens
    OBVIOUS
<1> QED
    BY <1>4, <1>5 DEF Book!BookNext

LEMMA StepRefines ==
    ASSUME Core, [Next]_vars
    PROVE  [Book!BookNext]_[c \in Tokens |-> Standing(c)]
<1>1. ASSUME NEW p \in Phones, Step(p), ~IssueRefreshToken(p), ~RotateCommit(p), ~LogoutCommit(p)
      PROVE  row' = row
    BY <1>1 DEF Step, CheckPassword, Refresh, RotateLock, LoseAnswer, StoreAnswer, RefreshFailed,
                SignOut, LogoutLock, LogoutLost, ClearAuthSession, BreakDeadlock, rows
<1>2. ASSUME NEW p \in Phones, Step(p)
      PROVE  Book!BookNext \/ UNCHANGED [c \in Tokens |-> Standing(c)]
    BY <1>1, <1>2, IssueRefines, RotateRefines, LogoutRefines, RowsRefine
<1>3. CASE ResetLock \/ UNCHANGED vars
    BY <1>3, RowsRefine DEF ResetLock, vars, rows
<1> QED
    BY <1>2, <1>3, ResetRefines DEF Next

(* Refresh sessions keep what SessionBook promises: a rotation goes on     *)
(* with a session, and one that a sign-out or a reset has ended stays so.  *)
THEOREM RefinesBook == Spec => ImplementsBook
<1>1. Core /\ [Next]_vars => [Book!BookNext]_[c \in Tokens |-> Standing(c)]
    BY StepRefines
<1> QED
    BY <1>1, InitRefines, CoreAlways, PTL DEF Spec, ImplementsBook, Book!BookSpec

-----------------------------------------------------------------------------
(* Which phone a session belongs to. *)

Holds(p, t) ==
    \/ stored[p] = t
    \/ refresh[p].at # "idle" /\ refresh[p].token = t
    \/ refresh[p].at = "answered" /\ refresh[p].next = t
    \/ logout[p].at # "idle" /\ logout[p].token = t

(* Nobody has a token of another phone's session.                          *)
Owned ==
    \A p, q \in Phones : \A t, u \in Tokens :
        Holds(p, t) /\ Holds(q, u) /\ row[t].chain = row[u].chain => p = q

(* The successor in an answer is nowhere else yet, and is valid unless its *)
(* session has ended.                                                      *)
NextIsNew ==
    \A p \in Phones : refresh[p].at = "answered" =>
        /\ refresh[p].next # stored[p]
        /\ logout[p].at # "idle" => logout[p].token # refresh[p].next
        /\ Live(refresh[p].next) \/ ~Alive(row[refresh[p].next].chain)

Kept(p) ==
    stored[p] # NoToken =>
        \/ Live(stored[p])
        \/ refresh[p].at = "answered" /\ refresh[p].token = stored[p]
        \/ ~Alive(row[stored[p]].chain)

PhonesKept == lost = 0 => \A p \in Phones : Kept(p)

IInv == Core /\ Owned /\ NextIsNew /\ PhonesKept

LEMMA InitOK == Init => IInv
<1> SUFFICES ASSUME Init PROVE IInv
    OBVIOUS
<1>1. \A p \in Phones, t \in Tokens : ~Holds(p, t)
    BY NoTokenAssumption DEF Init, Holds, NoCall
<1>2. Owned
    BY <1>1 DEF Owned
<1>3. NextIsNew /\ PhonesKept
    BY DEF Init, NextIsNew, PhonesKept, Kept, NoCall
<1> QED
    BY <1>2, <1>3, InitCore DEF IInv

(* A held token has a row, and so is not fresh.                            *)
LEMMA HeldIsIssued ==
    ASSUME Core, NEW p \in Phones, NEW t \in Tokens, Holds(p, t)
    PROVE  row[t].status # "none"
BY NoTokenAssumption DEF Core, CallsOK, Issued, Holds

-----------------------------------------------------------------------------
(* The steps that leave the rows alone. *)

Quiet(p) ==
    \/ CheckPassword(p) \/ Refresh(p) \/ RotateLock(p) \/ LoseAnswer(p) \/ StoreAnswer(p)
    \/ RefreshFailed(p) \/ SignOut(p) \/ LogoutLock(p) \/ LogoutLost(p) \/ ClearAuthSession(p)
    \/ BreakDeadlock(p)

(* What such a step does to its phone's calls.                             *)
QuietCalls(p) ==
    \/ /\ stored'[p] = stored[p]
       /\ logout'[p].at # "idle" =>
            \/ logout[p].at # "idle" /\ logout'[p].token = logout[p].token
            \/ logout'[p].token = stored[p]
       /\ refresh'[p] = refresh[p]
    \/ /\ stored'[p] = stored[p] /\ logout'[p] = logout[p]
       /\ refresh'[p].at \in {"idle", "sent", "locked", "failed"}
       /\ refresh'[p].at # "idle" =>
            \/ refresh[p].at # "idle" /\ refresh'[p].token = refresh[p].token
            \/ refresh'[p].token = stored[p]
       /\ refresh[p].at = "answered" => lost' # 0
    \/ /\ refresh[p].at = "answered" /\ refresh'[p].at = "idle"
       /\ stored'[p] = refresh[p].next /\ logout'[p] = logout[p]
    \/ /\ stored'[p] = NoToken /\ refresh'[p] = refresh[p] /\ logout'[p].at = "idle"

LEMMA QuietEffect ==
    ASSUME Core, NEW p \in Phones, Quiet(p)
    PROVE  /\ row' = row
           /\ lost' = 0 => lost = 0
           /\ QuietCalls(p)
           /\ \A q \in Phones : q # p =>
                stored'[q] = stored[q] /\ refresh'[q] = refresh[q] /\ logout'[q] = logout[q]
<1> USE DEF Core, TypeOK, Calls, Stages, rows, phone, QuietCalls
<1>1. CASE CheckPassword(p)
    BY <1>1 DEF CheckPassword
<1>2. CASE Refresh(p)
    BY <1>2 DEF Refresh
<1>3. CASE RotateLock(p)
    BY <1>3 DEF RotateLock
<1>4. CASE LoseAnswer(p)
    BY <1>4, LostAssumption DEF LoseAnswer
<1>5. CASE StoreAnswer(p)
    BY <1>5 DEF StoreAnswer, NoCall
<1>6. CASE RefreshFailed(p)
    BY <1>6 DEF RefreshFailed, NoCall
<1>7. CASE SignOut(p)
    BY <1>7 DEF SignOut
<1>8. CASE LogoutLock(p)
    BY <1>8 DEF LogoutLock
<1>9. CASE LogoutLost(p)
    BY <1>9 DEF LogoutLost
<1>10. CASE ClearAuthSession(p)
    BY <1>10 DEF ClearAuthSession, NoCall
<1>11. CASE BreakDeadlock(p)
    BY <1>11 DEF BreakDeadlock
<1> QED
    BY <1>1, <1>2, <1>3, <1>4, <1>5, <1>6, <1>7, <1>8, <1>9, <1>10, <1>11 DEF Quiet

LEMMA QuietOK ==
    ASSUME IInv, NEW p \in Phones, Quiet(p)
    PROVE  Owned' /\ NextIsNew' /\ PhonesKept'
<1>1. /\ row' = row
      /\ lost' = 0 => lost = 0
      /\ QuietCalls(p)
      /\ \A q \in Phones : q # p =>
           stored'[q] = stored[q] /\ refresh'[q] = refresh[q] /\ logout'[q] = logout[q]
    BY QuietEffect DEF IInv
<1>2. \A q \in Phones, t \in Tokens : Holds(q, t)' => Holds(q, t)
    <2>1. \A t \in Tokens : Holds(p, t)' => Holds(p, t)
        BY <1>1, NoTokenAssumption DEF QuietCalls, Holds
    <2> QED
        BY <1>1, <2>1 DEF Holds
<1>3. \A c : Alive(c)' <=> Alive(c)
    BY <1>1 DEF Alive, Live
<1>4. \A t : Live(t)' <=> Live(t)
    BY <1>1 DEF Live
<1>5. Owned'
    BY <1>1, <1>2 DEF IInv, Owned
<1>6. NextIsNew'
    <2> SUFFICES ASSUME NEW q \in Phones, (refresh[q].at = "answered")'
                 PROVE  /\ (refresh[q].next # stored[q])'
                        /\ (logout[q].at # "idle" => logout[q].token # refresh[q].next)'
                        /\ (Live(refresh[q].next) \/ ~Alive(row[refresh[q].next].chain))'
        BY DEF NextIsNew
    <2>1. refresh[q].at = "answered" /\ refresh'[q] = refresh[q]
        BY <1>1 DEF QuietCalls
    <2>2. /\ refresh[q].next # stored[q] /\ refresh[q].next # NoToken
          /\ logout[q].at # "idle" => logout[q].token # refresh[q].next
          /\ Live(refresh[q].next) \/ ~Alive(row[refresh[q].next].chain)
        BY <2>1, NoTokenAssumption DEF IInv, NextIsNew, Core, CallsOK, Issued
    <2>3. refresh'[q].next # stored'[q]
          /\ (logout'[q].at # "idle" => logout'[q].token # refresh'[q].next)
        BY <1>1, <2>1, <2>2 DEF QuietCalls
    <2> QED
        BY <1>1, <2>1, <2>2, <2>3 DEF Alive, Live
<1>7. PhonesKept'
    <2> SUFFICES ASSUME lost' = 0, NEW q \in Phones, stored'[q] # NoToken
                 PROVE  \/ Live(stored[q])'
                        \/ (refresh[q].at = "answered" /\ refresh[q].token = stored[q])'
                        \/ (~Alive(row[stored[q]].chain))'
        BY DEF PhonesKept, Kept
    <2>1. CASE stored'[q] = stored[q]
        <3>1. Kept(q) /\ stored[q] # NoToken
            BY <1>1, <2>1 DEF IInv, PhonesKept
        <3>2. refresh[q].at = "answered" => refresh'[q] = refresh[q] \/ stored'[q] = refresh[q].next
            BY <1>1 DEF QuietCalls
        <3>3. refresh[q].at = "answered" => refresh[q].next # stored[q]
            BY DEF IInv, NextIsNew
        <3> QED
            BY <1>1, <2>1, <3>1, <3>2, <3>3 DEF Kept, Alive, Live
    <2>2. CASE stored'[q] # stored[q]
        <3>1. refresh[q].at = "answered" /\ stored'[q] = refresh[q].next
            BY <1>1, <2>2 DEF QuietCalls
        <3> QED
            BY <1>1, <3>1 DEF IInv, NextIsNew, Alive, Live
    <2> QED
        BY <2>1, <2>2
<1> QED
    BY <1>5, <1>6, <1>7

-----------------------------------------------------------------------------
(* The steps that change the rows. *)

LEMMA IssueOK ==
    ASSUME IInv, NEW p \in Phones, IssueRefreshToken(p)
    PROVE  Owned' /\ NextIsNew' /\ PhonesKept'
<1>1. PICK t \in Fresh :
        /\ row' = Insert(t, t)
        /\ \/ /\ stored' = [stored EXCEPT ![p] = t]
              /\ signedOut' = [signedOut EXCEPT ![p] = FALSE]
              /\ UNCHANGED lost
           \/ /\ lost < MaxLost
              /\ lost' = lost + 1
              /\ UNCHANGED phone
    BY DEF IssueRefreshToken
<1>2. UNCHANGED << refresh, logout >>
    BY DEF IssueRefreshToken
<1>3. /\ t \in Tokens /\ row[t] = NoRow
      /\ \A u \in Tokens : row[u].chain # t
      /\ \A q \in Phones : ~Holds(q, t)
    BY FreshIsNew, HeldIsIssued DEF IInv, NoRow
<1>4. /\ row'[t] = [status |-> "live", chain |-> t]
      /\ \A u \in Tokens : u # t => row'[u] = row[u]
    BY <1>1, <1>3 DEF IInv, Core, TypeOK, Insert
<1>5. /\ \A q \in Phones : q # p => stored'[q] = stored[q]
      /\ stored'[p] = t \/ stored'[p] = stored[p]
      /\ lost' = 0 => lost = 0
    BY <1>1, LostAssumption DEF IInv, Core, TypeOK, phone
<1>6. \A q \in Phones, u \in Tokens : Holds(q, u)' => Holds(q, u) \/ (q = p /\ u = t)
    BY <1>2, <1>5 DEF Holds
<1>7. \A c \in Tokens : c # t => (Alive(c)' <=> Alive(c))
    BY <1>3, <1>4, NoTokenAssumption DEF Alive, Live, NoRow
<1>8. \A u \in Tokens : row[u].status # "none" =>
        u # t /\ row'[u] = row[u] /\ row[u].chain \in Tokens \ {t}
    BY <1>3, <1>4 DEF IInv, Core, RowsOK, NoRow
<1>9. Owned'
    BY <1>3, <1>4, <1>6 DEF IInv, Owned
<1>10. NextIsNew'
    <2>1. \A q \in Phones : refresh[q].at = "answered" =>
            refresh[q].next \in Tokens /\ row[refresh[q].next].status # "none"
        BY DEF IInv, Core, CallsOK, Issued
    <2>2. \A q \in Phones : refresh[q].at = "answered" =>
            /\ Live(refresh[q].next)' \/ ~Alive(row[refresh[q].next].chain)'
            /\ refresh[q].next # t
        BY <1>2, <1>7, <1>8, <2>1 DEF IInv, NextIsNew, Live
    <2> QED
        BY <1>2, <1>5, <2>2 DEF IInv, NextIsNew
<1>11. PhonesKept'
    <2>1. \A q \in Phones : stored[q] # NoToken =>
            stored[q] \in Tokens /\ row[stored[q]].status # "none"
        BY DEF IInv, Core, CallsOK, Issued
    <2>2. ASSUME lost' = 0, NEW q \in Phones, stored'[q] # NoToken
          PROVE  \/ Live(stored[q])'
                 \/ (refresh[q].at = "answered" /\ refresh[q].token = stored[q])'
                 \/ (~Alive(row[stored[q]].chain))'
        <3>1. CASE stored'[q] = t
            BY <1>4, <3>1 DEF Live
        <3>2. CASE stored'[q] # t
            <4>1. stored'[q] = stored[q] /\ Kept(q)
                BY <1>5, <2>2, <3>2 DEF IInv, PhonesKept
            <4> QED
                BY <1>2, <1>7, <1>8, <2>1, <2>2, <4>1 DEF Kept, Live
        <3> QED
            BY <3>1, <3>2
    <2> QED
        BY <2>2 DEF PhonesKept, Kept
<1> QED
    BY <1>9, <1>10, <1>11

LEMMA RotateOK ==
    ASSUME IInv, NEW p \in Phones, RotateCommit(p)
    PROVE  Owned' /\ NextIsNew' /\ PhonesKept'
<1>1. PICK t, current \in Tokens :
        /\ refresh[p].at = "locked" /\ refresh[p].token = current
        /\ t \in Fresh /\ t # current /\ Live(current)
        /\ row[current].chain \in Tokens
        /\ row'[t] = [status |-> "live", chain |-> row[current].chain]
        /\ row'[current] = [status |-> "revoked", chain |-> row[current].chain]
        /\ \A u \in Tokens : u \notin {t, current} => row'[u] = row[u]
        /\ refresh' = [refresh EXCEPT ![p] = [at |-> "answered", token |-> current, next |-> t]]
        /\ UNCHANGED << phone, signIn, logout, reset, lost >>
    BY RotateRows DEF IInv
<1>2. /\ row[t] = NoRow /\ \A u \in Tokens : row[u].chain # t
      /\ \A q \in Phones : ~Holds(q, t)
    BY <1>1, FreshIsNew, HeldIsIssued DEF IInv, NoRow
<1>3. /\ refresh'[p] = [at |-> "answered", token |-> current, next |-> t]
      /\ \A q \in Phones : q # p => refresh'[q] = refresh[q]
      /\ stored' = stored /\ logout' = logout /\ lost' = lost
    BY <1>1 DEF IInv, Core, TypeOK, phone
<1>4. Holds(p, current)
    BY <1>1 DEF Holds
<1>5. \A q \in Phones, u \in Tokens : Holds(q, u)' => Holds(q, u) \/ (q = p /\ u = t)
    BY <1>3, <1>4 DEF Holds
<1>6. \A c \in Tokens : Alive(c)' => Alive(c)
    BY <1>1 DEF Alive, Live
<1>7. \A q \in Phones, u \in Tokens :
        Holds(q, u) => u # t /\ row'[u].chain = row[u].chain /\ (Live(u) /\ q # p => Live(u)')
    <2>1. \A q \in Phones : Holds(q, current) => q = p
        BY <1>4 DEF IInv, Owned
    <2> QED
        BY <1>1, <1>2, <2>1 DEF Live
<1>8. Owned'
    <2> SUFFICES ASSUME NEW q \in Phones, NEW r \in Phones, NEW u \in Tokens, NEW v \in Tokens,
                        Holds(q, u)', Holds(r, v)', row'[u].chain = row'[v].chain
                 PROVE  q = r
        BY DEF Owned
    <2>1. \A s \in Phones, w \in Tokens : Holds(s, w)' =>
            \E x \in Tokens : Holds(s, x) /\ row[x].chain = row'[w].chain
        BY <1>1, <1>4, <1>5, <1>7
    <2> QED
        BY <2>1 DEF IInv, Owned
<1>9. NextIsNew'
    <2>1. \A q \in Phones : q # p /\ refresh[q].at = "answered" =>
            refresh[q].next \in Tokens /\ Holds(q, refresh[q].next)
            /\ row[refresh[q].next].chain \in Tokens
        BY DEF IInv, Core, CallsOK, Issued, RowsOK, Holds
    <2>2. ASSUME NEW q \in Phones, q # p, refresh[q].at = "answered"
          PROVE  Live(refresh[q].next)' \/ (~Alive(row[refresh[q].next].chain))'
        <3>1. PICK n \in Tokens : n = refresh[q].next
            BY <2>1, <2>2
        <3>2. refresh'[q].next = n
            BY <1>3, <2>2, <3>1
        <3>3. CASE Live(n)
            BY <1>7, <2>1, <2>2, <3>1, <3>2, <3>3 DEF Live
        <3>4. CASE ~Alive(row[n].chain)
            BY <1>6, <1>7, <2>1, <2>2, <3>1, <3>2, <3>4
        <3> QED
            BY <2>2, <3>1, <3>3, <3>4 DEF IInv, NextIsNew
    <2>3. t # stored[p] /\ (logout[p].at # "idle" => logout[p].token # t) /\ Live(t)'
        BY <1>1, <1>2 DEF Holds, Live
    <2> SUFFICES ASSUME NEW q \in Phones, (refresh[q].at = "answered")'
                 PROVE  /\ (refresh[q].next # stored[q])'
                        /\ (logout[q].at # "idle" => logout[q].token # refresh[q].next)'
                        /\ (Live(refresh[q].next) \/ ~Alive(row[refresh[q].next].chain))'
        BY DEF NextIsNew
    <2>4. CASE q = p
        <3>1. refresh'[q].next = t
            BY <1>3, <2>4
        <3> QED
            BY <1>3, <2>3, <2>4, <3>1 DEF Live
    <2>5. CASE q # p
        <3>1. refresh'[q] = refresh[q] /\ refresh[q].at = "answered"
            BY <1>3, <2>5
        <3> QED
            BY <1>3, <2>2, <2>5, <3>1 DEF IInv, NextIsNew
    <2> QED
        BY <2>4, <2>5
<1>10. PhonesKept'
    <2> SUFFICES ASSUME lost' = 0, NEW q \in Phones, stored'[q] # NoToken
                 PROVE  \/ Live(stored[q])'
                        \/ (refresh[q].at = "answered" /\ refresh[q].token = stored[q])'
                        \/ (~Alive(row[stored[q]].chain))'
        BY DEF PhonesKept, Kept
    <2>1. PICK s \in Tokens : s = stored[q] /\ row[s].status # "none" /\ row[s].chain \in Tokens
        BY <1>3 DEF IInv, Core, CallsOK, Issued, RowsOK
    <2>2. Holds(q, s) /\ stored'[q] = s /\ Kept(q) /\ s # NoToken
        BY <1>3, <2>1, NoTokenAssumption DEF IInv, PhonesKept, Holds
    <2>3. CASE Live(s)
        <3>1. CASE s = current
            <4>1. q = p
                BY <1>4, <2>2, <3>1 DEF IInv, Owned
            <4> QED
                BY <1>3, <2>2, <3>1, <4>1
        <3>2. CASE s # current
            BY <1>1, <1>7, <2>2, <2>3, <3>2 DEF Live
        <3> QED
            BY <3>1, <3>2
    <2>4. CASE refresh[q].at = "answered" /\ refresh[q].token = s
        BY <1>1, <1>3, <2>2, <2>4
    <2>5. CASE ~Alive(row[s].chain)
        BY <1>6, <1>7, <2>1, <2>2, <2>5
    <2> QED
        BY <2>1, <2>2, <2>3, <2>4, <2>5 DEF Kept
<1> QED
    BY <1>8, <1>9, <1>10

(* A token revoked by a sign-out or a reset takes its session with it.     *)
LEMMA RevokeOK ==
    ASSUME IInv, stored' = stored, refresh' = refresh, lost' = lost,
           \A q \in Phones : (logout'[q].at # "idle") = (logout[q].at # "idle")
                             /\ logout'[q].token = logout[q].token,
           \A t \in Tokens : row'[t].chain = row[t].chain,
           \A t \in Tokens : Live(t)' => Live(t),
           \A t \in Tokens : Live(t) /\ ~Live(t)' => ~Alive(row[t].chain)'
    PROVE  Owned' /\ NextIsNew' /\ PhonesKept'
<1>1. \A q \in Phones, t \in Tokens : Holds(q, t)' <=> Holds(q, t)
    BY DEF Holds
<1>2. \A c : Alive(c)' => Alive(c)
    BY DEF Alive
<1>3. \A t \in Tokens : Live(t) \/ ~Alive(row[t].chain) => Live(t)' \/ ~Alive(row[t].chain)'
    <2> SUFFICES ASSUME NEW t \in Tokens, Live(t) \/ ~Alive(row[t].chain), ~Live(t)'
                 PROVE  ~Alive(row[t].chain)'
        OBVIOUS
    <2> QED
        BY <1>2
<1>4. Owned'
    BY <1>1 DEF IInv, Owned
<1>5. NextIsNew'
    <2>1. \A q \in Phones : refresh[q].at = "answered" => refresh[q].next \in Tokens
        BY DEF IInv, Core, CallsOK, Issued
    <2> QED
        BY <1>3, <2>1 DEF IInv, NextIsNew
<1>6. PhonesKept'
    <2>1. \A q \in Phones : stored[q] # NoToken => stored[q] \in Tokens
        BY DEF IInv, Core, CallsOK, Issued
    <2> QED
        BY <1>3, <2>1 DEF IInv, PhonesKept, Kept
<1> QED
    BY <1>4, <1>5, <1>6

LEMMA LogoutOK ==
    ASSUME IInv, NEW p \in Phones, LogoutCommit(p)
    PROVE  Owned' /\ NextIsNew' /\ PhonesKept'
<1>1. PICK current \in Tokens :
        /\ Live(current)
        /\ row' = [row EXCEPT ![current].status = "revoked"]
    BY DEF IInv, Core, CallsOK, Issued, LockedIsLive, Locks, LogoutCommit
<1>2. /\ row'[current] = [status |-> "revoked", chain |-> row[current].chain]
      /\ \A u \in Tokens : u # current => row'[u] = row[u]
    BY <1>1 DEF IInv, Core, TypeOK, Rows
<1>3. /\ logout[p].at = "locked"
      /\ logout' = [logout EXCEPT ![p].at = "answered"]
      /\ stored' = stored /\ refresh' = refresh /\ lost' = lost
    BY DEF LogoutCommit, phone
<1>4. \A q \in Phones : (logout'[q].at # "idle") = (logout[q].at # "idle")
                        /\ logout'[q].token = logout[q].token
    BY <1>3 DEF IInv, Core, TypeOK, Calls
<1>5. /\ \A t \in Tokens : row'[t].chain = row[t].chain
      /\ \A t \in Tokens : Live(t)' => Live(t)
      /\ \A t \in Tokens : Live(t) /\ ~Live(t)' => t = current
    BY <1>2 DEF Live
<1>6. ~Alive(row[current].chain)'
    BY <1>1, <1>2 DEF IInv, Core, OneLivePerChain, Alive, Live
<1> QED
    BY <1>3, <1>4, <1>5, <1>6, RevokeOK

LEMMA ResetOK ==
    ASSUME IInv, ResetRevoke
    PROVE  Owned' /\ NextIsNew' /\ PhonesKept'
<1>1. \A t \in Tokens : row'[t].chain = row[t].chain /\ ~Live(t)'
    BY DEF IInv, Core, TypeOK, Rows, Live, ResetRevoke
<1>2. stored' = stored /\ refresh' = refresh /\ logout' = logout /\ lost' = lost
    BY DEF ResetRevoke, phone, calls
<1>3. \A c : ~Alive(c)'
    BY <1>1 DEF Alive
<1> QED
    BY <1>1, <1>2, <1>3, RevokeOK

(* A step that touches neither rows, nor calls, nor what is stored.        *)
LEMMA RestOK ==
    ASSUME IInv, ResetLock \/ UNCHANGED vars
    PROVE  Owned' /\ NextIsNew' /\ PhonesKept'
<1>1. row' = row /\ stored' = stored /\ refresh' = refresh /\ logout' = logout /\ lost' = lost
    BY DEF ResetLock, vars, rows, phone, calls
<1> QED
    BY <1>1 DEF IInv, Owned, NextIsNew, PhonesKept, Kept, Holds, Live, Alive

LEMMA StepOK == ASSUME IInv, [Next]_vars PROVE IInv'
<1>1. Core'
    BY StepCore DEF IInv
<1>2. ASSUME NEW p \in Phones, Step(p)
      PROVE  Owned' /\ NextIsNew' /\ PhonesKept'
    BY <1>2, QuietOK, IssueOK, RotateOK, LogoutOK DEF Step, Quiet
<1> QED
    BY <1>1, <1>2, ResetOK, RestOK DEF Next, IInv

LEMMA Inductive == Spec => []IInv
BY InitOK, StepOK, PTL DEF Spec

(* As long as its answers arrive, the phone is never left with a token its *)
(* session has moved on from: saveSecureSession follows every rotation.    *)
THEOREM PhonesKeepTheirSession == Spec => []PhoneHoldsLive
<1>1. IInv => PhoneHoldsLive
    BY DEF IInv, PhonesKept, Kept, Alive, PhoneHoldsLive
<1> QED
    BY <1>1, Inductive, PTL

(* A password reset waits for the tokens that are being rotated, and then  *)
(* ends every session, the new ones too.                                   *)
THEOREM ResetEnds == Spec => ResetEndsAll
<1>1. Core /\ [Next]_vars => [reset = "locked" /\ reset' = "done" => \A t \in Tokens : ~Live(t)']_vars
    <2> SUFFICES ASSUME Core, Next, reset = "locked", reset' = "done"
                 PROVE  \A t \in Tokens : ~Live(t)'
        OBVIOUS
    <2>1. \A p \in Phones : ~Step(p)
        BY DEF Step, CheckPassword, IssueRefreshToken, Refresh, RotateLock, RotateCommit, LoseAnswer,
               StoreAnswer, RefreshFailed, SignOut, LogoutLock, LogoutCommit, LogoutLost,
               ClearAuthSession, BreakDeadlock
    <2>2. ResetRevoke
        BY <2>1 DEF Next, ResetLock
    <2> QED
        BY <2>2 DEF ResetRevoke, Core, TypeOK, Rows, Live
<1> QED
    BY <1>1, CoreAlways, PTL DEF Spec, ResetEndsAll
=============================================================================
