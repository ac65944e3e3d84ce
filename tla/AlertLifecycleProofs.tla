------------------------ MODULE AlertLifecycleProofs ------------------------
(***************************************************************************)
(* Proofs about AlertLifecycle, for any set of alerts and of requests.     *)
(***************************************************************************)
EXTENDS AlertLifecycle, TLAPS

(* What a request's arguments are, given how far it has come.              *)
CallsMatch ==
    \A r \in Requests :
        /\ pc[r] = "idle" => call[r].op = "none"
        /\ pc[r] = "begun" =>
              /\ call[r].op \in {"create", "escalate"}
              /\ call[r].stage \in Stages
              /\ call[r].op = "escalate" => call[r].id \in Alerts
        /\ pc[r] = "holdsAlert" => call[r].op \in {"escalate", "cancel"}
        /\ pc[r] = "holdsSession" => call[r].op = "close"
        /\ pc[r] = "holdsBoth" => call[r].op \in {"escalate", "cancel", "close"}
        /\ pc[r] \in {"holdsAlert", "holdsBoth"} /\ call[r].op = "escalate" =>
              call[r].stage \in Stages
        /\ pc[r] = "committed" =>
              /\ call[r].id \in Alerts
              /\ call[r].op \in {"create", "escalate"} => call[r].stage \in Stages
              /\ alert[call[r].id].stage \in Stages

(* The inductive invariant: who may write is settled by RowLocks, and with *)
(* it the two rows stay in agreement.                                      *)
IInv == TypeOK /\ CallsMatch /\ RowLocks /\ RowsAgree /\ LevelMatchesStage

LEMMA LevelType == \A s \in Stages : EscalationLevel(s) \in 0..4
BY DEF Stages, EscalationLevel

LEMMA StageStrings ==
    Stages = {"monitoring", "suspicious", "soft_alert", "high_alert"}
<1>1. 1..4 = {1, 2, 3, 4} OBVIOUS
<1>2. QED BY <1>1 DEF Stages, StageOrder

(* RowsAgree, status by status.                                            *)
LEMMA StatusPairs ==
    ASSUME TypeOK, RowsAgree, NEW a \in Alerts
    PROVE  /\ alert[a].status = "none" <=> session[a].status = "none"
           /\ alert[a].status = "active" <=> session[a].status = "active"
           /\ alert[a].status = "cancelled" <=> session[a].status = "cancelled"
           /\ alert[a].status = "resolved" <=> session[a].status = "completed"
<1>1. /\ SessionStatusFor["none"] = "none"
      /\ SessionStatusFor["active"] = "active"
      /\ SessionStatusFor["cancelled"] = "cancelled"
      /\ SessionStatusFor["resolved"] = "completed"
    BY DEF SessionStatusFor
<1>2. alert[a].status \in {"none", "active", "cancelled", "resolved"}
    BY DEF TypeOK, AlertRows
<1>3. session[a].status = SessionStatusFor[alert[a].status]
    BY DEF RowsAgree
<1>4. QED
    BY <1>1, <1>2, <1>3

LEMMA InitIInv == Init => IInv
<1> SUFFICES ASSUME Init PROVE IInv
    OBVIOUS
<1>1. TypeOK
    BY NoneAssumption, CrashAssumption
    DEF Init, TypeOK, NoAlert, NoSession, NoCall, AlertRows, SessionRows, Calls, Progress, Jobs
<1>2. CallsMatch /\ RowLocks
    BY DEF Init, NoCall, CallsMatch, RowLocks, LocksAlert, LocksSession
<1>3. RowsAgree /\ LevelMatchesStage
    BY DEF Init, RowsAgree, LevelMatchesStage, SessionStatusFor, NoAlert, NoSession
<1>4. QED
    BY <1>1, <1>2, <1>3 DEF IInv

-----------------------------------------------------------------------------
(* The steps, one lemma each: what the step does to the invariant.         *)

LEMMA CreateStep ==
    ASSUME IInv, NEW r \in Requests, NEW stage \in RequestedStages, Create(r, stage)
    PROVE  IInv'
<1>0. stage \in Stages
    BY StagesAssumption
<1>1. TypeOK'
    <2>1. pc' \in [Requests -> Progress]
        BY DEF IInv, TypeOK, Create, Progress
    <2>2. call' \in [Requests -> Calls]
        <3>1. CASE FindActiveAlert
            BY <3>1 DEF IInv, TypeOK, Create
        <3>2. CASE ~FindActiveAlert
            <4>1. [call[r] EXCEPT !.op = "create", !.stage = stage] \in Calls
                BY <1>0 DEF IInv, TypeOK, Calls
            <4>2. call' = [call EXCEPT ![r] = [@ EXCEPT !.op = "create", !.stage = stage]]
                BY <3>2 DEF Create, IInv, TypeOK
            <4>3. QED
                BY <4>1, <4>2 DEF IInv, TypeOK
        <3>3. QED
            BY <3>1, <3>2
    <2>3. QED
        BY <2>1, <2>2 DEF IInv, TypeOK, Create, tables, effects
<1>2. CallsMatch'
    BY <1>0 DEF IInv, TypeOK, CallsMatch, Create, tables, effects, Calls, Progress
<1>3. RowLocks'
    BY DEF IInv, TypeOK, RowLocks, LocksAlert, LocksSession, Create, tables, effects, Calls
<1>4. RowsAgree' /\ LevelMatchesStage'
    BY DEF IInv, RowsAgree, LevelMatchesStage, Create, tables
<1>5. QED
    BY <1>1, <1>2, <1>3, <1>4 DEF IInv

LEMMA CommitCreateStep ==
    ASSUME IInv, NEW r \in Requests, CommitCreate(r)
    PROVE  IInv'
<1>0. PICK a \in Alerts :
          /\ alert[a].status = "none"
          /\ alert' = [alert EXCEPT ![a] = [status |-> "active", stage |-> call[r].stage]]
          /\ session' = [session EXCEPT
                 ![a] = [status |-> "active", level |-> EscalationLevel(call[r].stage)]]
          /\ audit' = [audit EXCEPT ![a] = Append(@,
                 [event |-> "alert_created", from |-> "none", to |-> call[r].stage])]
          /\ call' = [call EXCEPT ![r].id = a, ![r].joined = TRUE]
    BY DEF CommitCreate
<1>a. pc[r] = "begun" /\ call[r].op = "create" /\ call[r].stage \in Stages
    BY DEF CommitCreate, IInv, CallsMatch
<1>b. pc' = [pc EXCEPT ![r] = "committed"] /\ UNCHANGED << shown, jobs, crashes >>
    BY DEF CommitCreate, effects
<1>1. TypeOK'
    <2>1. EscalationLevel(call[r].stage) \in 0..4
        BY <1>a, LevelType
    <2>2. [event |-> "alert_created", from |-> "none", to |-> call[r].stage] \in AuditEvents
        BY <1>a DEF AuditEvents
    <2>3. audit' \in [Alerts -> Seq(AuditEvents)]
        BY <1>0, <2>2 DEF IInv, TypeOK
    <2>4. alert' \in [Alerts -> AlertRows] /\ session' \in [Alerts -> SessionRows]
        BY <1>0, <1>a, <2>1 DEF IInv, TypeOK, AlertRows, SessionRows
    <2>5. call' \in [Requests -> Calls]
        BY <1>0 DEF IInv, TypeOK, Calls
    <2>6. QED
        BY <1>b, <2>3, <2>4, <2>5 DEF IInv, TypeOK, Progress
<1>2. CallsMatch'
    BY <1>0, <1>a, <1>b, NoneAssumption DEF IInv, TypeOK, CallsMatch, Calls, AlertRows
<1>3. RowLocks'
    BY <1>0, <1>a, <1>b DEF IInv, TypeOK, RowLocks, LocksAlert, LocksSession, Calls, AlertRows
<1>4. RowsAgree' /\ LevelMatchesStage'
    BY <1>0, <1>a DEF IInv, TypeOK, RowsAgree, LevelMatchesStage, SessionStatusFor, AlertRows,
                      SessionRows
<1>5. QED
    BY <1>1, <1>2, <1>3, <1>4 DEF IInv
LEMMA EscalateStep ==
    ASSUME IInv, NEW r \in Requests, NEW a \in Alerts, NEW stage \in RequestedStages,
           Escalate(r, a, stage)
    PROVE  IInv'
<1>0. stage \in Stages
    BY StagesAssumption
<1>1. TypeOK'
    <2>1. pc' \in [Requests -> Progress]
        BY DEF IInv, TypeOK, Escalate, Progress
    <2>2. call' \in [Requests -> Calls]
        BY <1>0 DEF IInv, TypeOK, Escalate, Calls, AlertRows
    <2>3. QED
        BY <2>1, <2>2 DEF IInv, TypeOK, Escalate, tables, effects
<1>2. CallsMatch'
    BY <1>0 DEF IInv, TypeOK, CallsMatch, Escalate, tables, effects, Calls, Progress
<1>3. RowLocks'
    BY DEF IInv, TypeOK, RowLocks, LocksAlert, LocksSession, Escalate, tables, effects, Calls
<1>4. RowsAgree' /\ LevelMatchesStage'
    BY DEF IInv, RowsAgree, LevelMatchesStage, Escalate, tables
<1>5. QED
    BY <1>1, <1>2, <1>3, <1>4 DEF IInv

LEMMA CancelStep ==
    ASSUME IInv, NEW r \in Requests, NEW a \in Alerts, Cancel(r, a)
    PROVE  IInv'
<1>1. TypeOK'
    <2>1. pc' \in [Requests -> Progress]
        BY DEF IInv, TypeOK, Cancel, Progress
    <2>2. call' \in [Requests -> Calls]
        BY DEF IInv, TypeOK, Cancel, Calls
    <2>3. QED
        BY <2>1, <2>2 DEF IInv, TypeOK, Cancel, tables, effects
<1>2. CallsMatch'
    BY DEF IInv, TypeOK, CallsMatch, Cancel, tables, effects, Calls, Progress
<1>3. RowLocks'
    BY DEF IInv, TypeOK, RowLocks, LocksAlert, LocksSession, AlertFree, Cancel, tables, effects,
           Calls
<1>4. RowsAgree' /\ LevelMatchesStage'
    BY DEF IInv, RowsAgree, LevelMatchesStage, Cancel, tables
<1>5. QED
    BY <1>1, <1>2, <1>3, <1>4 DEF IInv

LEMMA CloseStep ==
    ASSUME IInv, NEW r \in Requests, NEW a \in Alerts, Close(r, a)
    PROVE  IInv'
<1>1. TypeOK'
    <2>1. pc' \in [Requests -> Progress]
        BY DEF IInv, TypeOK, Close, Progress
    <2>2. call' \in [Requests -> Calls]
        BY DEF IInv, TypeOK, Close, Calls
    <2>3. QED
        BY <2>1, <2>2 DEF IInv, TypeOK, Close, tables, effects
<1>2. CallsMatch'
    BY DEF IInv, TypeOK, CallsMatch, Close, tables, effects, Calls, Progress
<1>3. RowLocks'
    <2>1. session[a].status = "active" => alert[a].status = "active"
        BY StatusPairs DEF IInv
    <2>2. QED
        BY <2>1 DEF IInv, TypeOK, RowLocks, LocksAlert, LocksSession, SessionFree, Close,
                    tables, effects, Calls
<1>4. RowsAgree' /\ LevelMatchesStage'
    BY DEF IInv, RowsAgree, LevelMatchesStage, Close, tables
<1>5. QED
    BY <1>1, <1>2, <1>3, <1>4 DEF IInv

(* Steps that only advance pc: taking a row, being aborted or answered.    *)
LEMMA LockStep ==
    ASSUME IInv, NEW r \in Requests, EscalateAlert(r) \/ TakeSession(r) \/ TakeAlert(r)
    PROVE  IInv'
<1>1. TypeOK'
    BY DEF IInv, TypeOK, EscalateAlert, TakeSession, TakeAlert, tables, effects, Progress
<1>2. CallsMatch'
    BY DEF IInv, TypeOK, CallsMatch, EscalateAlert, TakeSession, TakeAlert, tables, effects,
           Progress
<1>3. RowLocks'
    <2>1. CASE EscalateAlert(r)
        BY <2>1 DEF IInv, TypeOK, CallsMatch, RowLocks, LocksAlert, LocksSession, AlertFree,
                    EscalateAlert, tables, effects
    <2>2. CASE TakeSession(r)
        BY <2>2 DEF IInv, TypeOK, RowLocks, LocksAlert, LocksSession, SessionFree, TakeSession,
                    tables, effects
    <2>3. CASE TakeAlert(r)
        BY <2>3 DEF IInv, TypeOK, RowLocks, LocksAlert, LocksSession, AlertFree, TakeAlert,
                    tables, effects
    <2>4. QED
        BY <2>1, <2>2, <2>3
<1>4. RowsAgree' /\ LevelMatchesStage'
    BY DEF IInv, RowsAgree, LevelMatchesStage, EscalateAlert, TakeSession, TakeAlert, tables
<1>5. QED
    BY <1>1, <1>2, <1>3, <1>4 DEF IInv

LEMMA CommitEscalateStep ==
    ASSUME IInv, NEW r \in Requests, CommitEscalate(r)
    PROVE  IInv'
<1> DEFINE a == call[r].id
<1>0. /\ a \in Alerts /\ alert[a].status = "active" /\ session[a].status = "active"
      /\ call[r].stage \in Stages
    BY StatusPairs DEF CommitEscalate, IInv, RowLocks, CallsMatch
<1>a. /\ alert' = [alert EXCEPT ![a].stage = call[r].stage]
      /\ session' = [session EXCEPT ![a].level = EscalationLevel(call[r].stage)]
      /\ audit' = [audit EXCEPT ![a] = Append(@,
             [event |-> "alert_escalated", from |-> call[r].from, to |-> call[r].stage])]
      /\ pc' = [pc EXCEPT ![r] = "committed"]
      /\ pc[r] = "holdsBoth" /\ call[r].op = "escalate"
      /\ UNCHANGED << call, shown, jobs, crashes >>
    BY <1>0 DEF CommitEscalate, effects
<1> HIDE DEF a
<1>1. TypeOK'
    <2>1. EscalationLevel(call[r].stage) \in 0..4
        BY <1>0, LevelType
    <2>2. [event |-> "alert_escalated", from |-> call[r].from, to |-> call[r].stage]
              \in AuditEvents
        BY <1>0 DEF AuditEvents, IInv, TypeOK, Calls
    <2>3. audit' \in [Alerts -> Seq(AuditEvents)]
        BY <1>0, <1>a, <2>2 DEF IInv, TypeOK
    <2>4. alert' \in [Alerts -> AlertRows] /\ session' \in [Alerts -> SessionRows]
        BY <1>0, <1>a, <2>1 DEF IInv, TypeOK, AlertRows, SessionRows
    <2>5. QED
        BY <1>a, <2>3, <2>4 DEF IInv, TypeOK, Progress
<1>2. CallsMatch'
    BY <1>0, <1>a DEF IInv, TypeOK, CallsMatch, AlertRows, a
<1>3. RowLocks'
    BY <1>0, <1>a DEF IInv, TypeOK, RowLocks, LocksAlert, LocksSession, AlertRows
<1>4. RowsAgree' /\ LevelMatchesStage'
    BY <1>0, <1>a DEF IInv, TypeOK, RowsAgree, LevelMatchesStage, AlertRows, SessionRows
<1>5. QED
    BY <1>1, <1>2, <1>3, <1>4 DEF IInv

LEMMA CommitCancelStep ==
    ASSUME IInv, NEW r \in Requests, CommitCancel(r)
    PROVE  IInv'
<1> DEFINE a == call[r].id
<1>0. /\ a \in Alerts /\ alert[a].status = "active" /\ session[a].status = "active"
      /\ alert[a].stage \in Stages
    BY StatusPairs DEF CommitCancel, IInv, RowLocks, LevelMatchesStage
<1>a. /\ alert' = [alert EXCEPT ![a].status = "cancelled"]
      /\ session' = [session EXCEPT ![a].status = "cancelled"]
      /\ audit' = [audit EXCEPT ![a] = Append(@,
             [event |-> "alert_cancelled", from |-> alert[a].stage, to |-> "cancelled"])]
      /\ call' = [call EXCEPT ![r].joined = TRUE]
      /\ pc' = [pc EXCEPT ![r] = "committed"]
      /\ pc[r] = "holdsBoth" /\ call[r].op = "cancel"
      /\ UNCHANGED << shown, jobs, crashes >>
    BY <1>0 DEF CommitCancel, effects
<1>b. /\ \A q \in Requests : call'[q].id = call[q].id /\ call'[q].op = call[q].op
                             /\ call'[q].stage = call[q].stage
      /\ call' \in [Requests -> Calls]
    BY <1>a DEF IInv, TypeOK, Calls
<1>c. \A q \in Requests : pc[q] \in {"holdsAlert", "holdsSession", "holdsBoth"} /\ q # r
          => call[q].id # a
    BY <1>0, <1>a DEF IInv, RowLocks, LocksAlert, LocksSession
<1> HIDE DEF a
<1>1. TypeOK'
    <2>2. [event |-> "alert_cancelled", from |-> alert[a].stage, to |-> "cancelled"]
              \in AuditEvents
        BY <1>0 DEF AuditEvents
    <2>3. audit' \in [Alerts -> Seq(AuditEvents)]
        BY <1>0, <1>a, <2>2 DEF IInv, TypeOK
    <2>4. alert' \in [Alerts -> AlertRows] /\ session' \in [Alerts -> SessionRows]
        BY <1>0, <1>a DEF IInv, TypeOK, AlertRows, SessionRows
    <2>5. QED
        BY <1>a, <1>b, <2>3, <2>4 DEF IInv, TypeOK, Progress
<1>2. CallsMatch'
    BY <1>0, <1>a, <1>b DEF IInv, TypeOK, CallsMatch, AlertRows, a
<1>3. RowLocks'
    BY <1>0, <1>a, <1>b, <1>c DEF IInv, TypeOK, RowLocks, LocksAlert, LocksSession, AlertRows
<1>4. RowsAgree' /\ LevelMatchesStage'
    <2>1. \A b \in Alerts : alert'[b].stage = alert[b].stage
                            /\ session'[b].level = session[b].level
                            /\ (alert[b].status = "none" => alert'[b].status = "none")
        BY <1>0, <1>a DEF IInv, TypeOK, AlertRows, SessionRows
    <2>2. LevelMatchesStage'
        <3>1. SUFFICES ASSUME NEW b \in Alerts, alert'[b].status # "none"
                       PROVE  /\ alert'[b].stage \in Stages
                              /\ session'[b].level = EscalationLevel(alert'[b].stage)
            BY DEF LevelMatchesStage
        <3>2. /\ alert[b].stage \in Stages
              /\ session[b].level = EscalationLevel(alert[b].stage)
            BY <2>1, <3>1 DEF IInv, LevelMatchesStage
        <3>3. alert'[b].stage = alert[b].stage /\ session'[b].level = session[b].level
            BY <2>1
        <3>4. QED
            BY <3>2, <3>3
    <2>3. RowsAgree'
        BY <1>0, <1>a DEF IInv, TypeOK, RowsAgree, SessionStatusFor, AlertRows, SessionRows
    <2>4. QED
        BY <2>2, <2>3
<1>5. QED
    BY <1>1, <1>2, <1>3, <1>4 DEF IInv

LEMMA CommitCloseStep ==
    ASSUME IInv, NEW r \in Requests, CommitClose(r)
    PROVE  IInv'
<1> DEFINE a == call[r].id
<1>0. /\ a \in Alerts /\ alert[a].status = "active" /\ session[a].status = "active"
      /\ alert[a].stage \in Stages
    BY StatusPairs DEF CommitClose, IInv, RowLocks, LevelMatchesStage
<1>a. /\ alert' = [alert EXCEPT ![a].status = "resolved"]
      /\ session' = [session EXCEPT ![a].status = "completed"]
      /\ audit' = [audit EXCEPT ![a] = Append(@,
             [event |-> "session_closed", from |-> alert[a].stage, to |-> "resolved"])]
      /\ pc' = [pc EXCEPT ![r] = "committed"]
      /\ pc[r] = "holdsBoth" /\ call[r].op = "close"
      /\ UNCHANGED << call, shown, jobs, crashes >>
    BY DEF CommitClose, effects
<1>c. \A q \in Requests : pc[q] \in {"holdsAlert", "holdsSession", "holdsBoth"} /\ q # r
          => call[q].id # a
    BY <1>0, <1>a DEF IInv, RowLocks, LocksAlert, LocksSession
<1> HIDE DEF a
<1>1. TypeOK'
    <2>2. [event |-> "session_closed", from |-> alert[a].stage, to |-> "resolved"]
              \in AuditEvents
        BY <1>0 DEF AuditEvents
    <2>3. audit' \in [Alerts -> Seq(AuditEvents)]
        BY <1>0, <1>a, <2>2 DEF IInv, TypeOK
    <2>4. alert' \in [Alerts -> AlertRows] /\ session' \in [Alerts -> SessionRows]
        BY <1>0, <1>a DEF IInv, TypeOK, AlertRows, SessionRows
    <2>5. QED
        BY <1>a, <2>3, <2>4 DEF IInv, TypeOK, Progress
<1>2. CallsMatch'
    BY <1>0, <1>a DEF IInv, TypeOK, CallsMatch, AlertRows, a
<1>3. RowLocks'
    BY <1>0, <1>a, <1>c DEF IInv, TypeOK, RowLocks, LocksAlert, LocksSession, AlertRows
<1>4. RowsAgree' /\ LevelMatchesStage'
    <2>1. \A b \in Alerts : alert'[b].stage = alert[b].stage
                            /\ session'[b].level = session[b].level
                            /\ (alert[b].status = "none" => alert'[b].status = "none")
        BY <1>0, <1>a DEF IInv, TypeOK, AlertRows, SessionRows
    <2>2. LevelMatchesStage'
        <3>1. SUFFICES ASSUME NEW b \in Alerts, alert'[b].status # "none"
                       PROVE  /\ alert'[b].stage \in Stages
                              /\ session'[b].level = EscalationLevel(alert'[b].stage)
            BY DEF LevelMatchesStage
        <3>2. /\ alert[b].stage \in Stages
              /\ session[b].level = EscalationLevel(alert[b].stage)
            BY <2>1, <3>1 DEF IInv, LevelMatchesStage
        <3>3. alert'[b].stage = alert[b].stage /\ session'[b].level = session[b].level
            BY <2>1
        <3>4. QED
            BY <3>2, <3>3
    <2>3. RowsAgree'
        BY <1>0, <1>a DEF IInv, TypeOK, RowsAgree, SessionStatusFor, AlertRows, SessionRows
    <2>4. QED
        BY <2>2, <2>3
<1>5. QED
    BY <1>1, <1>2, <1>3, <1>4 DEF IInv

(* What follows a commit, an abort and a crash leave the tables alone.     *)
LEMMA EffectStep ==
    ASSUME IInv, NEW r \in Requests,
           AnnounceActive(r) \/ AnnounceEnd(r) \/ CancelEscalationThrows(r) \/ DeadlockAbort(r)
    PROVE  IInv'
<1>0. UNCHANGED << alert, session, audit, call, crashes >>
    BY DEF AnnounceActive, AnnounceEnd, CancelEscalationThrows, DeadlockAbort, tables
<1>a. \E end \in {"answered", "failed"} : pc' = [pc EXCEPT ![r] = end]
    BY DEF AnnounceActive, AnnounceEnd, CancelEscalationThrows, DeadlockAbort
<1>1. TypeOK'
    <2>1. pc' \in [Requests -> Progress]
        BY <1>a DEF IInv, TypeOK, Progress
    <2>2. CASE AnnounceActive(r)
        <3>1. call[r].id \in Alerts /\ call[r].stage \in Stages
            BY <2>2 DEF AnnounceActive, IInv, CallsMatch
        <3>2. \A e \in {"alert_started", "alert_escalated"} :
                  [id |-> call[r].id, event |-> e, stage |-> call[r].stage] \in Jobs
            BY <3>1 DEF Jobs
        <3>3. jobs' \subseteq Jobs
            BY <2>2, <3>2 DEF AnnounceActive, Enqueue, effects, IInv, TypeOK
        <3>4. shown' \in [Alerts -> {"none", "active", "cancelled", "resolved"}]
            BY <2>2, <3>1 DEF AnnounceActive, effects, IInv, TypeOK
        <3>5. QED
            BY <1>0, <2>1, <3>3, <3>4 DEF IInv, TypeOK
    <2>3. CASE AnnounceEnd(r)
        <3>1. call[r].id \in Alerts /\ alert[call[r].id].stage \in Stages
            BY <2>3 DEF AnnounceEnd, IInv, CallsMatch
        <3>2. [id |-> call[r].id, event |-> "alert_cancelled",
               stage |-> alert[call[r].id].stage] \in Jobs
            BY <3>1 DEF Jobs
        <3>3. jobs' \subseteq Jobs
            BY <2>3, <3>2 DEF AnnounceEnd, Enqueue, IInv, TypeOK
        <3>4. shown' \in [Alerts -> {"none", "active", "cancelled", "resolved"}]
            BY <2>3, <3>1 DEF AnnounceEnd, IInv, TypeOK
        <3>5. QED
            BY <1>0, <2>1, <3>3, <3>4 DEF IInv, TypeOK
    <2>4. CASE CancelEscalationThrows(r) \/ DeadlockAbort(r)
        BY <1>0, <2>1, <2>4 DEF CancelEscalationThrows, DeadlockAbort, effects, IInv, TypeOK
    <2>5. QED
        BY <2>2, <2>3, <2>4
<1>2. CallsMatch'
    BY <1>0, <1>a DEF IInv, TypeOK, CallsMatch
<1>3. RowLocks'
    BY <1>0, <1>a DEF IInv, TypeOK, RowLocks, LocksAlert, LocksSession
<1>4. RowsAgree' /\ LevelMatchesStage'
    BY <1>0 DEF IInv, RowsAgree, LevelMatchesStage
<1>5. QED
    BY <1>1, <1>2, <1>3, <1>4 DEF IInv

LEMMA CrashStep ==
    ASSUME IInv, Crash
    PROVE  IInv'
<1>1. TypeOK'
    BY CrashAssumption DEF IInv, TypeOK, Crash, tables, effects, Progress, Ended
<1>2. CallsMatch' /\ RowLocks'
    BY DEF IInv, TypeOK, CallsMatch, RowLocks, LocksAlert, LocksSession, Crash, tables, Ended
<1>3. RowsAgree' /\ LevelMatchesStage'
    BY DEF IInv, RowsAgree, LevelMatchesStage, Crash, tables
<1>4. QED
    BY <1>1, <1>2, <1>3 DEF IInv

LEMMA NextIInv == IInv /\ [Next]_vars => IInv'
<1> SUFFICES ASSUME IInv, [Next]_vars PROVE IInv'
    OBVIOUS
<1>1. CASE UNCHANGED vars
    <2>1. TypeOK' /\ RowsAgree' /\ LevelMatchesStage'
        BY <1>1 DEF IInv, vars, TypeOK, RowsAgree, LevelMatchesStage
    <2>2. CallsMatch' /\ RowLocks'
        BY <1>1 DEF IInv, vars, CallsMatch, RowLocks, LocksAlert, LocksSession
    <2>3. QED
        BY <2>1, <2>2 DEF IInv
<1>2. CASE Crash
    BY <1>2, CrashStep
<1>3. ASSUME NEW r \in Requests, Arrive(r) PROVE IInv'
    BY <1>3, CreateStep, EscalateStep, CancelStep, CloseStep DEF Arrive
<1>4. ASSUME NEW r \in Requests, Serve(r) PROVE IInv'
    BY <1>4, CommitCreateStep, LockStep, CommitEscalateStep, CommitCancelStep, CommitCloseStep,
       EffectStep DEF Serve
<1>5. QED
    BY <1>1, <1>2, <1>3, <1>4 DEF Next

LEMMA Invariance == Spec => []IInv
<1>1. QED
    BY InitIInv, NextIInv, PTL DEF Spec

(* The rows keep their types in every reachable state.                     *)
THEOREM TypeCorrect == Spec => []TypeOK
<1>1. IInv => TypeOK
    BY DEF IInv
<1>2. QED
    BY <1>1, Invariance, PTL

(* The alerts row and the session row always tell the same story, however  *)
(* many requests race on them and in whatever order they lock the rows.    *)
THEOREM RowsConsistent == Spec => []SessionFollowsAlert
<1>1. IInv => SessionFollowsAlert
    BY DEF IInv, SessionFollowsAlert
<1>2. QED
    BY <1>1, Invariance, PTL

(* The row locks exclude one another, and whoever holds a row will find    *)
(* the alert active when it commits.                                       *)
THEOREM LocksProtect == Spec => []RowLocks
<1>1. IInv => RowLocks
    BY DEF IInv
<1>2. QED
    BY <1>1, Invariance, PTL

-----------------------------------------------------------------------------
(* Only the four commits write the tables.                                 *)
LEMMA QuietSteps ==
    ASSUME [Next]_vars,
           \A r \in Requests : ~CommitCreate(r) /\ ~CommitEscalate(r)
                               /\ ~CommitCancel(r) /\ ~CommitClose(r)
    PROVE  UNCHANGED tables
<1>1. ASSUME NEW r \in Requests, Arrive(r) PROVE UNCHANGED tables
    BY <1>1 DEF Arrive, Create, Escalate, Cancel, Close
<1>2. ASSUME NEW r \in Requests, Serve(r) PROVE UNCHANGED tables
    BY <1>2 DEF Serve, EscalateAlert, TakeSession, TakeAlert, AnnounceActive, AnnounceEnd,
                CancelEscalationThrows, DeadlockAbort
<1>3. CASE Crash
    BY <1>3 DEF Crash
<1>4. CASE UNCHANGED vars
    BY <1>4 DEF vars, tables
<1>5. QED
    BY <1>1, <1>2, <1>3, <1>4 DEF Next

(* A commit changes the rows of one alert, which was fresh or active.      *)
LEMMA CommitsTouchOneAlert ==
    ASSUME IInv, NEW r \in Requests,
           CommitCreate(r) \/ CommitEscalate(r) \/ CommitCancel(r) \/ CommitClose(r)
    PROVE  \E a \in Alerts :
              /\ alert[a].status \in {"none", "active"}
              /\ \A b \in Alerts \ {a} : UNCHANGED << alert[b], session[b], audit[b] >>
<1>1. CASE CommitCreate(r)
    BY <1>1 DEF CommitCreate, IInv, TypeOK
<1>2. CASE CommitEscalate(r)
    <2>1. call[r].id \in Alerts /\ alert[call[r].id].status = "active"
        BY <1>2 DEF CommitEscalate, IInv, RowLocks
    <2>2. QED
        BY <1>2, <2>1 DEF CommitEscalate, IInv, TypeOK
<1>3. CASE CommitCancel(r)
    <2>1. call[r].id \in Alerts /\ alert[call[r].id].status = "active"
        BY <1>3 DEF CommitCancel, IInv, RowLocks
    <2>2. QED
        BY <1>3, <2>1 DEF CommitCancel, IInv, TypeOK
<1>4. CASE CommitClose(r)
    <2>1. call[r].id \in Alerts /\ alert[call[r].id].status = "active"
        BY <1>4 DEF CommitClose, IInv, RowLocks
    <2>2. QED
        BY <1>4, <2>1 DEF CommitClose, IInv, TypeOK
<1>5. QED
    BY <1>1, <1>2, <1>3, <1>4

(* No step touches an alert that has ended, although close writes the      *)
(* alerts row without looking at its status.                               *)
THEOREM EndingsAreFinal == Spec => EndedIsFinal
<1>1. IInv /\ [Next]_vars =>
          [\A a \in Alerts : alert[a].status \in {"cancelled", "resolved"} =>
              UNCHANGED << alert[a], session[a], audit[a] >>]_vars
    <2> SUFFICES ASSUME IInv, [Next]_vars, NEW a \in Alerts,
                        alert[a].status \in {"cancelled", "resolved"}
                 PROVE  UNCHANGED << alert[a], session[a], audit[a] >>
        OBVIOUS
    <2>1. CASE \E r \in Requests : CommitCreate(r) \/ CommitEscalate(r)
                                   \/ CommitCancel(r) \/ CommitClose(r)
        BY <2>1, CommitsTouchOneAlert
    <2>2. CASE \A r \in Requests : ~CommitCreate(r) /\ ~CommitEscalate(r)
                                   /\ ~CommitCancel(r) /\ ~CommitClose(r)
        BY <2>2, QuietSteps DEF tables
    <2>3. QED
        BY <2>1, <2>2
<1>2. QED
    BY <1>1, Invariance, PTL DEF Spec, EndedIsFinal

-----------------------------------------------------------------------------
(* Apart from the commits of cancel and close, no step makes a request one *)
(* that ended an alert.                                                    *)
LEMMA EndedByIsNew ==
    ASSUME IInv, [Next]_vars, NEW q \in Requests, NEW b \in Alerts, EndedBy(q, b)'
    PROVE  \/ EndedBy(q, b)
           \/ call[q].id = b /\ (CommitCancel(q) \/ CommitClose(q))
<1> USE DEF EndedBy, IInv, TypeOK, Calls
<1>1. CASE Crash
    BY <1>1 DEF Crash, tables
<1>2. CASE UNCHANGED vars
    BY <1>2 DEF vars
<1>3. ASSUME NEW r \in Requests, Arrive(r)
      PROVE  EndedBy(q, b)
    <2>1. ASSUME NEW stage \in RequestedStages, Create(r, stage) PROVE EndedBy(q, b)
        <3>1. call[r].op = "none"
            BY <2>1 DEF Create, CallsMatch
        <3>2. pc' \in {[pc EXCEPT ![r] = "answered"], [pc EXCEPT ![r] = "begun"]}
            BY <2>1 DEF Create
        <3>3. \A p \in Requests \ {r} : call'[p] = call[p]
            BY <2>1 DEF Create
        <3>4. pc'[r] \in {"committed", "answered"} => call'[r].op = "none"
            BY <2>1, <3>1 DEF Create
        <3>5. QED
            BY <3>2, <3>3, <3>4
    <2>2. ASSUME NEW a \in Alerts, NEW stage \in RequestedStages, Escalate(r, a, stage)
          PROVE EndedBy(q, b)
        BY <2>2 DEF Escalate
    <2>3. ASSUME NEW a \in Alerts, Cancel(r, a) PROVE EndedBy(q, b)
        BY <2>3 DEF Cancel
    <2>4. ASSUME NEW a \in Alerts, Close(r, a) PROVE EndedBy(q, b)
        BY <2>4 DEF Close
    <2>5. QED
        BY <1>3, <2>1, <2>2, <2>3, <2>4 DEF Arrive
<1>4. ASSUME NEW r \in Requests, Serve(r)
      PROVE  EndedBy(q, b) \/ (call[q].id = b /\ (CommitCancel(q) \/ CommitClose(q)))
    <2>1. CASE CommitCreate(r)
        BY <2>1 DEF CommitCreate
    <2>2. CASE EscalateAlert(r) \/ TakeSession(r) \/ TakeAlert(r) \/ DeadlockAbort(r)
        <3>1. \E p \in {"holdsAlert", "holdsBoth", "failed"} :
                  pc' = [pc EXCEPT ![r] = p] /\ call' = call
            BY <2>2 DEF EscalateAlert, TakeSession, TakeAlert, DeadlockAbort
        <3>2. QED
            BY <3>1
    <2>3. CASE CommitEscalate(r)
        BY <2>3 DEF CommitEscalate
    <2>4. CASE CommitCancel(r)
        BY <2>4 DEF CommitCancel
    <2>5. CASE CommitClose(r)
        BY <2>5 DEF CommitClose
    <2>6. CASE AnnounceActive(r) \/ AnnounceEnd(r) \/ CancelEscalationThrows(r)
        BY <2>6 DEF AnnounceActive, AnnounceEnd, CancelEscalationThrows
    <2>7. QED
        BY <1>4, <2>1, <2>2, <2>3, <2>4, <2>5, <2>6 DEF Serve
<1>5. QED
    BY <1>1, <1>2, <1>3, <1>4 DEF Next

(* The arguments of a request that has committed do not change any more.   *)
LEMMA StepsKeepEndedCalls ==
    ASSUME IInv, [Next]_vars, NEW q \in Requests, pc[q] \in {"committed", "answered"}
    PROVE  call'[q].op = call[q].op
<1> USE DEF IInv, TypeOK, Calls
<1>1. CASE Crash \/ UNCHANGED vars
    BY <1>1 DEF Crash, tables, vars
<1>2. ASSUME NEW r \in Requests, Arrive(r)
      PROVE  call'[q].op = call[q].op
    BY <1>2 DEF Arrive, Create, Escalate, Cancel, Close
<1>3. ASSUME NEW r \in Requests, Serve(r)
      PROVE  call'[q].op = call[q].op
    BY <1>3 DEF Serve, CommitCreate, CommitCancel, CommitEscalate, CommitClose, EscalateAlert,
                TakeSession, TakeAlert, AnnounceActive, AnnounceEnd, CancelEscalationThrows,
                DeadlockAbort
<1>4. QED
    BY <1>1, <1>2, <1>3 DEF Next

LEMMA NextOneEnding == IInv /\ OneEnding /\ [Next]_vars => OneEnding'
<1> SUFFICES ASSUME IInv, OneEnding, [Next]_vars
             PROVE  OneEnding'
    OBVIOUS
<1>1. ASSUME NEW b \in Alerts, NEW r \in Requests, EndedBy(r, b)'
      PROVE  /\ alert'[b].status = IF call'[r].op = "cancel" THEN "cancelled" ELSE "resolved"
             /\ \A q \in Requests : EndedBy(q, b)' => r = q
    <2>1. CASE \E c \in Requests : call[c].id = b /\ (CommitCancel(c) \/ CommitClose(c))
        <3>1. PICK c \in Requests : call[c].id = b /\ (CommitCancel(c) \/ CommitClose(c))
            BY <2>1
        <3>2. alert[b].status = "active"
            BY <3>1 DEF CommitCancel, CommitClose, IInv, RowLocks
        <3>3. \A q \in Requests : ~EndedBy(q, b)
            BY <3>2 DEF OneEnding
        <3>4. \A q \in Requests \ {c} : pc'[q] = pc[q]
            BY <3>1 DEF CommitCancel, CommitClose, IInv, TypeOK
        <3>5. \A q \in Requests : EndedBy(q, b)' => q = c
            <4>1. SUFFICES ASSUME NEW q \in Requests, EndedBy(q, b)', q # c
                           PROVE  FALSE
                OBVIOUS
            <4>2. CommitCancel(q) \/ CommitClose(q)
                BY <3>3, <4>1, EndedByIsNew
            <4>3. pc[q] = "holdsBoth" /\ pc'[q] = "committed"
                BY <4>2 DEF CommitCancel, CommitClose, IInv, TypeOK
            <4>4. QED
                BY <3>4, <4>1, <4>3
        <3>6. alert'[b].status = IF call'[c].op = "cancel" THEN "cancelled" ELSE "resolved"
            BY <3>1, <3>2 DEF CommitCancel, CommitClose, IInv, TypeOK, Calls, AlertRows
        <3>7. QED
            BY <1>1, <3>5, <3>6
    <2>2. CASE ~\E c \in Requests : call[c].id = b /\ (CommitCancel(c) \/ CommitClose(c))
        <3>1. \A q \in Requests : EndedBy(q, b)' => EndedBy(q, b)
            BY <2>2, EndedByIsNew
        <3>2. EndedBy(r, b)
            BY <1>1, <3>1
        <3>3. alert[b].status = IF call[r].op = "cancel" THEN "cancelled" ELSE "resolved"
            BY <3>2 DEF OneEnding
        <3>4. alert'[b] = alert[b]
            <4>1. CASE \E c \in Requests : CommitCreate(c) \/ CommitEscalate(c)
                                           \/ CommitCancel(c) \/ CommitClose(c)
                BY <3>3, <4>1, CommitsTouchOneAlert
            <4>2. CASE \A c \in Requests : ~CommitCreate(c) /\ ~CommitEscalate(c)
                                           /\ ~CommitCancel(c) /\ ~CommitClose(c)
                BY <4>2, QuietSteps DEF tables
            <4>3. QED
                BY <4>1, <4>2
        <3>5. call'[r].op = call[r].op
            BY <3>2, StepsKeepEndedCalls DEF EndedBy
        <3>6. \A q \in Requests : EndedBy(q, b)' => r = q
            BY <3>1, <3>2 DEF OneEnding
        <3>7. QED
            BY <3>3, <3>4, <3>5, <3>6
    <2>3. QED
        BY <2>1, <2>2
<1>2. QED
    BY <1>1 DEF OneEnding

(* At most one of the requests that raced to end an alert is told that it  *)
(* did, and the alert stands as that request asked.                        *)
THEOREM EndedOnce == Spec => []OneEnding
<1>1. Init => OneEnding
    BY DEF Init, OneEnding, EndedBy
<1>2. QED
    BY <1>1, NextOneEnding, Invariance, PTL DEF Spec

-----------------------------------------------------------------------------
(* TrailTellsState, row by row.                                            *)
Standing(row) == IF row.status = "active" THEN row.stage ELSE row.status

Trail(row, trail) ==
    IF row.status = "none"
      THEN trail = << >>
      ELSE /\ trail # << >>
           /\ \A i \in 1..Len(trail) :
                 /\ trail[i].event = "alert_created" <=> i = 1
                 /\ i < Len(trail) => trail[i].to \in Stages
           /\ trail[Len(trail)].to = Standing(row)

LEMMA TrailRows == TrailTellsState <=> \A a \in Alerts : Trail(alert[a], audit[a])
BY DEF TrailTellsState, Trail, Standing, LastEvent

(* Writing one more event after the trail of an active alert.              *)
LEMMA TrailGrows ==
    ASSUME NEW row \in AlertRows, NEW new \in AlertRows, NEW trail \in Seq(AuditEvents),
           NEW e \in AuditEvents, Trail(row, trail),
           row.status = "active", row.stage \in Stages, new.status # "none",
           e.event # "alert_created", e.to = Standing(new)
    PROVE  Trail(new, Append(trail, e))
<1> DEFINE longer == Append(trail, e)
<1>1. Len(trail) \in Nat /\ Len(trail) > 0
    BY DEF Trail
<1>2. /\ Len(longer) = Len(trail) + 1
      /\ \A i \in 1..Len(trail) : longer[i] = trail[i]
      /\ longer[Len(trail) + 1] = e
    OBVIOUS
<1>3. \A i \in 1..Len(trail) : trail[i].to \in Stages
    BY <1>1 DEF Trail, Standing
<1>4. \A i \in 1..Len(longer) : /\ longer[i].event = "alert_created" <=> i = 1
                                /\ i < Len(longer) => longer[i].to \in Stages
    <2>1. SUFFICES ASSUME NEW i \in 1..Len(longer)
                   PROVE  /\ longer[i].event = "alert_created" <=> i = 1
                          /\ i < Len(longer) => longer[i].to \in Stages
        OBVIOUS
    <2>2. CASE i \in 1..Len(trail)
        <3>1. longer[i] = trail[i]
            BY <2>2, <1>2
        <3>2. trail[i].event = "alert_created" <=> i = 1
            BY <2>2 DEF Trail
        <3>3. trail[i].to \in Stages
            BY <2>2, <1>3
        <3>4. QED
            BY <3>1, <3>2, <3>3
    <2>3. CASE i = Len(trail) + 1
        BY <2>3, <1>1, <1>2
    <2>4. QED
        BY <1>1, <1>2, <2>1, <2>2, <2>3
<1>5. longer # << >> /\ longer[Len(longer)].to = Standing(new)
    BY <1>1, <1>2
<1> HIDE DEF longer
<1>6. Trail(new, longer)
    BY <1>4, <1>5 DEF Trail
<1>7. QED
    BY <1>6 DEF longer

(* The first event of a trail.                                             *)
LEMMA TrailStarts ==
    ASSUME NEW new \in AlertRows, NEW e \in AuditEvents,
           new.status = "active", e.event = "alert_created", e.to = new.stage
    PROVE  Trail(new, Append(<< >>, e))
<1>1. Append(<< >>, e) = << e >>
    OBVIOUS
<1>2. Len(<< e >>) = 1 /\ << e >>[1] = e /\ << e >> # << >>
    OBVIOUS
<1>3. QED
    BY <1>1, <1>2 DEF Trail, Standing

LEMMA NextTrail == IInv /\ IInv' /\ TrailTellsState /\ [Next]_vars => TrailTellsState'
<1> SUFFICES ASSUME IInv, IInv', TrailTellsState, [Next]_vars
             PROVE  TrailTellsState'
    OBVIOUS
<1>1. \A a \in Alerts : /\ alert[a] \in AlertRows /\ audit[a] \in Seq(AuditEvents)
                        /\ alert'[a] \in AlertRows
                        /\ Trail(alert[a], audit[a])
    BY TrailRows DEF IInv, TypeOK
<1>2. SUFFICES ASSUME NEW b \in Alerts
               PROVE  Trail(alert'[b], audit'[b])
    BY DEF TrailTellsState, Trail, Standing, LastEvent
<1>3. ASSUME NEW r \in Requests, CommitCreate(r) PROVE Trail(alert'[b], audit'[b])
    <2>0. PICK a \in Alerts :
              /\ alert[a].status = "none"
              /\ alert' = [alert EXCEPT ![a] = [status |-> "active", stage |-> call[r].stage]]
              /\ audit' = [audit EXCEPT ![a] = Append(@,
                     [event |-> "alert_created", from |-> "none", to |-> call[r].stage])]
        BY <1>3 DEF CommitCreate
    <2>1. call[r].stage \in Stages
        BY <1>3 DEF CommitCreate, IInv, CallsMatch
    <2> DEFINE e == [event |-> "alert_created", from |-> "none", to |-> call[r].stage]
    <2>2. e \in AuditEvents /\ e.event = "alert_created" /\ e.to = call[r].stage
        BY <2>1 DEF AuditEvents
    <2>3. CASE b = a
        <3>1. audit[b] = << >>
            BY <1>1, <2>0, <2>3 DEF Trail
        <3>2. audit'[b] = Append(<< >>, e)
            BY <2>0, <2>3, <3>1 DEF IInv, TypeOK
        <3>3. alert'[b].status = "active" /\ alert'[b].stage = call[r].stage
            BY <2>0, <2>3 DEF IInv, TypeOK
        <3>4. QED
            BY <1>1, <2>2, <3>2, <3>3, TrailStarts
    <2>4. CASE b # a
        BY <1>1, <2>0, <2>4 DEF IInv, TypeOK
    <2>5. QED
        BY <2>3, <2>4
<1>4. ASSUME NEW r \in Requests, NEW e \in AuditEvents, call[r].id \in Alerts,
             alert[call[r].id].status = "active", e.event # "alert_created",
             audit' = [audit EXCEPT ![call[r].id] = Append(@, e)],
             \A c \in Alerts \ {call[r].id} : alert'[c] = alert[c],
             alert'[call[r].id].status # "none",
             e.to = Standing(alert'[call[r].id])
      PROVE  Trail(alert'[b], audit'[b])
    <2>1. CASE b = call[r].id
        <3>1. audit'[b] = Append(audit[b], e)
            BY <1>4, <2>1 DEF IInv, TypeOK
        <3>2. alert[b].stage \in Stages
            BY <1>4, <2>1 DEF IInv, LevelMatchesStage
        <3>3. QED
            BY <1>1, <1>4, <2>1, <3>1, <3>2, TrailGrows
    <2>2. CASE b # call[r].id
        BY <1>1, <1>4, <2>2 DEF IInv, TypeOK
    <2>3. QED
        BY <2>1, <2>2
<1>5. ASSUME NEW r \in Requests, CommitEscalate(r) PROVE Trail(alert'[b], audit'[b])
    <2>1. call[r].id \in Alerts /\ alert[call[r].id].status = "active" /\ call[r].stage \in Stages
        BY <1>5 DEF CommitEscalate, IInv, RowLocks, CallsMatch
    <2> DEFINE e == [event |-> "alert_escalated", from |-> call[r].from, to |-> call[r].stage]
    <2>2. e \in AuditEvents /\ e.event # "alert_created" /\ e.to = call[r].stage
        BY <2>1 DEF AuditEvents, IInv, TypeOK, Calls
    <2>3. audit' = [audit EXCEPT ![call[r].id] = Append(@, e)]
        BY <1>5 DEF CommitEscalate
    <2>4. /\ \A c \in Alerts \ {call[r].id} : alert'[c] = alert[c]
          /\ alert'[call[r].id].status = "active"
          /\ alert'[call[r].id].stage = call[r].stage
        BY <1>5, <2>1 DEF CommitEscalate, IInv, TypeOK, AlertRows
    <2>5. QED
        BY <1>4, <2>1, <2>2, <2>3, <2>4 DEF Standing
<1>6. ASSUME NEW r \in Requests, CommitCancel(r) PROVE Trail(alert'[b], audit'[b])
    <2>1. call[r].id \in Alerts /\ alert[call[r].id].status = "active"
        BY <1>6 DEF CommitCancel, IInv, RowLocks
    <2> DEFINE e == [event |-> "alert_cancelled", from |-> alert[call[r].id].stage,
                     to |-> "cancelled"]
    <2>2. e \in AuditEvents /\ e.event # "alert_created" /\ e.to = "cancelled"
        BY <2>1 DEF AuditEvents, IInv, LevelMatchesStage
    <2>3. audit' = [audit EXCEPT ![call[r].id] = Append(@, e)]
        BY <1>6 DEF CommitCancel
    <2>4. /\ \A c \in Alerts \ {call[r].id} : alert'[c] = alert[c]
          /\ alert'[call[r].id].status = "cancelled"
        BY <1>6, <2>1 DEF CommitCancel, IInv, TypeOK, AlertRows
    <2>5. QED
        BY <1>4, <2>1, <2>2, <2>3, <2>4 DEF Standing
<1>7. ASSUME NEW r \in Requests, CommitClose(r) PROVE Trail(alert'[b], audit'[b])
    <2>1. call[r].id \in Alerts /\ alert[call[r].id].status = "active"
        BY <1>7 DEF CommitClose, IInv, RowLocks
    <2> DEFINE e == [event |-> "session_closed", from |-> alert[call[r].id].stage,
                     to |-> "resolved"]
    <2>2. e \in AuditEvents /\ e.event # "alert_created" /\ e.to = "resolved"
        BY <2>1 DEF AuditEvents, IInv, LevelMatchesStage
    <2>3. audit' = [audit EXCEPT ![call[r].id] = Append(@, e)]
        BY <1>7 DEF CommitClose
    <2>4. /\ \A c \in Alerts \ {call[r].id} : alert'[c] = alert[c]
          /\ alert'[call[r].id].status = "resolved"
        BY <1>7, <2>1 DEF CommitClose, IInv, TypeOK, AlertRows
    <2>5. QED
        BY <1>4, <2>1, <2>2, <2>3, <2>4 DEF Standing
<1>8. CASE \A r \in Requests : ~CommitCreate(r) /\ ~CommitEscalate(r)
                               /\ ~CommitCancel(r) /\ ~CommitClose(r)
    BY <1>1, <1>8, QuietSteps DEF tables
<1>9. QED
    BY <1>3, <1>5, <1>6, <1>7, <1>8

(* The audit trail opens with the creation, ends with the ending, and its  *)
(* last event is the state the alert is in.                                *)
THEOREM TrailIsTrue == Spec => []TrailTellsState
<1>1. Init => TrailTellsState
    BY DEF Init, TrailTellsState, NoAlert
<1>2. QED
    BY <1>1, NextTrail, Invariance, PTL DEF Spec

-----------------------------------------------------------------------------
(* Announcements.  A request announces after its commit, and other commits *)
(* come in between: what it is about to say stays true because trails only *)
(* grow, and because what has ended stays as it is.                        *)
Told(trail, event, stage) ==
    \E i \in 1..Len(trail) : trail[i].event = event /\ trail[i].to = stage
ToldEnd(trail, stage) ==
    \E i \in 1..Len(trail) : trail[i].event = "alert_cancelled" /\ trail[i].from = stage

Owed(progress, c, row, trail) ==
    progress = "committed" =>
        /\ row.status # "none"
        /\ c.op = "create" => Told(trail, "alert_created", c.stage)
        /\ c.op = "escalate" => Told(trail, "alert_escalated", c.stage)
        /\ c.op = "cancel" => row.status = "cancelled" /\ ToldEnd(trail, row.stage)
        /\ c.op = "close" => row.status = "resolved"

EffectsOwed == \A r \in Requests : Owed(pc[r], call[r], alert[call[r].id], audit[call[r].id])

RoomTold(room, row) ==
    /\ room # "none" => row.status # "none"
    /\ room \in {"cancelled", "resolved"} => row.status = room

JobTold(j, trail) ==
    CASE j.event = "alert_started" -> Told(trail, "alert_created", j.stage)
      [] j.event = "alert_escalated" -> Told(trail, "alert_escalated", j.stage)
      [] OTHER -> ToldEnd(trail, j.stage)

LEMMA AnnouncedByParts ==
    AnnouncedIsCommitted <=> /\ \A a \in Alerts : RoomTold(shown[a], alert[a])
                             /\ \A j \in jobs : JobTold(j, audit[j.id])
BY DEF AnnouncedIsCommitted, RoomTold, JobTold, Told, ToldEnd

(* A longer trail tells no less, and its last event.                       *)
LEMMA LongerTellsMore ==
    ASSUME NEW trail \in Seq(AuditEvents), NEW e \in AuditEvents
    PROVE  LET longer == Append(trail, e)
           IN  /\ \A event, stage : Told(trail, event, stage) => Told(longer, event, stage)
               /\ \A stage : ToldEnd(trail, stage) => ToldEnd(longer, stage)
               /\ Told(longer, e.event, e.to)
               /\ e.event = "alert_cancelled" => ToldEnd(longer, e.from)
<1> DEFINE longer == Append(trail, e)
<1>1. /\ Len(trail) \in Nat /\ Len(longer) = Len(trail) + 1
      /\ \A i \in 1..Len(trail) : longer[i] = trail[i]
      /\ longer[Len(longer)] = e
    OBVIOUS
<1> HIDE DEF longer
<1>2. Len(longer) \in 1..Len(longer) /\ \A i \in 1..Len(trail) : i \in 1..Len(longer)
    BY <1>1
<1>3. /\ \A event, stage : Told(trail, event, stage) => Told(longer, event, stage)
      /\ \A stage : ToldEnd(trail, stage) => ToldEnd(longer, stage)
    BY <1>1, <1>2 DEF Told, ToldEnd
<1>4. /\ Told(longer, e.event, e.to)
      /\ e.event = "alert_cancelled" => ToldEnd(longer, e.from)
    BY <1>1, <1>2 DEF Told, ToldEnd
<1> QED
    BY <1>3, <1>4 DEF longer

(* The commits write one event each.                                       *)
LEMMA CommitsWrite ==
    ASSUME IInv, NEW r \in Requests,
           CommitCreate(r) \/ CommitEscalate(r) \/ CommitCancel(r) \/ CommitClose(r)
    PROVE  \E a \in Alerts, e \in AuditEvents :
              /\ audit' = [audit EXCEPT ![a] = Append(@, e)]
              /\ \A b \in Alerts \ {a} : alert'[b] = alert[b]
              /\ alert[a].status \in {"none", "active"} /\ alert'[a].status # "none"
              /\ call'[r].id = a /\ call'[r].op = call[r].op /\ call'[r].stage = call[r].stage
              /\ CommitCreate(r) => e.event = "alert_created" /\ e.to = call[r].stage
              /\ CommitEscalate(r) => e.event = "alert_escalated" /\ e.to = call[r].stage
              /\ CommitCancel(r) => /\ e.event = "alert_cancelled" /\ e.from = alert'[a].stage
                                    /\ alert'[a].status = "cancelled"
              /\ CommitClose(r) => alert'[a].status = "resolved"
<1>0. call[r] \in Calls /\ call[r].stage \in Stages \cup {"none"} /\ call[r].from \in Stages \cup {"none"}
    BY DEF IInv, TypeOK, Calls
<1>1. CASE CommitCreate(r)
    <2>0. PICK a \in Alerts :
              /\ alert[a].status = "none"
              /\ alert' = [alert EXCEPT ![a] = [status |-> "active", stage |-> call[r].stage]]
              /\ audit' = [audit EXCEPT ![a] = Append(@,
                     [event |-> "alert_created", from |-> "none", to |-> call[r].stage])]
              /\ call' = [call EXCEPT ![r].id = a, ![r].joined = TRUE]
        BY <1>1 DEF CommitCreate
    <2> DEFINE e == [event |-> "alert_created", from |-> "none", to |-> call[r].stage]
    <2>1. call[r].stage \in Stages /\ call[r].op = "create"
        BY <1>1 DEF CommitCreate, IInv, CallsMatch
    <2>2. e \in AuditEvents /\ e.event = "alert_created" /\ e.to = call[r].stage
        BY <2>1 DEF AuditEvents
    <2>3. /\ \A b \in Alerts \ {a} : alert'[b] = alert[b]
          /\ alert'[a].status = "active"
          /\ call'[r].id = a /\ call'[r].op = call[r].op /\ call'[r].stage = call[r].stage
        BY <1>0, <2>0 DEF IInv, TypeOK, Calls
    <2>4. ~CommitEscalate(r) /\ ~CommitCancel(r) /\ ~CommitClose(r)
        BY <2>1 DEF CommitEscalate, CommitCancel, CommitClose
    <2>5. audit' = [audit EXCEPT ![a] = Append(@, e)]
        BY <2>0
    <2> HIDE DEF e
    <2> QED
        BY <2>0, <2>2, <2>3, <2>4, <2>5
<1> DEFINE a == call[r].id
<1>2. CASE CommitEscalate(r)
    <2> DEFINE e == [event |-> "alert_escalated", from |-> call[r].from, to |-> call[r].stage]
    <2>1. /\ a \in Alerts /\ alert[a].status = "active" /\ call[r].stage \in Stages
          /\ call[r].op = "escalate" /\ call' = call
        BY <1>2 DEF CommitEscalate, IInv, RowLocks, CallsMatch
    <2>2. e \in AuditEvents /\ e.event = "alert_escalated" /\ e.to = call[r].stage
        BY <1>0, <2>1 DEF AuditEvents
    <2>3. \A b \in Alerts \ {a} : alert'[b] = alert[b]
        BY <1>2, <2>1 DEF CommitEscalate, IInv, TypeOK
    <2>4. alert'[a].status = "active"
        BY <1>2, <2>1 DEF CommitEscalate, IInv, TypeOK, AlertRows
    <2>5. ~CommitCreate(r) /\ ~CommitCancel(r) /\ ~CommitClose(r)
        BY <2>1 DEF CommitCreate, CommitCancel, CommitClose
    <2>6. audit' = [audit EXCEPT ![a] = Append(@, e)]
        BY <1>2 DEF CommitEscalate
    <2> HIDE DEF e
    <2> QED
        BY <2>1, <2>2, <2>3, <2>4, <2>5, <2>6
<1>3. CASE CommitCancel(r)
    <2> DEFINE e == [event |-> "alert_cancelled", from |-> alert[a].stage, to |-> "cancelled"]
    <2>1. /\ a \in Alerts /\ alert[a].status = "active" /\ alert[a].stage \in Stages
          /\ call[r].op = "cancel"
        BY <1>3 DEF CommitCancel, IInv, RowLocks, LevelMatchesStage
    <2>2. e \in AuditEvents /\ e.event = "alert_cancelled" /\ e.from = alert[a].stage
        BY <2>1 DEF AuditEvents
    <2>3. \A b \in Alerts \ {a} : alert'[b] = alert[b]
        BY <1>3, <2>1 DEF CommitCancel, IInv, TypeOK
    <2>4. alert'[a].status = "cancelled" /\ alert'[a].stage = alert[a].stage
        BY <1>3, <2>1 DEF CommitCancel, IInv, TypeOK, AlertRows
    <2>5. call'[r].id = a /\ call'[r].op = call[r].op /\ call'[r].stage = call[r].stage
        BY <1>0, <1>3 DEF CommitCancel, IInv, TypeOK, Calls
    <2>6. ~CommitCreate(r) /\ ~CommitEscalate(r) /\ ~CommitClose(r)
        BY <2>1 DEF CommitCreate, CommitEscalate, CommitClose
    <2>7. audit' = [audit EXCEPT ![a] = Append(@, e)]
        BY <1>3 DEF CommitCancel
    <2> HIDE DEF e
    <2> QED
        BY <2>1, <2>2, <2>3, <2>4, <2>5, <2>6, <2>7
<1>4. CASE CommitClose(r)
    <2> DEFINE e == [event |-> "session_closed", from |-> alert[a].stage, to |-> "resolved"]
    <2>1. /\ a \in Alerts /\ alert[a].status = "active" /\ alert[a].stage \in Stages
          /\ call[r].op = "close" /\ call' = call
        BY <1>4 DEF CommitClose, IInv, RowLocks, LevelMatchesStage
    <2>2. e \in AuditEvents
        BY <2>1 DEF AuditEvents
    <2>3. \A b \in Alerts \ {a} : alert'[b] = alert[b]
        BY <1>4, <2>1 DEF CommitClose, IInv, TypeOK
    <2>4. alert'[a].status = "resolved"
        BY <1>4, <2>1 DEF CommitClose, IInv, TypeOK, AlertRows
    <2>5. ~CommitCreate(r) /\ ~CommitEscalate(r) /\ ~CommitCancel(r)
        BY <2>1 DEF CommitCreate, CommitEscalate, CommitCancel
    <2>6. audit' = [audit EXCEPT ![a] = Append(@, e)]
        BY <1>4 DEF CommitClose
    <2> HIDE DEF e
    <2> QED
        BY <2>1, <2>2, <2>3, <2>4, <2>5, <2>6
<1> QED
    BY <1>1, <1>2, <1>3, <1>4

(* What any step does to the rows and the trail of an alert.               *)
LEMMA TablesGrow ==
    ASSUME IInv, [Next]_vars, NEW b \in Alerts
    PROVE  /\ \A event, stage : Told(audit[b], event, stage) => Told(audit'[b], event, stage)
           /\ \A stage : ToldEnd(audit[b], stage) => ToldEnd(audit'[b], stage)
           /\ alert[b].status # "none" => alert'[b].status # "none"
           /\ alert[b].status \in {"cancelled", "resolved"} => alert'[b] = alert[b]
<1>1. CASE \E r \in Requests : CommitCreate(r) \/ CommitEscalate(r)
                               \/ CommitCancel(r) \/ CommitClose(r)
    <2>1. PICK a \in Alerts, e \in AuditEvents :
              /\ audit' = [audit EXCEPT ![a] = Append(@, e)]
              /\ \A c \in Alerts \ {a} : alert'[c] = alert[c]
              /\ alert[a].status \in {"none", "active"} /\ alert'[a].status # "none"
        BY <1>1, CommitsWrite
    <2>2. audit[b] \in Seq(AuditEvents) /\ audit \in [Alerts -> Seq(AuditEvents)]
        BY DEF IInv, TypeOK
    <2>3. CASE b = a
        BY <2>1, <2>2, <2>3, LongerTellsMore
    <2>4. CASE b # a
        BY <2>1, <2>2, <2>4
    <2> QED
        BY <2>3, <2>4
<1>2. CASE \A r \in Requests : ~CommitCreate(r) /\ ~CommitEscalate(r)
                               /\ ~CommitCancel(r) /\ ~CommitClose(r)
    BY <1>2, QuietSteps DEF tables
<1> QED
    BY <1>1, <1>2

(* A request is committed by its own commit only.                          *)
LEMMA CommittedByCommit ==
    ASSUME IInv, [Next]_vars, NEW r \in Requests, pc'[r] = "committed"
    PROVE  \/ CommitCreate(r) \/ CommitEscalate(r) \/ CommitCancel(r) \/ CommitClose(r)
           \/ pc[r] = "committed" /\ call'[r] = call[r]
<1>1. pc \in [Requests -> Progress] /\ call \in [Requests -> Calls]
    BY DEF IInv, TypeOK
<1>2. CASE Crash
    BY <1>1, <1>2 DEF Crash, Ended
<1>3. CASE UNCHANGED vars
    BY <1>3 DEF vars
<1>4. ASSUME NEW q \in Requests, Arrive(q) PROVE pc[r] = "committed" /\ call'[r] = call[r]
    BY <1>1, <1>4 DEF Arrive, Create, Escalate, Cancel, Close
<1>5. ASSUME NEW q \in Requests, Serve(q), q # r
      PROVE  pc[r] = "committed" /\ call'[r] = call[r]
    BY <1>1, <1>5 DEF Serve, CommitCreate, EscalateAlert, TakeSession, CommitEscalate, CommitCancel,
                      TakeAlert, CommitClose, AnnounceActive, AnnounceEnd,
                      CancelEscalationThrows, DeadlockAbort
<1>6. CASE Serve(r)
    BY <1>1, <1>6 DEF Serve, EscalateAlert, TakeSession, TakeAlert, AnnounceActive, AnnounceEnd,
                      CancelEscalationThrows, DeadlockAbort
<1> QED
    BY <1>2, <1>3, <1>4, <1>5, <1>6 DEF Next

LEMMA NextOwed == IInv /\ EffectsOwed /\ [Next]_vars => EffectsOwed'
<1> SUFFICES ASSUME IInv, EffectsOwed, [Next]_vars, NEW r \in Requests, pc'[r] = "committed"
             PROVE  Owed(pc'[r], call'[r], alert'[call'[r].id], audit'[call'[r].id])
    BY DEF EffectsOwed, Owed
<1>1. CASE pc[r] = "committed" /\ call'[r] = call[r]
    <2>1. call[r].id \in Alerts
        BY <1>1 DEF IInv, CallsMatch
    <2>2. Owed("committed", call[r], alert[call[r].id], audit[call[r].id])
        BY <1>1 DEF EffectsOwed
    <2> QED
        BY <1>1, <2>1, <2>2, TablesGrow DEF Owed
<1>2. CASE CommitCreate(r) \/ CommitEscalate(r) \/ CommitCancel(r) \/ CommitClose(r)
    <2>1. PICK a \in Alerts, e \in AuditEvents :
              /\ audit' = [audit EXCEPT ![a] = Append(@, e)]
              /\ alert'[a].status # "none"
              /\ call'[r].id = a /\ call'[r].op = call[r].op /\ call'[r].stage = call[r].stage
              /\ CommitCreate(r) => e.event = "alert_created" /\ e.to = call[r].stage
              /\ CommitEscalate(r) => e.event = "alert_escalated" /\ e.to = call[r].stage
              /\ CommitCancel(r) => /\ e.event = "alert_cancelled" /\ e.from = alert'[a].stage
                                    /\ alert'[a].status = "cancelled"
              /\ CommitClose(r) => alert'[a].status = "resolved"
        BY <1>2, CommitsWrite
    <2>2. audit[a] \in Seq(AuditEvents) /\ audit'[a] = Append(audit[a], e)
        BY <2>1 DEF IInv, TypeOK
    <2>3. /\ Told(audit'[a], e.event, e.to)
          /\ e.event = "alert_cancelled" => ToldEnd(audit'[a], e.from)
        BY <2>2, LongerTellsMore
    <2>4. /\ CommitCreate(r) => call[r].op = "create"
          /\ CommitEscalate(r) => call[r].op = "escalate"
          /\ CommitCancel(r) => call[r].op = "cancel"
          /\ CommitClose(r) => call[r].op = "close"
        BY DEF CommitCreate, CommitEscalate, CommitCancel, CommitClose
    <2> QED
        BY <1>2, <2>1, <2>3, <2>4 DEF Owed
<1> QED
    BY <1>1, <1>2, CommittedByCommit

(* Only AnnounceActive and AnnounceEnd speak.                              *)
LEMMA SilentSteps ==
    ASSUME [Next]_vars, \A r \in Requests : ~AnnounceActive(r) /\ ~AnnounceEnd(r)
    PROVE  UNCHANGED effects
<1>1. ASSUME NEW r \in Requests, Arrive(r) PROVE UNCHANGED effects
    BY <1>1 DEF Arrive, Create, Escalate, Cancel, Close
<1>2. ASSUME NEW r \in Requests, Serve(r) PROVE UNCHANGED effects
    BY <1>2 DEF Serve, CommitCreate, EscalateAlert, TakeSession, CommitEscalate, CommitCancel,
                TakeAlert, CommitClose, CancelEscalationThrows, DeadlockAbort
<1>3. CASE Crash
    BY <1>3 DEF Crash
<1>4. CASE UNCHANGED vars
    BY <1>4 DEF vars, effects
<1> QED
    BY <1>1, <1>2, <1>3, <1>4 DEF Next

LEMMA NextAnnounced ==
    IInv /\ EffectsOwed /\ AnnouncedIsCommitted /\ [Next]_vars => AnnouncedIsCommitted'
<1> SUFFICES ASSUME IInv, EffectsOwed, AnnouncedIsCommitted, [Next]_vars
             PROVE  AnnouncedIsCommitted'
    OBVIOUS
<1>1. /\ \A a \in Alerts : RoomTold(shown[a], alert[a])
      /\ \A j \in jobs : JobTold(j, audit[j.id]) /\ j.id \in Alerts
    BY AnnouncedByParts DEF IInv, TypeOK, Jobs
<1>2. SUFFICES /\ \A a \in Alerts : RoomTold(shown'[a], alert'[a])
               /\ \A j \in jobs' : JobTold(j, audit'[j.id])
    BY DEF AnnouncedIsCommitted, RoomTold, JobTold, Told, ToldEnd
<1>3. /\ \A a \in Alerts : RoomTold(shown[a], alert'[a])
      /\ \A j \in jobs : JobTold(j, audit'[j.id])
    BY <1>1, TablesGrow DEF RoomTold, JobTold
<1>4. ASSUME NEW r \in Requests, AnnounceActive(r) \/ AnnounceEnd(r)
      PROVE  /\ \A a \in Alerts : RoomTold(shown'[a], alert'[a])
             /\ \A j \in jobs' : JobTold(j, audit'[j.id])
    <2> DEFINE a == call[r].id
    <2>1. /\ pc[r] = "committed" /\ a \in Alerts /\ alert' = alert /\ audit' = audit
          /\ Owed("committed", call[r], alert[a], audit[a])
        BY <1>4 DEF AnnounceActive, AnnounceEnd, IInv, CallsMatch, EffectsOwed, tables
    <2>2. shown \in [Alerts -> {"none", "active", "cancelled", "resolved"}]
        BY DEF IInv, TypeOK
    <2>3. CASE AnnounceActive(r)
        <3> DEFINE event == IF call[r].op = "create" THEN "alert_started" ELSE "alert_escalated"
                   j == [id |-> a, event |-> event, stage |-> call[r].stage]
        <3>1. /\ shown' = shown \/ shown' = [shown EXCEPT ![a] = "active"]
              /\ jobs' = jobs \/ jobs' = jobs \cup {j}
              /\ call[r].op \in {"create", "escalate"}
            BY <2>3 DEF AnnounceActive, Enqueue, effects
        <3>2. RoomTold("active", alert[a])
            BY <2>1 DEF Owed, RoomTold
        <3>3. JobTold(j, audit[a]) /\ j.id = a
            BY <2>1, <3>1 DEF Owed, JobTold
        <3> HIDE DEF j
        <3>4. \A b \in Alerts : RoomTold(shown'[b], alert'[b])
            BY <1>1, <2>1, <2>2, <3>1, <3>2
        <3>5. \A k \in jobs' : JobTold(k, audit'[k.id])
            BY <1>1, <2>1, <3>1, <3>3
        <3> QED
            BY <3>4, <3>5
    <2>4. CASE AnnounceEnd(r)
        <3> DEFINE j == [id |-> a, event |-> "alert_cancelled", stage |-> alert[a].stage]
        <3>1. \/ call[r].op = "close" /\ shown' = [shown EXCEPT ![a] = "resolved"] /\ jobs' = jobs
              \/ /\ call[r].op = "cancel"
                 /\ shown' = shown \/ shown' = [shown EXCEPT ![a] = "cancelled"]
                 /\ jobs' = jobs \/ jobs' = jobs \cup {j}
            BY <2>4 DEF AnnounceEnd, Enqueue
        <3>2. /\ call[r].op = "close" => RoomTold("resolved", alert[a])
              /\ call[r].op = "cancel" => RoomTold("cancelled", alert[a])
            BY <2>1 DEF Owed, RoomTold
        <3>3. j.id = a /\ (call[r].op = "cancel" => JobTold(j, audit[a]))
            BY <2>1 DEF Owed, JobTold
        <3> HIDE DEF j
        <3>4. \A b \in Alerts : RoomTold(shown'[b], alert'[b])
            BY <1>1, <2>1, <2>2, <3>1, <3>2
        <3>5. \A k \in jobs' : JobTold(k, audit'[k.id])
            BY <1>1, <2>1, <3>1, <3>3
        <3> QED
            BY <3>4, <3>5
    <2> QED
        BY <1>4, <2>3, <2>4
<1>5. CASE \A r \in Requests : ~AnnounceActive(r) /\ ~AnnounceEnd(r)
    BY <1>3, <1>5, SilentSteps DEF effects
<1> QED
    BY <1>4, <1>5

(* Rooms and contacts are only ever told what is committed, although a     *)
(* request speaks after its transaction and others commit in between.      *)
THEOREM OnlyCommittedIsAnnounced == Spec => []AnnouncedIsCommitted
<1>1. Init => EffectsOwed /\ AnnouncedIsCommitted
    BY DEF Init, EffectsOwed, Owed, AnnouncedIsCommitted
<1>2. QED
    BY <1>1, NextOwed, NextAnnounced, Invariance, PTL DEF Spec

-----------------------------------------------------------------------------
(* The refinement: what the abstract record's history is under the map.    *)
LEMMA EventsAppend ==
    ASSUME NEW trail \in Seq(AuditEvents), NEW e \in AuditEvents
    PROVE  Events(Append(trail, e)) = Append(Events(trail), e.event)
<1>1. Len(Append(trail, e)) = Len(trail) + 1 /\ Len(trail) \in Nat
    OBVIOUS
<1>2. /\ \A i \in 1..Len(trail) : Append(trail, e)[i] = trail[i]
      /\ Append(trail, e)[Len(trail) + 1] = e
    OBVIOUS
<1>3. Events(trail) \in Seq({ x.event : x \in AuditEvents })
    <2>1. \A i \in 1..Len(trail) : trail[i].event \in { x.event : x \in AuditEvents }
        OBVIOUS
    <2>2. \A i \in 1..Len(trail) : Events(trail)[i] \in { x.event : x \in AuditEvents }
        BY <2>1 DEF Events
    <2>3. Events(trail) \in [1..Len(trail) -> { x.event : x \in AuditEvents }]
        BY <2>1 DEF Events
    <2>4. QED
        BY <1>1, <2>3
<1>4. Len(Events(trail)) = Len(trail)
    BY <1>1 DEF Events
<1>5. \A i \in 1..Len(trail) + 1 :
          Append(Events(trail), e.event)[i] = Append(trail, e)[i].event
    <2>1. ASSUME NEW i \in 1..Len(trail)
          PROVE  Append(Events(trail), e.event)[i] = Append(trail, e)[i].event
        <3>1. Append(Events(trail), e.event)[i] = Events(trail)[i]
            BY <1>1, <1>3, <1>4
        <3>2. QED
            BY <1>2, <3>1 DEF Events
    <2>2. Append(Events(trail), e.event)[Len(trail) + 1] = e.event
        BY <1>1, <1>3, <1>4
    <2>3. SUFFICES ASSUME NEW i \in 1..Len(trail) + 1
                   PROVE  Append(Events(trail), e.event)[i] = Append(trail, e)[i].event
        OBVIOUS
    <2>4. CASE i \in 1..Len(trail)
        BY <2>1, <2>4
    <2>5. CASE i = Len(trail) + 1
        BY <1>2, <2>2, <2>5
    <2>6. i \in 1..Len(trail) \/ i = Len(trail) + 1
        BY <1>1
    <2>7. QED
        BY <2>4, <2>5, <2>6
<1>6. Append(Events(trail), e.event) \in Seq({ x.event : x \in AuditEvents })
    BY <1>3
<1>7. Len(Append(Events(trail), e.event)) = Len(trail) + 1
    BY <1>1, <1>3, <1>4
<1>8. Append(Events(trail), e.event) =
          [i \in 1..Len(trail) + 1 |-> Append(Events(trail), e.event)[i]]
    BY <1>6, <1>7
<1>9. QED
    BY <1>1, <1>5, <1>8 DEF Events

LEMMA InitRefines == Init => Book!BookInit
<1> SUFFICES ASSUME Init PROVE Book!BookInit
    OBVIOUS
<1>1. \A a \in Alerts : alert[a].status = "none" /\ alert[a].stage = "none"
    BY DEF Init, NoAlert
<1>2. \A a \in Alerts : Events(audit[a]) = << >>
    <2>1. Events(<< >>) = << >>
        BY DEF Events
    <2>2. QED
        BY <2>1 DEF Init
<1>3. QED
    BY <1>1, <1>2, Zenon DEF Book!BookInit

(* What the three actions of the book say of each alert, pointwise.        *)
LEMMA MapsToOpen ==
    ASSUME NEW a \in Alerts, NEW s \in Stages, alert[a].status = "none",
           \A b \in Alerts :
              /\ alert'[b].status = IF b = a THEN "active" ELSE alert[b].status
              /\ alert'[b].stage = IF b = a THEN s ELSE alert[b].stage
              /\ Events(audit'[b]) =
                    IF b = a THEN << "alert_created" >> ELSE Events(audit[b])
    PROVE  Book!Open(a, s)
BY Zenon DEF Book!Open

LEMMA MapsToChangeStage ==
    ASSUME NEW a \in Alerts, NEW s \in Stages, alert[a].status = "active",
           \A b \in Alerts :
              /\ alert'[b].status = alert[b].status
              /\ alert'[b].stage = IF b = a THEN s ELSE alert[b].stage
              /\ Events(audit'[b]) =
                    IF b = a THEN Append(Events(audit[b]), "alert_escalated")
                             ELSE Events(audit[b])
    PROVE  Book!ChangeStage(a, s)
BY Zenon DEF Book!ChangeStage

LEMMA MapsToEnd ==
    ASSUME NEW a \in Alerts, NEW how, NEW event, alert[a].status = "active",
           \A b \in Alerts :
              /\ alert'[b].status = IF b = a THEN how ELSE alert[b].status
              /\ alert'[b].stage = alert[b].stage
              /\ Events(audit'[b]) =
                    IF b = a THEN Append(Events(audit[b]), event) ELSE Events(audit[b])
    PROVE  Book!End(a, how, event)
BY Zenon DEF Book!End

(* One audit event is appended to one trail.                               *)
LEMMA EventsGrow ==
    ASSUME TypeOK, NEW a \in Alerts, NEW e \in AuditEvents,
           audit' = [audit EXCEPT ![a] = Append(@, e)]
    PROVE  \A b \in Alerts : Events(audit'[b]) =
               IF b = a THEN Append(Events(audit[b]), e.event) ELSE Events(audit[b])
<1>1. \A b \in Alerts : audit'[b] = IF b = a THEN Append(audit[b], e) ELSE audit[b]
    BY DEF TypeOK
<1>2. PICK event : event = e.event
    OBVIOUS
<1>3. \A b \in Alerts : Events(audit'[b]) =
          IF b = a THEN Append(Events(audit[b]), event) ELSE Events(audit[b])
    BY <1>1, <1>2, EventsAppend DEF TypeOK
<1>4. QED
    BY <1>2, <1>3, Zenon

LEMMA NextRefines == IInv /\ TrailTellsState /\ [Next]_vars => [Book!BookNext]_(Book!bookVars)
<1> SUFFICES ASSUME IInv, TrailTellsState, [Next]_vars
             PROVE  Book!BookNext \/ UNCHANGED Book!bookVars
    OBVIOUS
<1>0. TypeOK
    BY DEF IInv
<1>1. ASSUME NEW r \in Requests, CommitCreate(r) PROVE Book!BookNext
    <2>1. PICK s \in Stages : s = call[r].stage
        BY <1>1 DEF CommitCreate, IInv, CallsMatch
    <2>2. PICK a \in Alerts, e \in AuditEvents :
              /\ alert[a].status = "none"
              /\ alert' = [alert EXCEPT ![a] = [status |-> "active", stage |-> s]]
              /\ audit' = [audit EXCEPT ![a] = Append(@, e)]
              /\ e.event = "alert_created"
        <3>1. PICK a \in Alerts :
                  /\ alert[a].status = "none"
                  /\ alert' = [alert EXCEPT ![a] = [status |-> "active", stage |-> s]]
                  /\ audit' = [audit EXCEPT ![a] = Append(@,
                         [event |-> "alert_created", from |-> "none", to |-> s])]
            BY <1>1, <2>1 DEF CommitCreate
        <3>2. [event |-> "alert_created", from |-> "none", to |-> s] \in AuditEvents
            BY DEF AuditEvents
        <3>3. QED
            BY <3>1, <3>2
    <2>3. \A b \in Alerts :
              /\ alert'[b].status = IF b = a THEN "active" ELSE alert[b].status
              /\ alert'[b].stage = IF b = a THEN s ELSE alert[b].stage
        BY <2>2, <1>0 DEF TypeOK
    <2>4. Append(Events(audit[a]), "alert_created") = << "alert_created" >>
        <3>1. audit[a] = << >>
            BY <2>2 DEF TrailTellsState
        <3>2. Events(audit[a]) = << >>
            BY <3>1 DEF Events
        <3>3. QED
            BY <3>2
    <2>5. \A b \in Alerts : Events(audit'[b]) =
              IF b = a THEN << "alert_created" >> ELSE Events(audit[b])
        <3>1. \A b \in Alerts : Events(audit'[b]) =
                  IF b = a THEN Append(Events(audit[b]), e.event) ELSE Events(audit[b])
            BY <1>0, <2>2, EventsGrow, Zenon
        <3>2. QED
            BY <2>2, <2>4, <3>1
    <2>6. Book!Open(a, s)
        BY <2>2, <2>3, <2>5, MapsToOpen
    <2>7. QED
        BY <2>6 DEF Book!BookNext
<1>2. ASSUME NEW r \in Requests, CommitEscalate(r) PROVE Book!BookNext
    <2>1. PICK a \in Alerts, s \in Stages : a = call[r].id /\ s = call[r].stage
        BY <1>2 DEF CommitEscalate, IInv, RowLocks, CallsMatch
    <2>2. alert[a].status = "active"
        BY <1>2, <2>1 DEF CommitEscalate, IInv, RowLocks
    <2>3. PICK e \in AuditEvents :
              e.event = "alert_escalated" /\ audit' = [audit EXCEPT ![a] = Append(@, e)]
        <3>1. [event |-> "alert_escalated", from |-> call[r].from, to |-> s] \in AuditEvents
            BY <1>0 DEF AuditEvents, TypeOK, Calls
        <3>2. QED
            BY <1>2, <2>1, <3>1 DEF CommitEscalate
    <2>4. \A b \in Alerts :
              /\ alert'[b].status = alert[b].status
              /\ alert'[b].stage = IF b = a THEN s ELSE alert[b].stage
        BY <1>2, <1>0, <2>1 DEF CommitEscalate, TypeOK, AlertRows
    <2>5. \A b \in Alerts : Events(audit'[b]) =
              IF b = a THEN Append(Events(audit[b]), "alert_escalated")
                       ELSE Events(audit[b])
        <3>1. \A b \in Alerts : Events(audit'[b]) =
                  IF b = a THEN Append(Events(audit[b]), e.event) ELSE Events(audit[b])
            BY <1>0, <2>3, EventsGrow, Zenon
        <3>2. QED
            BY <2>3, <3>1
    <2>6. Book!ChangeStage(a, s)
        BY <2>2, <2>4, <2>5, MapsToChangeStage
    <2>7. QED
        BY <2>6 DEF Book!BookNext
<1>3. ASSUME NEW r \in Requests, CommitCancel(r) PROVE Book!BookNext
    <2>1. PICK a \in Alerts : a = call[r].id
        BY <1>3 DEF CommitCancel, IInv, RowLocks
    <2>2. alert[a].status = "active" /\ alert[a].stage \in Stages
        BY <1>3, <2>1 DEF CommitCancel, IInv, RowLocks, LevelMatchesStage
    <2>3. PICK e \in AuditEvents :
              e.event = "alert_cancelled" /\ audit' = [audit EXCEPT ![a] = Append(@, e)]
        <3>1. [event |-> "alert_cancelled", from |-> alert[a].stage, to |-> "cancelled"]
                  \in AuditEvents
            BY <2>2 DEF AuditEvents
        <3>2. QED
            BY <1>3, <2>1, <3>1 DEF CommitCancel
    <2>4. \A b \in Alerts :
              /\ alert'[b].status = IF b = a THEN "cancelled" ELSE alert[b].status
              /\ alert'[b].stage = alert[b].stage
        BY <1>3, <1>0, <2>1 DEF CommitCancel, TypeOK, AlertRows
    <2>5. \A b \in Alerts : Events(audit'[b]) =
              IF b = a THEN Append(Events(audit[b]), "alert_cancelled")
                       ELSE Events(audit[b])
        <3>1. \A b \in Alerts : Events(audit'[b]) =
                  IF b = a THEN Append(Events(audit[b]), e.event) ELSE Events(audit[b])
            BY <1>0, <2>3, EventsGrow, Zenon
        <3>2. QED
            BY <2>3, <3>1
    <2>6. Book!End(a, "cancelled", "alert_cancelled")
        BY <2>2, <2>4, <2>5, MapsToEnd
    <2>7. QED
        BY <2>6 DEF Book!BookNext
<1>4. ASSUME NEW r \in Requests, CommitClose(r) PROVE Book!BookNext
    <2>1. PICK a \in Alerts : a = call[r].id
        BY <1>4 DEF CommitClose, IInv, RowLocks
    <2>2. alert[a].status = "active" /\ alert[a].stage \in Stages
        BY <1>4, <2>1 DEF CommitClose, IInv, RowLocks, LevelMatchesStage
    <2>3. PICK e \in AuditEvents :
              e.event = "session_closed" /\ audit' = [audit EXCEPT ![a] = Append(@, e)]
        <3>1. [event |-> "session_closed", from |-> alert[a].stage, to |-> "resolved"]
                  \in AuditEvents
            BY <2>2 DEF AuditEvents
        <3>2. QED
            BY <1>4, <2>1, <3>1 DEF CommitClose
    <2>4. \A b \in Alerts :
              /\ alert'[b].status = IF b = a THEN "resolved" ELSE alert[b].status
              /\ alert'[b].stage = alert[b].stage
        BY <1>4, <1>0, <2>1 DEF CommitClose, TypeOK, AlertRows
    <2>5. \A b \in Alerts : Events(audit'[b]) =
              IF b = a THEN Append(Events(audit[b]), "session_closed")
                       ELSE Events(audit[b])
        <3>1. \A b \in Alerts : Events(audit'[b]) =
                  IF b = a THEN Append(Events(audit[b]), e.event) ELSE Events(audit[b])
            BY <1>0, <2>3, EventsGrow, Zenon
        <3>2. QED
            BY <2>3, <3>1
    <2>6. Book!End(a, "resolved", "session_closed")
        BY <2>2, <2>4, <2>5, MapsToEnd
    <2>7. QED
        BY <2>6 DEF Book!BookNext
<1>5. CASE \A r \in Requests : ~CommitCreate(r) /\ ~CommitEscalate(r)
                               /\ ~CommitCancel(r) /\ ~CommitClose(r)
    <2>1. alert' = alert /\ audit' = audit
        BY <1>5, QuietSteps DEF tables
    <2>2. QED
        BY <2>1 DEF Book!bookVars
<1>6. QED
    BY <1>1, <1>2, <1>3, <1>4, <1>5

(* The alert subsystem implements the abstract record: every step of every *)
(* interleaving is one entry in the book, or changes nothing in it.        *)
THEOREM RefinesBook == Spec => ImplementsBook
<1>1. Spec => []TrailTellsState
    BY TrailIsTrue
<1>2. QED
    BY <1>1, InitRefines, NextRefines, Invariance, PTL DEF Spec, ImplementsBook, Book!BookSpec

=============================================================================
