--------------------------- MODULE AlertLifecycle ---------------------------
(***************************************************************************)
(* The life of an SOS alert: AlertsService.create, escalate and cancel and *)
(* SessionsService.close, served concurrently for one user.                *)
(*                                                                         *)
(* Every operation is a database transaction followed by side effects on   *)
(* the queue and the websocket room.  A transaction is a sequence of       *)
(* statements under PostgreSQL's READ COMMITTED isolation: a plain SELECT  *)
(* sees the committed rows, an UPDATE waits for the row's lock, evaluates  *)
(* its WHERE on the committed row and keeps the lock to the end.  Writes   *)
(* become visible at the commit.  cancel and escalate lock the alerts row  *)
(* and then the watch_sessions row; close locks them the other way round,  *)
(* so two requests can deadlock and the database aborts one of them.       *)
(*                                                                         *)
(* An alert and the session opened with it share one identity here: the    *)
(* transaction of create inserts both.                                     *)
(***************************************************************************)
EXTENDS Naturals, Sequences, FiniteSets

CONSTANTS Alerts,            \* identities the alerts table may hand out
          Requests,          \* HTTP requests, each served once
          RequestedStages,   \* the stages clients ask for
          MaxCrashes         \* bound on server crashes

StageOrder == << "monitoring", "suspicious", "soft_alert", "high_alert" >>
Stages == { StageOrder[i] : i \in 1..4 }

ASSUME StagesAssumption == RequestedStages \subseteq Stages
ASSUME CrashAssumption == MaxCrashes \in Nat
ASSUME NoneAssumption == "none" \notin Alerts

VARIABLES alert,     \* committed alerts rows
          session,   \* committed watch_sessions rows
          audit,     \* committed alert_audit_events rows, in commit order
          pc,        \* how far each request has come
          call,      \* the arguments of each request and what it has read
          shown,     \* the last status emitted to each session's room
          jobs,      \* the notification jobs handed to the queue
          crashes    \* how often the server has crashed

vars == << alert, session, audit, pc, call, shown, jobs, crashes >>
tables == << alert, session, audit >>
effects == << shown, jobs >>

-----------------------------------------------------------------------------
(* Stages and rows. *)

StageIndex(stage) == CHOOSE i \in 1..4 : StageOrder[i] = stage

EscalationLevel(stage) ==
    CASE stage = "monitoring" -> 1
      [] stage = "suspicious" -> 2
      [] stage = "soft_alert" -> 3
      [] OTHER -> 4

NoAlert == [status |-> "none", stage |-> "none"]
NoSession == [status |-> "none", level |-> 0]
NoCall == [op |-> "none", id |-> "none", stage |-> "none",
           from |-> "none", joined |-> FALSE]

AlertRows == [status : {"none", "active", "cancelled", "resolved"},
              stage : Stages \cup {"none"}]
SessionRows == [status : {"none", "active", "cancelled", "completed"},
                level : 0..4]
AuditEvents == [event : {"alert_created", "alert_escalated",
                         "alert_cancelled", "session_closed"},
                from : Stages \cup {"none"},
                to : Stages \cup {"cancelled", "resolved"}]
Jobs == [id : Alerts, stage : Stages,
         event : {"alert_started", "alert_escalated", "alert_cancelled"}]
Calls == [op : {"none", "create", "escalate", "cancel", "close"},
          id : Alerts \cup {"none"},
          stage : Stages \cup {"none"},
          from : Stages \cup {"none"},
          joined : BOOLEAN]

Progress == {"idle", "begun", "holdsAlert", "holdsSession", "holdsBoth",
             "committed", "answered", "rejected", "failed", "lost"}
Ended == {"answered", "rejected", "failed", "lost"}

(* Row locks follow from how far a transaction has come. *)
LocksAlert(r, a) == call[r].id = a /\ pc[r] \in {"holdsAlert", "holdsBoth"}
LocksSession(r, a) == call[r].id = a /\ pc[r] \in {"holdsSession", "holdsBoth"}
AlertFree(a) == \A r \in Requests : ~LocksAlert(r, a)
SessionFree(a) == \A r \in Requests : ~LocksSession(r, a)

FindActiveAlert == \E a \in Alerts : session[a].status = "active"

Init ==
    /\ alert = [a \in Alerts |-> NoAlert]
    /\ session = [a \in Alerts |-> NoSession]
    /\ audit = [a \in Alerts |-> << >>]
    /\ pc = [r \in Requests |-> "idle"]
    /\ call = [r \in Requests |-> NoCall]
    /\ shown = [a \in Alerts |-> "none"]
    /\ jobs = {}
    /\ crashes = 0

-----------------------------------------------------------------------------
(* AlertsService.create.  The look-up of an active alert is not part of    *)
(* the transaction that inserts the rows.                                  *)

Create(r, stage) ==
    /\ pc[r] = "idle"
    /\ IF FindActiveAlert
          THEN pc' = [pc EXCEPT ![r] = "answered"] /\ UNCHANGED call
          ELSE /\ pc' = [pc EXCEPT ![r] = "begun"]
               /\ call' = [call EXCEPT ![r].op = "create", ![r].stage = stage]
    /\ UNCHANGED << tables, effects, crashes >>

CommitCreate(r) ==
    /\ pc[r] = "begun"
    /\ call[r].op = "create"
    /\ \E a \in Alerts :
          /\ alert[a].status = "none"
          /\ alert' = [alert EXCEPT ![a] = [status |-> "active", stage |-> call[r].stage]]
          /\ session' = [session EXCEPT
                 ![a] = [status |-> "active", level |-> EscalationLevel(call[r].stage)]]
          /\ audit' = [audit EXCEPT ![a] = Append(@,
                 [event |-> "alert_created", from |-> "none", to |-> call[r].stage])]
          /\ call' = [call EXCEPT ![r].id = a, ![r].joined = TRUE]
    /\ pc' = [pc EXCEPT ![r] = "committed"]
    /\ UNCHANGED << effects, crashes >>

-----------------------------------------------------------------------------
(* AlertsService.escalate.  The stage is read by a plain SELECT joined     *)
(* with the active session, and compared with the requested one.           *)

Escalate(r, a, stage) ==
    /\ pc[r] = "idle"
    /\ alert[a].status # "none"
    /\ call' = [call EXCEPT ![r] = [op |-> "escalate", id |-> a, stage |-> stage,
                                    from |-> alert[a].stage,
                                    joined |-> session[a].status = "active"]]
    /\ \/ alert[a].status # "active" /\ pc' = [pc EXCEPT ![r] = "rejected"]
       \/ /\ alert[a].status = "active"
          /\ StageIndex(stage) <= StageIndex(alert[a].stage)
          /\ pc' = [pc EXCEPT ![r] = "answered"]
       \/ /\ alert[a].status = "active"
          /\ StageIndex(stage) > StageIndex(alert[a].stage)
          /\ pc' = [pc EXCEPT ![r] = "begun"]
    /\ UNCHANGED << tables, effects, crashes >>

(* Fault: the UPDATE forgets "and status = 'active'".                      *)
EscalateAlertUnguarded(r) ==
    /\ pc[r] = "begun"
    /\ call[r].op = "escalate"
    /\ AlertFree(call[r].id)
    /\ pc' = [pc EXCEPT ![r] = "holdsAlert"]
    /\ UNCHANGED << tables, call, effects, crashes >>

(* Fault: a request whose alert ended meanwhile keeps waiting for it.      *)
EscalateAlertStuck(r) ==
    /\ pc[r] = "begun"
    /\ call[r].op = "escalate"
    /\ AlertFree(call[r].id)
    /\ alert[call[r].id].status = "active"
    /\ pc' = [pc EXCEPT ![r] = "holdsAlert"]
    /\ UNCHANGED << tables, call, effects, crashes >>

(* UPDATE alerts ... WHERE status = 'active': when the alert has ended     *)
(* since the SELECT no row comes back, reading its id throws, and the      *)
(* transaction is rolled back.                                             *)
EscalateAlert(r) ==
    /\ pc[r] = "begun"
    /\ call[r].op = "escalate"
    /\ AlertFree(call[r].id)
    /\ pc' = [pc EXCEPT ![r] =
                 IF alert[call[r].id].status = "active" THEN "holdsAlert" ELSE "failed"]
    /\ UNCHANGED << tables, call, effects, crashes >>

(* The second UPDATE of escalate and of cancel, on the watch_sessions row. *)
TakeSession(r) ==
    /\ pc[r] = "holdsAlert"
    /\ SessionFree(call[r].id)
    /\ pc' = [pc EXCEPT ![r] = "holdsBoth"]
    /\ UNCHANGED << tables, call, effects, crashes >>

CommitEscalate(r) ==
    LET a == call[r].id
    IN  /\ pc[r] = "holdsBoth"
        /\ call[r].op = "escalate"
        /\ alert' = [alert EXCEPT ![a].stage = call[r].stage]
        /\ session' = IF session[a].status = "active"
                         THEN [session EXCEPT ![a].level = EscalationLevel(call[r].stage)]
                         ELSE session
        /\ audit' = [audit EXCEPT ![a] = Append(@,
               [event |-> "alert_escalated", from |-> call[r].from, to |-> call[r].stage])]
        /\ pc' = [pc EXCEPT ![r] = "committed"]
        /\ UNCHANGED << call, effects, crashes >>

-----------------------------------------------------------------------------
(* AlertsService.cancel.  A request that waits for its first row lock has  *)
(* done nothing yet: it is modelled as not having started.                 *)

(* Fault: the UPDATE forgets "and status = 'active'".                      *)
CancelUnguarded(r, a) ==
    /\ pc[r] = "idle"
    /\ alert[a].status # "none"
    /\ AlertFree(a)
    /\ call' = [call EXCEPT ![r].op = "cancel", ![r].id = a]
    /\ pc' = [pc EXCEPT ![r] = "holdsAlert"]
    /\ UNCHANGED << tables, effects, crashes >>

(* Fault: the room hears of the cancellation before it is committed.       *)
CancelShownEarly(r, a) ==
    /\ pc[r] = "idle"
    /\ alert[a].status = "active"
    /\ AlertFree(a)
    /\ call' = [call EXCEPT ![r].op = "cancel", ![r].id = a]
    /\ pc' = [pc EXCEPT ![r] = "holdsAlert"]
    /\ shown' = [shown EXCEPT ![a] = "cancelled"]
    /\ UNCHANGED << tables, jobs, crashes >>

Cancel(r, a) ==
    /\ pc[r] = "idle"
    /\ alert[a].status # "none"
    /\ AlertFree(a)
    /\ call' = [call EXCEPT ![r].op = "cancel", ![r].id = a]
    /\ pc' = [pc EXCEPT ![r] =
                 IF alert[a].status = "active" THEN "holdsAlert" ELSE "rejected"]
    /\ UNCHANGED << tables, effects, crashes >>

(* Fault: cancel leaves the session row alone.                             *)
CommitCancelSessionKept(r) ==
    LET a == call[r].id
    IN  /\ pc[r] = "holdsBoth"
        /\ call[r].op = "cancel"
        /\ alert' = [alert EXCEPT ![a].status = "cancelled"]
        /\ audit' = [audit EXCEPT ![a] = Append(@,
               [event |-> "alert_cancelled", from |-> alert[a].stage, to |-> "cancelled"])]
        /\ call' = [call EXCEPT ![r].joined = (session[a].status = "active")]
        /\ pc' = [pc EXCEPT ![r] = "committed"]
        /\ UNCHANGED << session, effects, crashes >>

CommitCancel(r) ==
    LET a == call[r].id
    IN  /\ pc[r] = "holdsBoth"
        /\ call[r].op = "cancel"
        /\ alert' = [alert EXCEPT ![a].status = "cancelled"]
        /\ session' = IF session[a].status = "active"
                         THEN [session EXCEPT ![a].status = "cancelled"]
                         ELSE session
        /\ audit' = [audit EXCEPT ![a] = Append(@,
               [event |-> "alert_cancelled", from |-> alert[a].stage, to |-> "cancelled"])]
        /\ call' = [call EXCEPT ![r].joined = (session[a].status = "active")]
        /\ pc' = [pc EXCEPT ![r] = "committed"]
        /\ UNCHANGED << effects, crashes >>

-----------------------------------------------------------------------------
(* SessionsService.close.  The session row is guarded by its status, the   *)
(* alerts row is taken by its id whatever its status is.                   *)

Close(r, a) ==
    /\ pc[r] = "idle"
    /\ session[a].status # "none"
    /\ SessionFree(a)
    /\ call' = [call EXCEPT ![r].op = "close", ![r].id = a]
    /\ pc' = [pc EXCEPT ![r] =
                 IF session[a].status = "active" THEN "holdsSession" ELSE "rejected"]
    /\ UNCHANGED << tables, effects, crashes >>

TakeAlert(r) ==
    /\ pc[r] = "holdsSession"
    /\ AlertFree(call[r].id)
    /\ pc' = [pc EXCEPT ![r] = "holdsBoth"]
    /\ UNCHANGED << tables, call, effects, crashes >>

(* Fault: the alert takes a status its readers do not know.                *)
CommitCloseMisspelt(r) ==
    LET a == call[r].id
    IN  /\ pc[r] = "holdsBoth"
        /\ call[r].op = "close"
        /\ session' = [session EXCEPT ![a].status = "completed"]
        /\ alert' = [alert EXCEPT ![a].status = "completed"]
        /\ audit' = [audit EXCEPT ![a] = Append(@,
               [event |-> "session_closed", from |-> alert[a].stage, to |-> "resolved"])]
        /\ pc' = [pc EXCEPT ![r] = "committed"]
        /\ UNCHANGED << call, effects, crashes >>

CommitClose(r) ==
    LET a == call[r].id
    IN  /\ pc[r] = "holdsBoth"
        /\ call[r].op = "close"
        /\ session' = [session EXCEPT ![a].status = "completed"]
        /\ alert' = [alert EXCEPT ![a].status = "resolved"]
        /\ audit' = [audit EXCEPT ![a] = Append(@,
               [event |-> "session_closed", from |-> alert[a].stage, to |-> "resolved"])]
        /\ pc' = [pc EXCEPT ![r] = "committed"]
        /\ UNCHANGED << call, effects, crashes >>

-----------------------------------------------------------------------------
(* What follows a commit.  Scheduling after create and escalate is best    *)
(* effort; cancelEscalation after cancel and close is awaited, and when it *)
(* throws the request fails with neither the emit nor the notification.    *)
(* Handing a job to the queue may fail and is then only logged.            *)

Enqueue(a, event, stage) ==
    jobs' \in {jobs, jobs \cup {[id |-> a, event |-> event, stage |-> stage]}}

AnnounceActive(r) ==
    LET a == call[r].id
        event == IF call[r].op = "create" THEN "alert_started" ELSE "alert_escalated"
    IN  /\ pc[r] = "committed"
        /\ call[r].op \in {"create", "escalate"}
        /\ pc' = [pc EXCEPT ![r] = "answered"]
        /\ IF ~call[r].joined
              THEN UNCHANGED effects
              ELSE /\ shown' = [shown EXCEPT ![a] = "active"]
                   /\ IF \/ call[r].op = "create"
                         \/ StageIndex(call[r].stage) >= StageIndex("soft_alert")
                        THEN Enqueue(a, event, call[r].stage)
                        ELSE UNCHANGED jobs
        /\ UNCHANGED << tables, call, crashes >>

AnnounceEnd(r) ==
    LET a == call[r].id
    IN  /\ pc[r] = "committed"
        /\ call[r].op \in {"cancel", "close"}
        /\ pc' = [pc EXCEPT ![r] = "answered"]
        /\ \/ /\ call[r].op = "close"
              /\ shown' = [shown EXCEPT ![a] = "resolved"]
              /\ UNCHANGED jobs
           \/ /\ call[r].op = "cancel"
              /\ shown' = IF call[r].joined THEN [shown EXCEPT ![a] = "cancelled"] ELSE shown
              /\ Enqueue(a, "alert_cancelled", alert[a].stage)
        /\ UNCHANGED << tables, call, crashes >>

CancelEscalationThrows(r) ==
    /\ pc[r] = "committed"
    /\ call[r].op \in {"cancel", "close"}
    /\ pc' = [pc EXCEPT ![r] = "failed"]
    /\ UNCHANGED << tables, call, effects, crashes >>

-----------------------------------------------------------------------------
(* The environment: PostgreSQL breaks a deadlock by aborting one of its    *)
(* transactions, and the server may crash, which rolls back every open     *)
(* transaction and loses what was to follow a commit.                      *)

WaitForEachOther(r, q) ==
    /\ call[r].id = call[q].id
    /\ pc[r] = "holdsAlert"
    /\ pc[q] = "holdsSession"

DeadlockAbort(r) ==
    /\ \E q \in Requests : WaitForEachOther(r, q) \/ WaitForEachOther(q, r)
    /\ pc' = [pc EXCEPT ![r] = "failed"]
    /\ UNCHANGED << tables, call, effects, crashes >>

Crash ==
    /\ crashes < MaxCrashes
    /\ crashes' = crashes + 1
    /\ pc' = [r \in Requests |-> IF pc[r] \in Ended \cup {"idle"} THEN pc[r] ELSE "lost"]
    /\ UNCHANGED << tables, call, effects >>

-----------------------------------------------------------------------------
Arrive(r) ==
    \/ \E stage \in RequestedStages : Create(r, stage)
    \/ \E a \in Alerts :
          \/ \E stage \in RequestedStages : Escalate(r, a, stage)
          \/ Cancel(r, a)
          \/ Close(r, a)

(* The server's own steps on a request it has taken up.                    *)
Serve(r) ==
    \/ CommitCreate(r)
    \/ EscalateAlert(r) \/ TakeSession(r) \/ CommitEscalate(r)
    \/ CommitCancel(r)
    \/ TakeAlert(r) \/ CommitClose(r)
    \/ AnnounceActive(r) \/ AnnounceEnd(r) \/ CancelEscalationThrows(r)
    \/ DeadlockAbort(r)

Next == Crash \/ \E r \in Requests : Arrive(r) \/ Serve(r)

Spec == Init /\ [][Next]_vars

(* The event loop runs every pending continuation and PostgreSQL grants    *)
(* row locks in turn; clients need not send anything.                      *)
FairSpec == Spec /\ \A r \in Requests : WF_vars(Serve(r))

-----------------------------------------------------------------------------
(* The type invariant of the committed rows and of the request states.     *)
TypeOK ==
    /\ alert \in [Alerts -> AlertRows]
    /\ session \in [Alerts -> SessionRows]
    /\ audit \in [Alerts -> Seq(AuditEvents)]
    /\ pc \in [Requests -> Progress]
    /\ call \in [Requests -> Calls]
    /\ shown \in [Alerts -> {"none", "active", "cancelled", "resolved"}]
    /\ jobs \subseteq Jobs
    /\ crashes \in 0..MaxCrashes

SessionStatusFor ==
    [none |-> "none", active |-> "active", cancelled |-> "cancelled", resolved |-> "completed"]

(* The alerts row and the watch_sessions row always tell the same story,   *)
(* although cancel, escalate and close write them in different orders and  *)
(* close writes the alert without looking at its status.                   *)
RowsAgree == \A a \in Alerts : session[a].status = SessionStatusFor[alert[a].status]

(* The level guardians see on the session is that of the alert's stage,    *)
(* whatever escalations raced.                                             *)
LevelMatchesStage ==
    \A a \in Alerts : alert[a].status # "none" =>
        /\ alert[a].stage \in Stages
        /\ session[a].level = EscalationLevel(alert[a].stage)

(* What guardians read in the session is what the alert says, at every     *)
(* commit: its status and its level follow the alert's status and stage.   *)
SessionFollowsAlert == RowsAgree /\ LevelMatchesStage

LastEvent(a) == audit[a][Len(audit[a])]

(* The audit trail can be trusted: it opens with the creation, has nothing *)
(* after an ending, and its last event is the state the alert is in.       *)
TrailTellsState ==
    \A a \in Alerts :
        IF alert[a].status = "none"
          THEN audit[a] = << >>
          ELSE /\ audit[a] # << >>
               /\ \A i \in 1..Len(audit[a]) :
                     /\ audit[a][i].event = "alert_created" <=> i = 1
                     /\ i < Len(audit[a]) => audit[a][i].to \in Stages
               /\ LastEvent(a).to = IF alert[a].status = "active"
                                      THEN alert[a].stage
                                      ELSE alert[a].status

(* The row locks serialise the writers of one alert: two requests never    *)
(* hold the same row, and a request that holds a row of an alert still     *)
(* finds that alert active when it commits, although it checked the status *)
(* statements ago and close checked only the session's.                    *)
RowLocks ==
    /\ \A r, q \in Requests : \A a \in Alerts :
          \/ LocksAlert(r, a) /\ LocksAlert(q, a)
          \/ LocksSession(r, a) /\ LocksSession(q, a)
          => r = q
    /\ \A r \in Requests : pc[r] \in {"holdsAlert", "holdsSession", "holdsBoth"} =>
          call[r].id \in Alerts /\ alert[call[r].id].status = "active"

EndedBy(r, a) ==
    /\ call[r].op \in {"cancel", "close"}
    /\ call[r].id = a
    /\ pc[r] \in {"committed", "answered"}

(* Of all requests that try to end one alert at most one is told it did,   *)
(* and the alert then stands as that request asked for.                    *)
OneEnding ==
    \A a \in Alerts : \A r, q \in Requests :
        EndedBy(r, a) =>
            /\ EndedBy(q, a) => r = q
            /\ alert[a].status = IF call[r].op = "cancel" THEN "cancelled" ELSE "resolved"

(* Nothing is announced that is not in the database: a room is told of an  *)
(* ending only when it is committed, and every notification job has its    *)
(* audit event.                                                            *)
AnnouncedIsCommitted ==
    /\ \A a \in Alerts :
          /\ shown[a] # "none" => alert[a].status # "none"
          /\ shown[a] \in {"cancelled", "resolved"} => alert[a].status = shown[a]
    /\ \A j \in jobs : \E i \in 1..Len(audit[j.id]) :
          CASE j.event = "alert_started" ->
                 audit[j.id][i].event = "alert_created" /\ audit[j.id][i].to = j.stage
            [] j.event = "alert_escalated" ->
                 audit[j.id][i].event = "alert_escalated" /\ audit[j.id][i].to = j.stage
            [] OTHER ->
                 audit[j.id][i].event = "alert_cancelled" /\ audit[j.id][i].from = j.stage

(* A step never touches an alert that has ended: not its rows, not its     *)
(* session, not its trail.                                                 *)
EndedIsFinal ==
    [][\A a \in Alerts : alert[a].status \in {"cancelled", "resolved"} =>
          UNCHANGED << alert[a], session[a], audit[a] >>]_vars

(* Every request the server takes up comes to an end, deadlocks and lost   *)
(* races included.                                                         *)
EveryRequestEnds == \A r \in Requests : pc[r] # "idle" ~> pc[r] \in Ended

(* alert-stages.js:178-180 lists what a user can do with an alert: keep    *)
(* monitoring, escalate, end.  None of them lowers the stage.              *)
StageNeverFalls ==
    [][\A a \in Alerts : alert[a].status = "active" =>
          StageIndex(alert'[a].stage) >= StageIndex(alert[a].stage)]_vars

(* alerts.service.test.js:123 names what cancel does: it "closes the       *)
(* alert, records audit, emits status, and cancels escalation".  A server  *)
(* that does not crash emits the status of every cancellation it commits.  *)
CancelIsEmitted ==
    \A a \in Alerts : alert[a].status = "cancelled" ~> shown[a] = "cancelled"

(* The database implements the abstract record of AlertBook: stage and     *)
(* standing are read from the alerts row, the history from the trail.      *)
Events(trail) == [i \in 1..Len(trail) |-> trail[i].event]

Book == INSTANCE AlertBook WITH
    standing <- [a \in Alerts |-> alert[a].status],
    stage <- [a \in Alerts |-> alert[a].stage],
    history <- [a \in Alerts |-> Events(audit[a])]

ImplementsBook == Book!BookSpec
=============================================================================
