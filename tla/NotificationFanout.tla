-------------------------- MODULE NotificationFanout --------------------------
(***************************************************************************)
(* The fan-out of an alert event to the trusted contacts: the BullMQ job   *)
(* that QueuesService.enqueueAlertNotifications adds, and the worker's     *)
(* processAlertContactNotifications.                                       *)
(*                                                                         *)
(* The worker goes through the contacts in order of priority and, for each *)
(* of them, through in-app, SMS and e-mail; the model keeps that walk as   *)
(* one sequence, Plan, of the channels it meets.  Nothing marks what was   *)
(* done: an attempt that throws is repeated from the start, and so is one  *)
(* that dies with its process, which BullMQ takes up again as stalled.     *)
(***************************************************************************)
EXTENDS Naturals, Sequences, FiniteSets

CONSTANTS Jobs,          \* the events to fan out
          Plan,          \* the channel of each delivery, in the order of the loop
          Configured,    \* the providers that are configured
          LosesAnswers,  \* whether a provider's answer may be lost on the way back
          Attempts,      \* how often BullMQ tries a job (attempts: 3)
          MaxStalled     \* how often it hands out a job again whose worker died

External == {"sms", "email"}
Deliveries == 1..Len(Plan)

ASSUME PlanAssumption == Plan \in Seq({"in_app"} \cup External)
ASSUME ConfiguredAssumption == Configured \subseteq External
ASSUME NetworkAssumption == LosesAnswers \in BOOLEAN
ASSUME AttemptsAssumption == Attempts \in Nat \ {0} /\ MaxStalled \in Nat

VARIABLES job,        \* each job's place in the queue and its worker's local state
          received,   \* how often each delivery of each job reached its contact
          records,    \* how many notifications rows say so, by status
          audited     \* the "delivered" of the completion's audit events

vars == << job, received, records, audited >>

(* Local state of an attempt: the delivery it is at, how far with it, and  *)
(* what it has counted.                                                    *)
NoJob == [state |-> "none", tries |-> 0, stalls |-> 0,
          at |-> 1, step |-> "next", delivered |-> 0]

Init ==
    /\ job = [j \in Jobs |-> NoJob]
    /\ received = [j \in Jobs |-> [i \in Deliveries |-> 0]]
    /\ records = [j \in Jobs |-> [i \in Deliveries |->
                     [sent |-> 0, failed |-> 0, skipped |-> 0]]]
    /\ audited = [j \in Jobs |-> {}]

At(j, step) == job[j].state = "active" /\ job[j].at <= Len(Plan) /\ job[j].step = step
Channel(j) == Plan[job[j].at]

Note(j, status) == records' = [records EXCEPT ![j][job[j].at][status] = @ + 1]
NextDelivery(j) == job' = [job EXCEPT ![j].at = @ + 1, ![j].step = "next"]

-----------------------------------------------------------------------------
EnqueueNotification(j) ==
    /\ job[j].state = "none"
    /\ job' = [job EXCEPT ![j].state = "waiting"]
    /\ UNCHANGED << received, records, audited >>

(* Fault: a job that threw is not taken up a second time.                  *)
StartOnce(j) ==
    /\ job[j].state = "waiting"
    /\ job[j].tries + job[j].stalls = 0
    /\ job' = [job EXCEPT ![j].state = "active", ![j].tries = @ + 1,
                          ![j].at = 1, ![j].step = "next", ![j].delivered = 0]
    /\ UNCHANGED << received, records, audited >>

Start(j) ==
    /\ job[j].state = "waiting"
    /\ job' = [job EXCEPT ![j].state = "active", ![j].tries = @ + 1,
                          ![j].at = 1, ![j].step = "next", ![j].delivered = 0]
    /\ UNCHANGED << received, records, audited >>

(* In-app: a row for the owner's audit, then the contact's own, which is   *)
(* the delivery.                                                           *)
InAppForOwner(j) ==
    /\ At(j, "next")
    /\ Channel(j) = "in_app"
    /\ job' = [job EXCEPT ![j].step = "ownerTold"]
    /\ Note(j, "sent")
    /\ UNCHANGED << received, audited >>

InAppForContact(j) ==
    /\ At(j, "ownerTold")
    /\ job' = [job EXCEPT ![j].at = @ + 1, ![j].step = "next", ![j].delivered = @ + 1]
    /\ received' = [received EXCEPT ![j][job[j].at] = @ + 1]
    /\ UNCHANGED << records, audited >>

(* sendSms and sendEmail return, or throw.                                 *)
SendAccepted(j) ==
    /\ At(j, "next")
    /\ Channel(j) \in Configured
    /\ job' = [job EXCEPT ![j].step = "accepted", ![j].delivered = @ + 1]
    /\ received' = [received EXCEPT ![j][job[j].at] = @ + 1]
    /\ UNCHANGED << records, audited >>

(* The provider took the message, and its answer was lost: fetch rejects.  *)
AnswerLost(j) ==
    /\ LosesAnswers
    /\ At(j, "next")
    /\ Channel(j) \in Configured
    /\ job' = [job EXCEPT ![j].step = "caught"]
    /\ received' = [received EXCEPT ![j][job[j].at] = @ + 1]
    /\ UNCHANGED << records, audited >>

(* Fault: a provider's refusal ends the loop's turn without a record.      *)
SendRefusedSilently(j) ==
    /\ At(j, "next")
    /\ Channel(j) \in Configured
    /\ NextDelivery(j)
    /\ UNCHANGED << received, records, audited >>

SendRefused(j) ==
    /\ At(j, "next")
    /\ Channel(j) \in Configured
    /\ job' = [job EXCEPT ![j].step = "caught"]
    /\ UNCHANGED << received, records, audited >>

RecordSent(j) ==
    /\ At(j, "accepted")
    /\ Note(j, "sent")
    /\ NextDelivery(j)
    /\ UNCHANGED << received, audited >>

(* Fault: a message that could not be recorded is sent once more.          *)
RecordSentFailsResent(j) ==
    /\ At(j, "accepted")
    /\ job' = [job EXCEPT ![j].step = "next"]
    /\ UNCHANGED << received, records, audited >>

(* The INSERT of the 'sent' row is inside the try of the send: when it     *)
(* fails, the catch records a failure of the delivery.                     *)
RecordSentFails(j) ==
    /\ At(j, "accepted")
    /\ job' = [job EXCEPT ![j].step = "caught"]
    /\ UNCHANGED << received, records, audited >>

(* Fault: the catch block records the message as sent.                     *)
RecordFailedAsSent(j) ==
    /\ At(j, "caught")
    /\ Note(j, "sent")
    /\ NextDelivery(j)
    /\ UNCHANGED << received, audited >>

RecordFailed(j) ==
    /\ At(j, "caught")
    /\ Note(j, "failed")
    /\ NextDelivery(j)
    /\ UNCHANGED << received, audited >>

RecordSkipped(j) ==
    /\ At(j, "next")
    /\ Channel(j) \in External \ Configured
    /\ Note(j, "skipped")
    /\ NextDelivery(j)
    /\ UNCHANGED << received, audited >>

(* The loop is over: the audit event, and the job is done.                 *)
Complete(j) ==
    /\ job[j].state = "active"
    /\ job[j].at = Len(Plan) + 1
    /\ audited' = [audited EXCEPT ![j] = @ \cup {job[j].delivered}]
    /\ job' = [job EXCEPT ![j].state = "completed"]
    /\ UNCHANGED << received, records >>

(* What may throw outside a try: loading the alert and its contacts, every *)
(* INSERT but the one that records a message as sent, the audit event.     *)
CanThrow(j) ==
    /\ job[j].state = "active"
    /\ \/ job[j].at = 1 /\ job[j].step = "next"
       \/ job[j].at = Len(Plan) + 1
       \/ job[j].step \in {"ownerTold", "caught"}
       \/ At(j, "next") /\ Channel(j) \notin Configured

(* BullMQ repeats a job that threw, or gives it up.                        *)
Throw(j) ==
    /\ CanThrow(j)
    /\ job' = [job EXCEPT ![j].state = IF job[j].tries < Attempts THEN "waiting" ELSE "failed"]
    /\ UNCHANGED << received, records, audited >>

(* The process dies.  BullMQ hands a stalled job out again without         *)
(* counting an attempt, and gives it up when it stalls too often.          *)
WorkerDies(j) ==
    /\ job[j].state = "active"
    /\ job' = IF job[j].stalls < MaxStalled
                THEN [job EXCEPT ![j].state = "waiting", ![j].tries = @ - 1, ![j].stalls = @ + 1]
                ELSE [job EXCEPT ![j].state = "failed"]
    /\ UNCHANGED << received, records, audited >>

-----------------------------------------------------------------------------
Work(j) ==
    \/ Start(j)
    \/ InAppForOwner(j) \/ InAppForContact(j)
    \/ SendAccepted(j) \/ SendRefused(j) \/ AnswerLost(j)
    \/ RecordSent(j) \/ RecordSentFails(j) \/ RecordFailed(j) \/ RecordSkipped(j)
    \/ Complete(j) \/ Throw(j)

Next == \E j \in Jobs : EnqueueNotification(j) \/ Work(j) \/ WorkerDies(j)

Spec == Init /\ [][Next]_vars

(* A worker with a job keeps going, and a waiting job is taken up.         *)
FairSpec == Spec /\ \A j \in Jobs : WF_vars(Work(j))

-----------------------------------------------------------------------------
Tries == 0..Attempts
Counts == 0..(Attempts + MaxStalled)

(* The type invariant: with it, nobody is reached and nothing is recorded  *)
(* more often than BullMQ may start the job.                               *)
TypeOK ==
    /\ job \in [Jobs -> [state : {"none", "waiting", "active", "completed", "failed"},
                         tries : Tries,
                         stalls : 0..MaxStalled,
                         at : 1..(Len(Plan) + 1),
                         step : {"next", "ownerTold", "accepted", "caught"},
                         delivered : 0..Len(Plan)]]
    /\ received \in [Jobs -> [Deliveries -> Counts]]
    /\ records \in [Jobs -> [Deliveries -> [sent : Counts, failed : Counts, skipped : Counts]]]
    /\ audited \in [Jobs -> SUBSET (0..Len(Plan))]

(* A contact hears of an event a second time only when an attempt failed   *)
(* or its worker died: no attempt reaches anybody twice, and the one under *)
(* way has not yet reached whom it has not come to.                        *)
ReachedOncePerAttempt ==
    \A j \in Jobs, i \in Deliveries :
        LET starts == job[j].tries + job[j].stalls
        IN  /\ received[j][i] <= starts
            /\ job[j].state = "active" /\ job[j].at < i => received[j][i] < starts

(* A completed job passed over nobody: every delivery has been recorded,   *)
(* and every in-app one was made.                                          *)
NobodyPassedOver ==
    \A j \in Jobs : job[j].state = "completed" =>
        \A i \in Deliveries :
            LET r == records[j][i]
            IN  IF Plan[i] = "in_app" THEN received[j][i] >= 1
                                      ELSE r.sent + r.failed + r.skipped >= 1

(* No row claims more than was done: a message recorded as sent went out.  *)
SentIsTrue ==
    \A j \in Jobs, i \in Deliveries :
        Plan[i] \in External => records[j][i].sent <= received[j][i]

(* The audit event never counts a delivery that was not made, whatever     *)
(* attempts went before.                                                   *)
AuditNeverOverstates ==
    \A j \in Jobs : \A n \in audited[j] :
        n <= Cardinality({ i \in Deliveries : received[j][i] > 0 })

(* Neither the rows nor the audit event claim more than was done, though   *)
(* attempts fail, workers die and answers are lost in between.             *)
RecordsNeverOverstate == SentIsTrue /\ AuditNeverOverstates

(* Every event that reaches the queue is completed or given up.            *)
JobsSettle == \A j \in Jobs : job[j].state = "waiting" ~> job[j].state \in {"completed", "failed"}

(* queues.service.test.js names what the fan-out does: it "records in-app, *)
(* SMS, email, and audit delivery outcomes".  When a job has completed,    *)
(* the messages that went out are the ones recorded as sent.               *)
OutcomesRecorded ==
    \A j \in Jobs : job[j].state = "completed" =>
        \A i \in Deliveries : Plan[i] \in External => records[j][i].sent = received[j][i]
=============================================================================
