----------------------------- MODULE SafeArrival -----------------------------
(***************************************************************************)
(* Safe Arrival: the journeys of JourneysService and the minute timer that *)
(* expires them.                                                           *)
(*                                                                         *)
(* confirmArrival, recordLocation, checkIn and cancel take the one         *)
(* safety_journeys row they touch in their first statement and hold it to  *)
(* the commit, so each is one step; when a later statement fails, nothing  *)
(* of it remains.  expireDueJourneys is not a transaction: its UPDATE      *)
(* commits alone, and the notifications follow one autocommitted INSERT at *)
(* a time.  The timer starts a sweep every minute whether or not the last  *)
(* one is over, in every server process.                                   *)
(*                                                                         *)
(* Time is counted in ticks.  The statuses 'paused' and                    *)
(* 'location_unavailable' are accepted by the guards but written by no     *)
(* code; they are left out.                                                *)
(***************************************************************************)
EXTENDS Naturals, Sequences

CONSTANTS Journeys,      \* identities the safety_journeys table may hand out
          Owner,         \* the traveller
          Recipients,    \* the people the traveller chose, the same for each journey
          Sweeps,        \* sweeps that may be running at once
          Durations,     \* what expires_at - started_at may be, in ticks
          Window,        \* ARRIVAL_CONFIRMATION_WINDOW_MS, in ticks
          Horizon,       \* bound on the clock
          MaxFixes,      \* bound on the fixes in a row inside the radius
          MaxCheckIns,   \* bound on the check-ins of one journey
          MaxFailures    \* bound on the sweeps that die half-way

People == Recipients \cup {Owner}

ASSUME OwnerAssumption == Owner \notin Recipients
ASSUME TimeAssumption ==
    /\ Window \in Nat /\ Horizon \in Nat
    /\ Durations \subseteq Nat
    /\ \A d \in Durations : Window < d
ASSUME BoundAssumption ==
    MaxFixes \in Nat /\ MaxCheckIns \in Nat /\ MaxFailures \in Nat

VARIABLES journey,    \* safety_journeys rows
          run,        \* history: the times of the fixes inside the radius since
                      \* the last one outside
          told,       \* the notifications each person has on a journey, oldest first
          pending,    \* the INSERTs each running sweep still has to make
          now,        \* the clock of the database
          failures    \* how many sweeps have died

vars == << journey, run, told, pending, now, failures >>

-----------------------------------------------------------------------------
Null == Horizon + 1      \* a timestamp column that is null

NoJourney == [status |-> "none", expires |-> Null, count |-> 0, since |-> Null,
              asked |-> FALSE, checkIns |-> 0]

Times == 0..(Horizon + 1)
JourneyRows == [status : {"none", "active", "arrived", "cancelled", "expired"},
                expires : Nat,
                count : 0..2,
                since : Times,
                asked : BOOLEAN,
                checkIns : 0..MaxCheckIns]
Messages == {"arrived", "unconfirmed", "checked_in"}

Init ==
    /\ journey = [j \in Journeys |-> NoJourney]
    /\ run = [j \in Journeys |-> << >>]
    /\ told = [j \in Journeys |-> [p \in People |-> << >>]]
    /\ pending = [s \in Sweeps |-> {}]
    /\ now = 0
    /\ failures = 0

(* for update ... and expires_at > now() *)
UnderWay(j) == journey[j].status = "active" /\ journey[j].expires > now

(* One INSERT into notifications for each recipient, in the transaction.   *)
NotifyRecipients(j, message) ==
    told' = [told EXCEPT ![j] = [p \in People |->
                IF p \in Recipients THEN Append(@[p], message) ELSE @[p]]]

-----------------------------------------------------------------------------
Create(j, d) ==
    /\ journey[j].status = "none"
    /\ journey' = [journey EXCEPT ![j].status = "active", ![j].expires = now + d]
    /\ UNCHANGED << run, told, pending, now, failures >>

(* Fault: the SELECT forgets "expires_at > now()" and the status.          *)
ConfirmArrivalUnguarded(j) ==
    /\ journey[j].status # "none"
    /\ journey' = [journey EXCEPT ![j].status = "arrived"]
    /\ NotifyRecipients(j, "arrived")
    /\ UNCHANGED << run, pending, now, failures >>

(* The traveller says "I've arrived" and is near the destination.          *)
ConfirmArrival(j) ==
    /\ UnderWay(j)
    /\ journey' = [journey EXCEPT ![j].status = "arrived"]
    /\ NotifyRecipients(j, "arrived")
    /\ UNCHANGED << run, pending, now, failures >>

(* Fault: a fix outside the radius leaves the confirmation standing.       *)
RecordOutsideKeepsCount(j) ==
    /\ UnderWay(j)
    /\ run' = [run EXCEPT ![j] = << >>]
    /\ UNCHANGED << journey, told, pending, now, failures >>

(* recordLocation, outside the destination's radius.                       *)
RecordOutside(j) ==
    /\ UnderWay(j)
    /\ journey' = [journey EXCEPT ![j].count = 0, ![j].since = Null]
    /\ run' = [run EXCEPT ![j] = << >>]
    /\ UNCHANGED << told, pending, now, failures >>

(* The count the next fix inside the radius brings the journey to.         *)
Confirmations(j) ==
    IF journey[j].since # Null /\ now - journey[j].since <= Window
      THEN journey[j].count + 1
      ELSE 1

(* recordLocation, inside.  The time of the first confirmation is kept     *)
(* (coalesce), also when its window has passed.                            *)
RecordInside(j) ==
    /\ UnderWay(j)
    /\ Len(run[j]) < MaxFixes
    /\ run' = [run EXCEPT ![j] = Append(@, now)]
    /\ IF Confirmations(j) < 2
         THEN /\ journey' = [journey EXCEPT
                    ![j].count = Confirmations(j),
                    ![j].since = IF @ = Null THEN now ELSE @]
              /\ UNCHANGED told
         ELSE /\ journey' = [journey EXCEPT
                    ![j].status = "arrived", ![j].count = Confirmations(j)]
              /\ NotifyRecipients(j, "arrived")
    /\ UNCHANGED << pending, now, failures >>

(* Nothing but the status guards a check-in: it may be repeated.           *)
CheckIn(j) ==
    /\ journey[j].status = "expired"
    /\ journey[j].checkIns < MaxCheckIns
    /\ journey' = [journey EXCEPT ![j].asked = FALSE, ![j].checkIns = @ + 1]
    /\ NotifyRecipients(j, "checked_in")
    /\ UNCHANGED << run, pending, now, failures >>

(* Fault: the status is spelt in another way than the table's check has it. *)
CancelMisspelt(j) ==
    /\ journey[j].status = "active"
    /\ journey' = [journey EXCEPT ![j].status = "canceled"]
    /\ UNCHANGED << run, told, pending, now, failures >>

(* cancel does not look at expires_at: until a sweep has seen it, a        *)
(* journey whose time is over may still be cancelled.                      *)
Cancel(j) ==
    /\ journey[j].status = "active"
    /\ journey' = [journey EXCEPT ![j].status = "cancelled"]
    /\ UNCHANGED << run, told, pending, now, failures >>

-----------------------------------------------------------------------------
(* The sweep. *)

Due(j) == journey[j].status = "active" /\ journey[j].expires <= now

(* Fault: the sweep selects the journeys without their status, so that a   *)
(* journey is swept again and again.                                       *)
ExpireDueAgain(s) ==
    LET due == { j \in Journeys : journey[j].status \in {"active", "expired"}
                                  /\ journey[j].expires <= now }
    IN  /\ pending[s] = {}
        /\ due # {}
        /\ journey' = [j \in Journeys |->
               IF j \in due THEN [journey[j] EXCEPT !.status = "expired", !.asked = TRUE]
                            ELSE journey[j]]
        /\ pending' = [pending EXCEPT ![s] = due \X People]
        /\ UNCHANGED << run, told, now, failures >>

(* Fault: only the traveller is told.                                      *)
ExpireDueOwnerOnly(s) ==
    LET due == { j \in Journeys : Due(j) }
    IN  /\ pending[s] = {}
        /\ due # {}
        /\ journey' = [j \in Journeys |->
               IF j \in due THEN [journey[j] EXCEPT !.status = "expired", !.asked = TRUE]
                            ELSE journey[j]]
        /\ pending' = [pending EXCEPT ![s] = due \X {Owner}]
        /\ UNCHANGED << run, told, now, failures >>

(* Fault: a journey with a first confirmation is left to its second.       *)
ExpireDueUnconfirmed(s) ==
    LET due == { j \in Journeys : Due(j) /\ journey[j].count = 0 }
    IN  /\ pending[s] = {}
        /\ due # {}
        /\ journey' = [j \in Journeys |->
               IF j \in due THEN [journey[j] EXCEPT !.status = "expired", !.asked = TRUE]
                            ELSE journey[j]]
        /\ pending' = [pending EXCEPT ![s] = due \X People]
        /\ UNCHANGED << run, told, now, failures >>

ExpireDue(s) ==
    LET due == { j \in Journeys : Due(j) }
    IN  /\ pending[s] = {}
        /\ due # {}
        /\ journey' = [j \in Journeys |->
               IF j \in due THEN [journey[j] EXCEPT !.status = "expired", !.asked = TRUE]
                            ELSE journey[j]]
        /\ pending' = [pending EXCEPT ![s] = due \X People]
        /\ UNCHANGED << run, told, now, failures >>

(* Journeys are worked off one after the other, the traveller first.       *)
Untouched(s, j) == \A p \in People : << j, p >> \in pending[s]
WorkedOff(s, j) == \A p \in People : << j, p >> \notin pending[s]

NotifyExpiry(s, j, p) ==
    /\ << j, p >> \in pending[s]
    /\ p # Owner => << j, Owner >> \notin pending[s]
    /\ \A k \in Journeys \ {j} : Untouched(s, k) \/ WorkedOff(s, k)
    /\ told' = [told EXCEPT ![j][p] = Append(@, "unconfirmed")]
    /\ pending' = [pending EXCEPT ![s] = @ \ {<< j, p >>}]
    /\ UNCHANGED << journey, run, now, failures >>

(* A failing query ends the sweep, and the timer swallows the error; so    *)
(* does a crash of the process.  The journeys stay expired.                *)
SweepDies(s) ==
    /\ pending[s] # {}
    /\ failures < MaxFailures
    /\ failures' = failures + 1
    /\ pending' = [pending EXCEPT ![s] = {}]
    /\ UNCHANGED << journey, run, told, now >>

Tick ==
    /\ now < Horizon
    /\ now' = now + 1
    /\ UNCHANGED << journey, run, told, pending, failures >>

-----------------------------------------------------------------------------
Handle(j) ==
    \/ \E d \in Durations : Create(j, d)
    \/ ConfirmArrival(j) \/ RecordOutside(j) \/ RecordInside(j)
    \/ CheckIn(j) \/ Cancel(j)

Sweep(s) ==
    \/ ExpireDue(s)
    \/ \E j \in Journeys, p \in People : NotifyExpiry(s, j, p)

Next ==
    \/ \E j \in Journeys : Handle(j)
    \/ \E s \in Sweeps : Sweep(s) \/ SweepDies(s)
    \/ Tick

Spec == Init /\ [][Next]_vars

(* The interval timer fires and its callback runs; time passes.            *)
FairSpec == Spec /\ WF_vars(Tick) /\ \A s \in Sweeps : WF_vars(Sweep(s))

-----------------------------------------------------------------------------
(* The type invariant of the rows, the notifications and the sweeps.       *)
TypeOK ==
    /\ journey \in [Journeys -> JourneyRows]
    /\ run \in [Journeys -> Seq(0..Horizon)]
    /\ told \in [Journeys -> [People -> Seq(Messages)]]
    /\ pending \in [Sweeps -> SUBSET (Journeys \X People)]
    /\ now \in 0..Horizon
    /\ failures \in 0..MaxFailures

Heard(j, p, message) == \E i \in 1..Len(told[j][p]) : told[j][p][i] = message

(* A journey has one ending and recipients hear of that one: whoever is    *)
(* told "arrived safely" hears nothing else about the journey, hears it    *)
(* once, and the journey did arrive -- and all recipients are told alike,  *)
(* although fixes, the button and overlapping sweeps compete for the row.  *)
ArrivalToldOnce ==
    \A j \in Journeys :
        /\ \A p \in People : Heard(j, p, "arrived") => journey[j].status = "arrived"
        /\ journey[j].status = "arrived" =>
              \A p \in Recipients : told[j][p] = << "arrived" >>

Unconfirmed(j, p) == { i \in 1..Len(told[j][p]) : told[j][p][i] = "unconfirmed" }
PendingFor(j, p) == { s \in Sweeps : << j, p >> \in pending[s] }

(* However sweeps overlap, each person is told at most once that a journey *)
(* could not be confirmed -- by one sweep, and not if another one has done *)
(* it already -- and only when the journey expired.                        *)
ExpiryToldOnce ==
    \A j \in Journeys, p \in People :
        /\ \A i, k \in Unconfirmed(j, p) : i = k
        /\ \A s, t \in PendingFor(j, p) : s = t
        /\ Unconfirmed(j, p) = {} \/ PendingFor(j, p) = {}
        /\ Unconfirmed(j, p) # {} \/ PendingFor(j, p) # {} =>
              journey[j].status = "expired"

(* A check-in request stands exactly while a journey is expired and nobody *)
(* has checked in: a late sweep never raises it again, and nobody checks   *)
(* in on a journey that did not expire.                                    *)
RequestStands ==
    \A j \in Journeys :
        /\ journey[j].asked <=> journey[j].status = "expired" /\ journey[j].checkIns = 0
        /\ journey[j].checkIns # 0 => journey[j].status = "expired"

(* A journey arrives by itself only on two fixes inside the radius, with   *)
(* none outside between them and no further apart than the window.  The    *)
(* row holds no more than a count and the time of the first fix.           *)
ArrivalIsConfirmed ==
    \A j \in Journeys :
        /\ journey[j].status = "active" => journey[j].count < 2
        /\ journey[j].count = 2 =>
              \E i, k \in 1..Len(run[j]) : i < k /\ run[j][k] - run[j][i] <= Window

(* A journey that has ended is never restarted, ends in no second way, and *)
(* records no further location.                                            *)
EndingIsFinal ==
    [][\A j \in Journeys :
          journey[j].status \notin {"none", "active"} =>
              /\ journey'[j].status = journey[j].status
              /\ journey'[j].count = journey[j].count
              /\ journey'[j].since = journey[j].since]_vars

(* Everyone concerned is told of every journey that runs out of time,      *)
(* unless a sweep has died: a dead sweep's notifications are never made.   *)
ExpiryIsTold ==
    \A j \in Journeys, p \in People :
        journey[j].status = "expired" ~> Heard(j, p, "unconfirmed") \/ failures > 0

(* A journey does not stay active for good: once its time is over the      *)
(* timer ends it, whether or not the phone ever reports again.             *)
NoJourneyForgotten == \A j \in Journeys : Due(j) ~> ~Due(j)
=============================================================================
