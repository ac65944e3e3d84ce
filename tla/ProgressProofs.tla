----------------------------- MODULE ProgressProofs -----------------------------
(*****************************************************************************)
(* Proofs about MCProgress, for every value of its constants: each of its    *)
(* invariants, and the types of all its parts.                               *)
(*                                                                           *)
(* A behaviour of MCProgress shows one part, and a step of another leaves    *)
(* the part's variables alone.  Each part has an inductive invariant of its  *)
(* own (FanoutInv, BroadcastInv, LocationInv), shown for the part's own      *)
(* steps and then for the specification: a step of MCProgress is one of the  *)
(* part's or none.  In order: the fan-out of an alert event, an              *)
(* organization's broadcasts and the upload of an alert's locations.         *)
(*****************************************************************************)
EXTENDS MCProgress, SliceProofs

-----------------------------------------------------------------------------
(* The fan-out of an alert event: NotificationFanout.                      *)
(*                                                                         *)
(* None of the properties is inductive: what they say of the counts rests  *)
(* on where the attempt under way is.  Counted says so for each delivery:  *)
(* behind the attempt it has been recorded, ahead of it this attempt has   *)
(* not touched it yet, and at it the step tells which of the two counts    *)
(* this attempt has raised.  Honest bounds the delivered the attempt has   *)
(* counted by the deliveries behind it that somebody received.             *)

Rows == [sent : Nat, failed : Nat, skipped : Nat]
Places == [state : {"none", "waiting", "active", "completed", "failed"},
           tries : Nat, stalls : 0..MaxStalled, at : 1..(Len(Plan) + 1),
           step : {"next", "ownerTold", "accepted", "caught"}, delivered : 0..Len(Plan)]

Typed ==
    /\ job \in [Jobs -> Places]
    /\ received \in [Jobs -> [Deliveries -> Nat]]
    /\ records \in [Jobs -> [Deliveries -> Rows]]
    /\ audited \in [Jobs -> SUBSET (0..Len(Plan))]

(* The delivery an attempt has not yet made.                               *)
Upto(d) == IF d.step \in {"accepted", "caught"} THEN d.at + 1 ELSE d.at

(* The attempts that are left, and the step of the attempt under way.      *)
Fits(d) ==
    /\ d.tries <= Attempts
    /\ d.state = "none" => d.tries = 0
    /\ d.state = "waiting" => d.tries < Attempts
    /\ d.state = "active" =>
        /\ d.tries >= 1
        /\ d.step = "ownerTold" => d.at <= Len(Plan) /\ Plan[d.at] = "in_app"
        /\ d.step \in {"accepted", "caught"} => d.at <= Len(Plan) /\ Plan[d.at] \in External
        /\ d.delivered < Upto(d)

Starts(d) == d.tries + d.stalls
AtMost(r, n) == r.sent <= n /\ r.failed <= n /\ r.skipped <= n

Counted(d, i, x, r) ==
    /\ x <= Starts(d) /\ AtMost(r, Starts(d))
    /\ d.state = "active" =>
        /\ i > d.at \/ (i = d.at /\ d.step \in {"next", "ownerTold"}) => x < Starts(d)
        /\ i > d.at \/ (i = d.at /\ d.step # "ownerTold") => AtMost(r, Starts(d) - 1)
        /\ i = d.at /\ d.step = "accepted" => r.sent < x
    /\ d.state = "completed" \/ (d.state = "active" /\ i < d.at) =>
        IF Plan[i] = "in_app" THEN x >= 1 ELSE r.sent + r.failed + r.skipped >= 1
    /\ Plan[i] # "in_app" => r.sent <= x

Reached(n, k) == {i \in Deliveries : i < k /\ n[i] > 0}

Honest(d, n, a) ==
    /\ d.state = "active" => d.delivered <= Cardinality(Reached(n, Upto(d)))
    /\ \A m \in a : m <= Cardinality(Reached(n, Len(Plan) + 1))

Good(j) ==
    /\ Fits(job[j])
    /\ \A i \in Deliveries : Counted(job[j], i, received[j][i], records[j][i])
    /\ Honest(job[j], received[j], audited[j])

FanoutInv == Typed /\ \A j \in Jobs : Good(j)

-----------------------------------------------------------------------------
(* Plans and cardinalities. *)

LEMMA PlanIs ==
    /\ Len(Plan) \in Nat
    /\ \A i \in Deliveries : Plan[i] \in {"in_app", "sms", "email"}
    /\ "in_app" \notin External
BY PlanAssumption DEF External, Deliveries

LEMMA ReachedIsFinite ==
    ASSUME NEW n, NEW k
    PROVE  /\ IsFiniteSet(Reached(n, k))
           /\ Cardinality(Reached(n, k)) \in Nat
           /\ Cardinality(Reached(n, k)) <= Len(Plan)
<1>1. /\ IsFiniteSet(1..Len(Plan)) /\ Cardinality(1..Len(Plan)) = Len(Plan)
    BY PlanIs, FS_Interval
<1>2. Reached(n, k) \in SUBSET (1..Len(Plan))
    BY DEF Reached, Deliveries
<1>3. /\ IsFiniteSet(Reached(n, k))
      /\ Cardinality(Reached(n, k)) <= Cardinality(1..Len(Plan))
    BY <1>1, <1>2, FS_Subset
<1> QED
    BY <1>1, <1>3, FS_CardinalityType

(* What more deliveries reach is no less.                                  *)
LEMMA ReachedGrows ==
    ASSUME NEW n, NEW m, NEW k, NEW l, Reached(n, k) \subseteq Reached(m, l)
    PROVE  Cardinality(Reached(n, k)) <= Cardinality(Reached(m, l))
BY ReachedIsFinite, FS_Subset

(* One more delivery behind the attempt.                                   *)
LEMMA ReachedOneMore ==
    ASSUME NEW n \in [Deliveries -> Nat], NEW i \in Deliveries
    PROVE  LET m == [n EXCEPT ![i] = @ + 1]
           IN  Cardinality(Reached(m, i + 1)) >= Cardinality(Reached(n, i)) + 1
<1> DEFINE m == [n EXCEPT ![i] = @ + 1]
<1>1. i \in Nat
    BY PlanIs DEF Deliveries
<1>2. i \notin Reached(n, i)
    BY <1>1 DEF Reached
<1>3. \A k \in Reached(n, i) \cup {i} : k \in Reached(m, i + 1)
    <2>1. ASSUME NEW k \in Reached(n, i) PROVE k \in Reached(m, i + 1)
        <3>1. k \in Deliveries /\ k \in Nat /\ k < i /\ n[k] > 0
            BY PlanIs DEF Reached, Deliveries
        <3>2. m[k] = n[k] /\ k < i + 1
            BY <1>1, <3>1
        <3> QED
            BY <3>1, <3>2 DEF Reached
    <2>2. i \in Reached(m, i + 1)
        <3>1. m[i] > 0 /\ i < i + 1
            BY <1>1
        <3> QED
            BY <3>1 DEF Reached
    <2> QED
        BY <2>1, <2>2
<1>4. Cardinality(Reached(n, i) \cup {i}) = Cardinality(Reached(n, i)) + 1
    BY <1>2, ReachedIsFinite, FS_AddElement
<1>5. Cardinality(Reached(n, i) \cup {i}) <= Cardinality(Reached(m, i + 1))
    <2>1. Reached(n, i) \cup {i} \in SUBSET Reached(m, i + 1)
        BY <1>3
    <2> QED
        BY <2>1, ReachedIsFinite, FS_Subset
<1> QED
    BY <1>4, <1>5, ReachedIsFinite

-----------------------------------------------------------------------------
LEMMA FanoutInitially == Init => FanoutInv
<1> SUFFICES ASSUME Init PROVE FanoutInv
    OBVIOUS
<1>1. Typed
    BY PlanIs, AttemptsAssumption DEF Init, Typed, Places, Rows, NoJob, Deliveries
<1>2. ASSUME NEW j \in Jobs PROVE Good(j)
    <2>1. /\ job[j] = NoJob /\ audited[j] = {}
          /\ \A i \in Deliveries : /\ received[j][i] = 0
                                  /\ records[j][i] = [sent |-> 0, failed |-> 0, skipped |-> 0]
        BY DEF Init
    <2> QED
        BY <2>1, AttemptsAssumption DEF Good, Fits, Counted, AtMost, Starts, Honest, NoJob
<1> QED
    BY <1>1, <1>2 DEF FanoutInv

(* A step is a step of one job.                                            *)
LEMMA OneJob ==
    ASSUME FanoutInv, NEW j \in Jobs, Typed', Good(j)',
           \A k \in Jobs \ {j} : /\ job'[k] = job[k] /\ received'[k] = received[k]
                                 /\ records'[k] = records[k] /\ audited'[k] = audited[k]
    PROVE  FanoutInv'
<1>1. ASSUME NEW k \in Jobs, k # j PROVE Good(k)'
    BY <1>1 DEF FanoutInv, Good
<1> QED
    BY <1>1 DEF FanoutInv

(* One that only takes the job elsewhere.                                  *)
LEMMA OnlyPlace ==
    ASSUME FanoutInv, NEW j \in Jobs, NEW d \in Places,
           job' = [job EXCEPT ![j] = d], UNCHANGED << received, records, audited >>,
           Fits(d), Honest(d, received[j], audited[j]),
           \A i \in Deliveries : Counted(d, i, received[j][i], records[j][i])
    PROVE  FanoutInv'
<1>1. Typed' /\ job'[j] = d
    BY DEF FanoutInv, Typed
<1>2. Good(j)'
    BY <1>1 DEF Good
<1>3. \A k \in Jobs \ {j} : job'[k] = job[k]
    BY DEF FanoutInv, Typed
<1> QED
    BY <1>1, <1>2, <1>3, OneJob

LEMMA EnqueueNotificationOK ==
    ASSUME FanoutInv, NEW j \in Jobs, EnqueueNotification(j) PROVE FanoutInv'
<1> DEFINE d == [job[j] EXCEPT !.state = "waiting"]
<1>1. /\ job[j] \in Places /\ job[j].state = "none" /\ Good(j)
      /\ job' = [job EXCEPT ![j] = d] /\ UNCHANGED << received, records, audited >>
    BY DEF FanoutInv, Typed, EnqueueNotification
<1>2. d \in Places /\ Fits(d)
    BY <1>1, AttemptsAssumption DEF Places, Good, Fits
<1>3. Honest(d, received[j], audited[j])
    BY <1>1 DEF Good, Honest, Places
<1>4. ASSUME NEW i \in Deliveries PROVE Counted(d, i, received[j][i], records[j][i])
    BY <1>1 DEF Good, Counted, Starts, Places
<1> QED
    BY <1>1, <1>2, <1>3, <1>4, OnlyPlace

LEMMA StartOK == ASSUME FanoutInv, NEW j \in Jobs, Start(j) PROVE FanoutInv'
<1> DEFINE d == [job[j] EXCEPT !.state = "active", !.tries = @ + 1,
                               !.at = 1, !.step = "next", !.delivered = 0]
<1>1. /\ job[j] \in Places /\ job[j].state = "waiting" /\ Good(j)
      /\ job' = [job EXCEPT ![j] = d] /\ UNCHANGED << received, records, audited >>
    BY DEF FanoutInv, Typed, Start
<1>2. /\ d \in Places /\ d.state = "active" /\ d.tries = job[j].tries + 1
      /\ d.stalls = job[j].stalls /\ d.at = 1 /\ d.step = "next" /\ d.delivered = 0
    <2>1. job[j].tries + 1 \in Nat /\ 1 \in 1..(Len(Plan) + 1) /\ 0 \in 0..Len(Plan)
        BY <1>1, PlanIs DEF Places
    <2> QED
        BY <1>1, <2>1 DEF Places
<1>3. Fits(d)
    BY <1>1, <1>2, AttemptsAssumption DEF Good, Fits, Upto, Places
<1>4. Honest(d, received[j], audited[j])
    BY <1>1, <1>2, ReachedIsFinite DEF Good, Honest
<1>5. ASSUME NEW i \in Deliveries PROVE Counted(d, i, received[j][i], records[j][i])
    <2>1. /\ received[j][i] \in Nat /\ records[j][i] \in Rows
          /\ job[j].tries \in Nat /\ job[j].stalls \in Nat /\ i \in Nat /\ i >= 1
        BY <1>1, PlanIs, AttemptsAssumption DEF FanoutInv, Typed, Places, Deliveries
    <2> QED
        BY <1>1, <1>2, <2>1 DEF Good, Counted, Starts, AtMost, Rows
<1> QED
    BY <1>1, <1>2, <1>3, <1>4, <1>5, OnlyPlace

(* The step changes while the attempt stays at its delivery, and nobody    *)
(* has been reached or recorded.                                           *)
LEMMA CaughtOK ==
    ASSUME FanoutInv, NEW j \in Jobs, SendRefused(j) \/ RecordSentFails(j) PROVE FanoutInv'
<1> DEFINE d == [job[j] EXCEPT !.step = "caught"]
<1>1. /\ job[j] \in Places /\ Good(j) /\ job[j].state = "active" /\ job[j].at <= Len(Plan)
      /\ job[j].step \in {"next", "accepted"}
      /\ job' = [job EXCEPT ![j] = d] /\ UNCHANGED << received, records, audited >>
    BY DEF FanoutInv, Typed, SendRefused, RecordSentFails, At
<1>2. /\ d \in Places /\ d.state = "active" /\ d.tries = job[j].tries
      /\ d.stalls = job[j].stalls /\ d.at = job[j].at /\ d.step = "caught"
      /\ d.delivered = job[j].delivered
    BY <1>1 DEF Places
<1>3. Plan[job[j].at] \in External
    BY <1>1, ConfiguredAssumption DEF SendRefused, RecordSentFails, At, Channel, Good, Fits
<1>4. job[j].at \in Nat /\ job[j].delivered \in Nat
    BY <1>1, PlanIs DEF Places
<1>5. Fits(d)
    BY <1>1, <1>2, <1>3, <1>4 DEF Good, Fits, Upto
<1>6. Honest(d, received[j], audited[j])
    <2>1. Reached(received[j], Upto(job[j])) \subseteq Reached(received[j], Upto(d))
        BY <1>2, <1>4, PlanIs DEF Reached, Upto, Deliveries
    <2>2. Cardinality(Reached(received[j], Upto(job[j])))
            <= Cardinality(Reached(received[j], Upto(d)))
        BY <2>1, ReachedGrows
    <2> QED
        BY <1>1, <1>2, <1>4, <2>2, ReachedIsFinite DEF Good, Honest
<1>7. ASSUME NEW i \in Deliveries PROVE Counted(d, i, received[j][i], records[j][i])
    <2>1. /\ received[j][i] \in Nat /\ records[j][i] \in Rows /\ i \in Nat
        BY PlanIs DEF FanoutInv, Typed, Deliveries
    <2> QED
        BY <1>1, <1>2, <1>4, <2>1 DEF Good, Counted, Starts, AtMost, Rows
<1> QED
    BY <1>1, <1>2, <1>5, <1>6, <1>7, OnlyPlace

(* A job is taken from its attempt: waiting, failed or completed.          *)
LEMMA ThrowOK == ASSUME FanoutInv, NEW j \in Jobs, Throw(j) PROVE FanoutInv'
<1> DEFINE d == [job[j] EXCEPT !.state =
                    IF job[j].tries < Attempts THEN "waiting" ELSE "failed"]
<1>1. /\ job[j] \in Places /\ Good(j) /\ job[j].state = "active"
      /\ job' = [job EXCEPT ![j] = d] /\ UNCHANGED << received, records, audited >>
    BY DEF FanoutInv, Typed, Throw, CanThrow
<1>2. d \in Places /\ Fits(d)
    BY <1>1, AttemptsAssumption DEF Places, Good, Fits
<1>3. Honest(d, received[j], audited[j])
    BY <1>1 DEF Good, Honest, Places
<1>4. ASSUME NEW i \in Deliveries PROVE Counted(d, i, received[j][i], records[j][i])
    BY <1>1 DEF Good, Counted, Starts, Places
<1> QED
    BY <1>1, <1>2, <1>3, <1>4, OnlyPlace

LEMMA WorkerDiesOK == ASSUME FanoutInv, NEW j \in Jobs, WorkerDies(j) PROVE FanoutInv'
<1> DEFINE d == IF job[j].stalls < MaxStalled
                THEN [job[j] EXCEPT !.state = "waiting", !.tries = @ - 1, !.stalls = @ + 1]
                ELSE [job[j] EXCEPT !.state = "failed"]
<1>1. /\ job[j] \in Places /\ Good(j) /\ job[j].state = "active"
      /\ job' = [job EXCEPT ![j] = d] /\ UNCHANGED << received, records, audited >>
    BY DEF FanoutInv, Typed, WorkerDies
<1>2. /\ job[j].tries \in Nat /\ job[j].stalls \in Nat
      /\ 1 <= job[j].tries /\ job[j].tries <= Attempts
    BY <1>1, AttemptsAssumption DEF Good, Fits, Places
<1>3. /\ d \in Places /\ d.state \in {"waiting", "failed"}
      /\ d.state = "waiting" => d.tries = job[j].tries - 1
      /\ d.state = "failed" => d.tries = job[j].tries
      /\ Starts(d) = Starts(job[j])
    <2>1. CASE job[j].stalls < MaxStalled
        <3> DEFINE e == [job[j] EXCEPT !.state = "waiting", !.tries = @ - 1, !.stalls = @ + 1]
        <3>1. job[j].tries - 1 \in Nat /\ job[j].stalls + 1 \in 0..MaxStalled
            BY <1>2, <2>1, AttemptsAssumption
        <3>2. /\ e \in Places /\ e.state = "waiting"
              /\ e.tries = job[j].tries - 1 /\ e.stalls = job[j].stalls + 1
            BY <1>1, <3>1 DEF Places
        <3>3. Starts(e) = Starts(job[j])
            BY <1>2, <3>2 DEF Starts
        <3>4. d = e
            BY <2>1
        <3> HIDE DEF d, e
        <3> QED
            BY <3>2, <3>3, <3>4
    <2>2. CASE ~(job[j].stalls < MaxStalled)
        <3> DEFINE e == [job[j] EXCEPT !.state = "failed"]
        <3>1. e \in Places /\ e.state = "failed" /\ e.tries = job[j].tries /\ Starts(e) = Starts(job[j])
            BY <1>1 DEF Places, Starts
        <3>2. d = e
            BY <2>2
        <3> HIDE DEF d, e
        <3> QED
            BY <3>1, <3>2
    <2> QED
        BY <2>1, <2>2
<1>4. Fits(d)
    BY <1>2, <1>3, AttemptsAssumption DEF Fits
<1>5. Honest(d, received[j], audited[j])
    BY <1>1, <1>3 DEF Good, Honest
<1>6. ASSUME NEW i \in Deliveries PROVE Counted(d, i, received[j][i], records[j][i])
    BY <1>1, <1>3 DEF Good, Counted
<1> QED
    BY <1>1, <1>3, <1>4, <1>5, <1>6, OnlyPlace

LEMMA CompleteOK == ASSUME FanoutInv, NEW j \in Jobs, Complete(j) PROVE FanoutInv'
<1> DEFINE d == [job[j] EXCEPT !.state = "completed"]
<1>1. /\ job[j] \in Places /\ Good(j) /\ job[j].state = "active" /\ job[j].at = Len(Plan) + 1
      /\ job' = [job EXCEPT ![j] = d] /\ UNCHANGED << received, records >>
      /\ audited' = [audited EXCEPT ![j] = @ \cup {job[j].delivered}]
    BY DEF FanoutInv, Typed, Complete
<1>2. /\ d \in Places /\ d.state = "completed" /\ d.tries = job[j].tries
      /\ d.stalls = job[j].stalls
    BY <1>1 DEF Places
<1>3. /\ Typed' /\ job'[j] = d /\ audited'[j] = audited[j] \cup {job[j].delivered}
      /\ \A k \in Jobs \ {j} : job'[k] = job[k] /\ audited'[k] = audited[k]
    <2>1. job[j].delivered \in 0..Len(Plan)
        BY <1>1 DEF Places
    <2> QED
        BY <1>1, <1>2, <2>1 DEF FanoutInv, Typed
<1>4. Fits(d)
    BY <1>1, <1>2 DEF Good, Fits
<1>5. Honest(d, received[j], audited[j] \cup {job[j].delivered})
    <2>1. Upto(job[j]) = Len(Plan) + 1
        BY <1>1, PlanIs DEF Good, Fits, Upto, Places
    <2> QED
        BY <1>1, <1>2, <2>1 DEF Good, Honest
<1>6. ASSUME NEW i \in Deliveries PROVE Counted(d, i, received[j][i], records[j][i])
    <2>1. i < job[j].at
        BY <1>1, PlanIs DEF Deliveries
    <2> QED
        BY <1>1, <1>2, <2>1 DEF Good, Counted, Starts
<1>7. Good(j)'
    BY <1>1, <1>3, <1>4, <1>5, <1>6 DEF Good
<1> QED
    BY <1>1, <1>3, <1>7, OneJob

-----------------------------------------------------------------------------
(* The steps of the loop.  Each is at one delivery, of which it may raise  *)
(* what its contact received or what the rows say.                         *)
LEMMA OneDelivery ==
    ASSUME FanoutInv, NEW j \in Jobs, NEW d \in Places,
           NEW m \in [Deliveries -> Nat], NEW q \in [Deliveries -> Rows],
           job' = [job EXCEPT ![j] = d], received' = [received EXCEPT ![j] = m],
           records' = [records EXCEPT ![j] = q], audited' = audited,
           Fits(d), Honest(d, m, audited[j]),
           \A i \in Deliveries : Counted(d, i, m[i], q[i])
    PROVE  FanoutInv'
<1>1. /\ Typed' /\ job'[j] = d /\ received'[j] = m /\ records'[j] = q
      /\ \A k \in Jobs \ {j} : /\ job'[k] = job[k] /\ received'[k] = received[k]
                               /\ records'[k] = records[k] /\ audited'[k] = audited[k]
    BY DEF FanoutInv, Typed
<1>2. Good(j)'
    BY <1>1 DEF Good
<1> QED
    BY <1>1, <1>2, OneJob

(* What is said of the deliveries the attempt is not at.                   *)
LEMMA OthersAsBefore ==
    ASSUME NEW c \in Places, NEW d \in Places, NEW k \in Deliveries, NEW x \in Nat, NEW r \in Rows,
           Counted(c, k, x, r), k # c.at, c.state = "active", d.state = "active",
           d.tries = c.tries, d.stalls = c.stalls,
           d.at = c.at \/ (d.at = c.at + 1 /\ d.step = "next")
    PROVE  Counted(d, k, x, r)
<1>1. k \in Nat /\ c.at \in Nat /\ Starts(d) = Starts(c)
    BY PlanIs DEF Deliveries, Places, Starts
<1>2. CASE k < c.at
    <2>1. k < d.at /\ ~(k > d.at) /\ k # d.at
        BY <1>1, <1>2
    <2> QED
        BY <1>1, <1>2, <2>1 DEF Counted
<1>3. CASE k > c.at
    <2>1. ~(k < d.at) /\ (k = d.at => d.step = "next")
        BY <1>1, <1>3
    <2> QED
        BY <1>1, <1>3, <2>1 DEF Counted
<1> QED
    BY <1>1, <1>2, <1>3

(* When contacts have received no less, no fewer are reached.              *)
LEMMA ReachedMore ==
    ASSUME NEW n \in [Deliveries -> Nat], NEW m \in [Deliveries -> Nat],
           \A k \in Deliveries : n[k] <= m[k], NEW k \in Nat, NEW l \in Nat, k <= l
    PROVE  Cardinality(Reached(n, k)) <= Cardinality(Reached(m, l))
<1>1. \A i \in Deliveries : i \in Nat /\ n[i] \in Nat /\ m[i] \in Nat
    BY PlanIs DEF Deliveries
<1>2. Reached(n, k) \subseteq Reached(m, l)
    BY <1>1 DEF Reached
<1> QED
    BY <1>2, ReachedGrows

(* What is known at a delivery.                                            *)
LEMMA AtDelivery ==
    ASSUME FanoutInv, NEW j \in Jobs, job[j].state = "active", job[j].at <= Len(Plan)
    PROVE  /\ job[j] \in Places /\ Good(j)
           /\ job[j].at \in Deliveries /\ job[j].at \in Nat /\ job[j].delivered \in Nat
           /\ Starts(job[j]) \in Nat
           /\ received[j] \in [Deliveries -> Nat] /\ records[j] \in [Deliveries -> Rows]
           /\ received[j][job[j].at] \in Nat /\ records[j][job[j].at] \in Rows
           /\ Counted(job[j], job[j].at, received[j][job[j].at], records[j][job[j].at])
           /\ Honest(job[j], received[j], audited[j]) /\ audited[j] \subseteq Nat
           /\ [received EXCEPT ![j] = [@ EXCEPT ![job[j].at] = received[j][job[j].at]]] = received
           /\ [records EXCEPT ![j] = [@ EXCEPT ![job[j].at] = records[j][job[j].at]]] = records
<1>1. job[j] \in Places /\ Good(j)
    BY DEF FanoutInv, Typed
<1>2. job[j].at \in Deliveries /\ job[j].at \in Nat /\ job[j].delivered \in Nat
    BY <1>1, PlanIs DEF Places, Deliveries
<1>3. Starts(job[j]) \in Nat
    BY <1>1, AttemptsAssumption DEF Places, Starts
<1>4. /\ received[j] \in [Deliveries -> Nat] /\ records[j] \in [Deliveries -> Rows]
      /\ audited[j] \subseteq Nat
    BY PlanIs DEF FanoutInv, Typed
<1>5. /\ [received[j] EXCEPT ![job[j].at] = received[j][job[j].at]] = received[j]
      /\ [records[j] EXCEPT ![job[j].at] = records[j][job[j].at]] = records[j]
    BY <1>4
<1>6. /\ [received EXCEPT ![j] = [@ EXCEPT ![job[j].at] = received[j][job[j].at]]] = received
      /\ [records EXCEPT ![j] = [@ EXCEPT ![job[j].at] = records[j][job[j].at]]] = records
    BY <1>5 DEF FanoutInv, Typed
<1> QED
    BY <1>1, <1>2, <1>3, <1>4, <1>6 DEF Good

LEMMA LoopStep ==
    ASSUME FanoutInv, NEW j \in Jobs, job[j].state = "active", job[j].at <= Len(Plan),
           NEW d \in Places, NEW x \in Nat, NEW s \in Rows,
           job' = [job EXCEPT ![j] = d], audited' = audited,
           received' = [received EXCEPT ![j] = [@ EXCEPT ![job[j].at] = x]],
           records' = [records EXCEPT ![j] = [@ EXCEPT ![job[j].at] = s]],
           d.state = "active", d.tries = job[j].tries, d.stalls = job[j].stalls,
           d.at = job[j].at \/ (d.at = job[j].at + 1 /\ d.step = "next"),
           \/ /\ x = received[j][job[j].at] \/ x = received[j][job[j].at] + 1
              /\ d.delivered = job[j].delivered /\ Upto(d) >= Upto(job[j])
           \/ /\ x = received[j][job[j].at] + 1
              /\ d.delivered = job[j].delivered + 1
              /\ Upto(job[j]) = job[j].at /\ Upto(d) = job[j].at + 1,
           Fits(d), Counted(d, job[j].at, x, s)
    PROVE  FanoutInv'
<1> DEFINE c == job[j]
           i == c.at
           m == [received[j] EXCEPT ![i] = x]
           q == [records[j] EXCEPT ![i] = s]
<1>1. /\ c \in Places /\ Good(j) /\ i \in Deliveries /\ i \in Nat
      /\ received[j] \in [Deliveries -> Nat] /\ records[j] \in [Deliveries -> Rows]
      /\ Honest(c, received[j], audited[j]) /\ audited[j] \subseteq Nat
    BY AtDelivery
<1>2. /\ m \in [Deliveries -> Nat] /\ m[i] = x
      /\ \A k \in Deliveries : k # i => m[k] = received[j][k]
    BY <1>1
<1>3. /\ q \in [Deliveries -> Rows] /\ q[i] = s
      /\ \A k \in Deliveries : k # i => q[k] = records[j][k]
    BY <1>1
<1>4. received' = [received EXCEPT ![j] = m] /\ records' = [records EXCEPT ![j] = q]
    OBVIOUS
<1>5. \A k \in Deliveries : received[j][k] <= m[k]
    BY <1>1, <1>2
<1>6. Upto(c) \in Nat /\ Upto(d) \in Nat /\ c.delivered \in Nat
    BY <1>1 DEF Upto, Places
<1>7. Honest(d, m, audited[j])
    <2>1. Cardinality(Reached(received[j], Len(Plan) + 1)) <= Cardinality(Reached(m, Len(Plan) + 1))
        <3> DEFINE k == Len(Plan) + 1
        <3>1. k \in Nat /\ k <= k
            BY PlanIs
        <3> HIDE DEF k
        <3>2. Cardinality(Reached(received[j], k)) <= Cardinality(Reached(m, k))
            BY <1>1, <1>2, <1>5, <3>1, ReachedMore
        <3> QED
            BY <3>2 DEF k
    <2>2. \A k \in audited[j] : k <= Cardinality(Reached(m, Len(Plan) + 1))
        BY <1>1, <2>1, ReachedIsFinite DEF Honest
    <2>3. CASE d.delivered = c.delivered /\ Upto(d) >= Upto(c)
        <3>1. Cardinality(Reached(received[j], Upto(c))) <= Cardinality(Reached(m, Upto(d)))
            BY <1>1, <1>2, <1>5, <1>6, <2>3, ReachedMore
        <3>2. c.delivered <= Cardinality(Reached(received[j], Upto(c)))
            BY <1>1 DEF Honest
        <3>3. d.delivered <= Cardinality(Reached(m, Upto(d)))
            BY <1>6, <2>3, <3>1, <3>2, ReachedIsFinite
        <3> QED
            BY <2>2, <3>3 DEF Honest
    <2>4. CASE /\ x = received[j][i] + 1 /\ d.delivered = c.delivered + 1
               /\ Upto(c) = i /\ Upto(d) = i + 1
        <3>1. m = [received[j] EXCEPT ![i] = @ + 1]
            BY <2>4
        <3>2. Cardinality(Reached(m, i + 1)) >= Cardinality(Reached(received[j], i)) + 1
            BY <1>1, <3>1, ReachedOneMore
        <3>3. c.delivered <= Cardinality(Reached(received[j], i))
            BY <1>1, <2>4 DEF Honest
        <3>4. d.delivered <= Cardinality(Reached(m, Upto(d)))
            BY <1>6, <2>4, <3>2, <3>3, ReachedIsFinite
        <3> QED
            BY <2>2, <3>4 DEF Honest
    <2> QED
        BY <2>3, <2>4
<1> HIDE DEF m, q
<1>8. ASSUME NEW k \in Deliveries PROVE Counted(d, k, m[k], q[k])
    <2>1. CASE k = i
        BY <1>2, <1>3, <2>1
    <2>2. CASE k # i
        <3>1. Counted(c, k, received[j][k], records[j][k])
            BY <1>1 DEF Good
        <3>2. received[j][k] \in Nat /\ records[j][k] \in Rows
            BY <1>1
        <3>3. Counted(d, k, received[j][k], records[j][k])
            BY <1>1, <2>2, <3>1, <3>2, OthersAsBefore
        <3> QED
            BY <1>2, <1>3, <2>2, <3>3
    <2> QED
        BY <2>1, <2>2
<1> QED
    BY <1>2, <1>3, <1>4, <1>7, <1>8, OneDelivery

LEMMA InAppForOwnerOK == ASSUME FanoutInv, NEW j \in Jobs, InAppForOwner(j) PROVE FanoutInv'
<1> DEFINE c == job[j]
           i == c.at
           x == received[j][i]
           r == records[j][i]
           d == [c EXCEPT !.step = "ownerTold"]
           s == [r EXCEPT !.sent = @ + 1]
<1>1. /\ c.state = "active" /\ i <= Len(Plan) /\ c.step = "next" /\ Plan[i] = "in_app"
      /\ job' = [job EXCEPT ![j] = d] /\ UNCHANGED << received, audited >>
      /\ records' = [records EXCEPT ![j] = [@ EXCEPT ![i] = s]]
    BY DEF InAppForOwner, At, Channel, Note
<1>2. /\ c \in Places /\ Good(j) /\ i \in Deliveries /\ i \in Nat /\ Starts(c) \in Nat
      /\ x \in Nat /\ r \in Rows /\ Counted(c, i, x, r)
      /\ received' = [received EXCEPT ![j] = [@ EXCEPT ![i] = x]]
    BY <1>1, AtDelivery
<1>3. /\ d \in Places /\ d.state = "active" /\ d.tries = c.tries /\ d.stalls = c.stalls
      /\ d.at = i /\ d.step = "ownerTold" /\ d.delivered = c.delivered /\ Starts(d) = Starts(c)
    BY <1>1, <1>2 DEF Places, Starts
<1>4. s \in Rows /\ s.sent = r.sent + 1 /\ s.failed = r.failed /\ s.skipped = r.skipped
    BY <1>2 DEF Rows
<1>5. Upto(c) = i /\ Upto(d) = i
    BY <1>1, <1>3 DEF Upto
<1>6. Counted(d, i, x, s)
    <2>1. x < Starts(c) /\ AtMost(r, Starts(c) - 1)
        BY <1>1, <1>2 DEF Counted
    <2>2. AtMost(s, Starts(c))
        BY <1>2, <1>4, <2>1 DEF AtMost, Rows
    <2> QED
        BY <1>1, <1>2, <1>3, <2>1, <2>2 DEF Counted
<1>7. Fits(d)
    BY <1>1, <1>2, <1>3, <1>5 DEF Good, Fits
<1>8. Upto(d) >= Upto(c) /\ x = received[j][i]
    BY <1>2, <1>5
<1> HIDE DEF d, s, x, r
<1> QED
    BY <1>1, <1>2, <1>3, <1>4, <1>6, <1>7, <1>8, LoopStep

LEMMA InAppForContactOK == ASSUME FanoutInv, NEW j \in Jobs, InAppForContact(j) PROVE FanoutInv'
<1> DEFINE c == job[j]
           i == c.at
           x == received[j][i]
           r == records[j][i]
           d == [c EXCEPT !.at = @ + 1, !.step = "next", !.delivered = @ + 1]
<1>1. /\ c.state = "active" /\ i <= Len(Plan) /\ c.step = "ownerTold"
      /\ job' = [job EXCEPT ![j] = d] /\ UNCHANGED << records, audited >>
      /\ received' = [received EXCEPT ![j] = [@ EXCEPT ![i] = x + 1]]
    BY DEF InAppForContact, At
<1>2. /\ c \in Places /\ Good(j) /\ i \in Deliveries /\ i \in Nat /\ Starts(c) \in Nat
      /\ x \in Nat /\ r \in Rows /\ Counted(c, i, x, r) /\ c.delivered \in Nat
      /\ records' = [records EXCEPT ![j] = [@ EXCEPT ![i] = r]]
    BY <1>1, AtDelivery
<1>3. Plan[i] = "in_app" /\ c.delivered < i
    BY <1>1, <1>2 DEF Good, Fits, Upto
<1>4. /\ d \in Places /\ d.state = "active" /\ d.tries = c.tries /\ d.stalls = c.stalls
      /\ d.at = i + 1 /\ d.step = "next" /\ d.delivered = c.delivered + 1 /\ Starts(d) = Starts(c)
    <2>1. i + 1 \in 1..(Len(Plan) + 1) /\ c.delivered + 1 \in 0..Len(Plan)
        BY <1>1, <1>2, <1>3, PlanIs
    <2> QED
        BY <1>1, <1>2, <2>1 DEF Places, Starts
<1>5. Upto(c) = i /\ Upto(d) = i + 1
    BY <1>1, <1>4 DEF Upto
<1>6. Counted(d, i, x + 1, r)
    <2>1. x < Starts(c) /\ AtMost(r, Starts(c))
        BY <1>1, <1>2 DEF Counted
    <2>2. x + 1 <= Starts(c) /\ x + 1 >= 1 /\ i < d.at /\ ~(i > d.at) /\ i # d.at
        BY <1>2, <1>4, <2>1
    <2> QED
        BY <1>1, <1>2, <1>3, <1>4, <2>1, <2>2 DEF Counted
<1>7. Fits(d)
    BY <1>1, <1>2, <1>3, <1>4, <1>5 DEF Good, Fits
<1>8. x + 1 \in Nat
    BY <1>2
<1> HIDE DEF d, x, r
<1> QED
    BY <1>1, <1>2, <1>4, <1>5, <1>6, <1>7, <1>8, LoopStep DEF x

(* The provider takes the message: its answer arrives, or is lost.         *)
LEMMA SendAcceptedOK == ASSUME FanoutInv, NEW j \in Jobs, SendAccepted(j) PROVE FanoutInv'
<1> DEFINE c == job[j]
           i == c.at
           x == received[j][i]
           r == records[j][i]
           d == [c EXCEPT !.step = "accepted", !.delivered = @ + 1]
<1>1. /\ c.state = "active" /\ i <= Len(Plan) /\ c.step = "next" /\ Plan[i] \in External
      /\ job' = [job EXCEPT ![j] = d] /\ UNCHANGED << records, audited >>
      /\ received' = [received EXCEPT ![j] = [@ EXCEPT ![i] = x + 1]]
    BY ConfiguredAssumption DEF SendAccepted, At, Channel
<1>2. /\ c \in Places /\ Good(j) /\ i \in Deliveries /\ i \in Nat /\ Starts(c) \in Nat
      /\ x \in Nat /\ r \in Rows /\ Counted(c, i, x, r) /\ c.delivered \in Nat
      /\ records' = [records EXCEPT ![j] = [@ EXCEPT ![i] = r]]
    BY <1>1, AtDelivery
<1>3. Plan[i] # "in_app" /\ c.delivered < i
    BY <1>1, <1>2, PlanIs DEF Good, Fits, Upto
<1>4. /\ d \in Places /\ d.state = "active" /\ d.tries = c.tries /\ d.stalls = c.stalls
      /\ d.at = i /\ d.step = "accepted" /\ d.delivered = c.delivered + 1 /\ Starts(d) = Starts(c)
    <2>1. c.delivered + 1 \in 0..Len(Plan)
        BY <1>1, <1>2, <1>3, PlanIs
    <2> QED
        BY <1>1, <1>2, <2>1 DEF Places, Starts
<1>5. Upto(c) = i /\ Upto(d) = i + 1
    BY <1>1, <1>4 DEF Upto
<1>6. Counted(d, i, x + 1, r)
    <2>1. x < Starts(c) /\ AtMost(r, Starts(c)) /\ AtMost(r, Starts(c) - 1) /\ r.sent <= x
        BY <1>1, <1>2, <1>3 DEF Counted
    <2>2. /\ x + 1 <= Starts(c) /\ ~(i < d.at) /\ ~(i > d.at)
          /\ r.sent < x + 1 /\ r.sent <= x + 1
        BY <1>2, <1>4, <2>1 DEF Rows
    <2> QED
        BY <1>1, <1>2, <1>3, <1>4, <2>1, <2>2 DEF Counted
<1>7. Fits(d)
    BY <1>1, <1>2, <1>3, <1>4, <1>5 DEF Good, Fits
<1>8. x + 1 \in Nat /\ Upto(d) >= Upto(c)
    BY <1>2, <1>5
<1> HIDE DEF d, x, r
<1> QED
    BY <1>1, <1>2, <1>4, <1>5, <1>6, <1>7, <1>8, LoopStep DEF x

LEMMA AnswerLostOK == ASSUME FanoutInv, NEW j \in Jobs, AnswerLost(j) PROVE FanoutInv'
<1> DEFINE c == job[j]
           i == c.at
           x == received[j][i]
           r == records[j][i]
           d == [c EXCEPT !.step = "caught"]
<1>1. /\ c.state = "active" /\ i <= Len(Plan) /\ c.step = "next" /\ Plan[i] \in External
      /\ job' = [job EXCEPT ![j] = d] /\ UNCHANGED << records, audited >>
      /\ received' = [received EXCEPT ![j] = [@ EXCEPT ![i] = x + 1]]
    BY ConfiguredAssumption DEF AnswerLost, At, Channel
<1>2. /\ c \in Places /\ Good(j) /\ i \in Deliveries /\ i \in Nat /\ Starts(c) \in Nat
      /\ x \in Nat /\ r \in Rows /\ Counted(c, i, x, r) /\ c.delivered \in Nat
      /\ records' = [records EXCEPT ![j] = [@ EXCEPT ![i] = r]]
    BY <1>1, AtDelivery
<1>3. Plan[i] # "in_app" /\ c.delivered < i
    BY <1>1, <1>2, PlanIs DEF Good, Fits, Upto
<1>4. /\ d \in Places /\ d.state = "active" /\ d.tries = c.tries /\ d.stalls = c.stalls
      /\ d.at = i /\ d.step = "caught" /\ d.delivered = c.delivered /\ Starts(d) = Starts(c)
    <2>1. c.delivered + 1 \in 0..Len(Plan)
        BY <1>1, <1>2, <1>3, PlanIs
    <2> QED
        BY <1>1, <1>2, <2>1 DEF Places, Starts
<1>5. Upto(c) = i /\ Upto(d) = i + 1
    BY <1>1, <1>4 DEF Upto
<1>6. Counted(d, i, x + 1, r)
    <2>1. x < Starts(c) /\ AtMost(r, Starts(c)) /\ AtMost(r, Starts(c) - 1) /\ r.sent <= x
        BY <1>1, <1>2, <1>3 DEF Counted
    <2>2. /\ x + 1 <= Starts(c) /\ ~(i < d.at) /\ ~(i > d.at)
          /\ r.sent < x + 1 /\ r.sent <= x + 1
        BY <1>2, <1>4, <2>1 DEF Rows
    <2> QED
        BY <1>1, <1>2, <1>3, <1>4, <2>1, <2>2 DEF Counted
<1>7. Fits(d)
    BY <1>1, <1>2, <1>3, <1>4, <1>5 DEF Good, Fits
<1>8. x + 1 \in Nat /\ Upto(d) >= Upto(c)
    BY <1>2, <1>5
<1> HIDE DEF d, x, r
<1> QED
    BY <1>1, <1>2, <1>4, <1>5, <1>6, <1>7, <1>8, LoopStep DEF x

LEMMA OneMoreRow ==
    ASSUME NEW r \in Rows, NEW status \in {"sent", "failed", "skipped"},
           NEW s, s = [r EXCEPT ![status] = @ + 1]
    PROVE  /\ s \in Rows /\ r.sent <= s.sent /\ s.sent <= r.sent + 1
           /\ s.failed <= r.failed + 1 /\ s.skipped <= r.skipped + 1
           /\ s.sent + s.failed + s.skipped >= 1
           /\ status # "sent" => s.sent = r.sent
<1>1. r.sent \in Nat /\ r.failed \in Nat /\ r.skipped \in Nat
    BY DEF Rows
<1>2. CASE status = "sent"
    <2>1. s = [r EXCEPT !.sent = @ + 1]
        BY <1>2
    <2>2. s \in Rows /\ s.sent = r.sent + 1 /\ s.failed = r.failed /\ s.skipped = r.skipped
        BY <2>1 DEF Rows
    <2> QED
        BY <1>1, <1>2, <2>2
<1>3. CASE status = "failed"
    <2>1. s = [r EXCEPT !.failed = @ + 1]
        BY <1>3
    <2>2. s \in Rows /\ s.sent = r.sent /\ s.failed = r.failed + 1 /\ s.skipped = r.skipped
        BY <2>1 DEF Rows
    <2> QED
        BY <1>1, <2>2
<1>4. CASE status = "skipped"
    <2>1. s = [r EXCEPT !.skipped = @ + 1]
        BY <1>4
    <2>2. s \in Rows /\ s.sent = r.sent /\ s.failed = r.failed /\ s.skipped = r.skipped + 1
        BY <2>1 DEF Rows
    <2> QED
        BY <1>1, <2>2
<1> QED
    BY <1>2, <1>3, <1>4

(* A record ends the turn: the message went out, or it did not, or no      *)
(* provider is configured for it.                                          *)
LEMMA RecordedOK ==
    ASSUME FanoutInv, NEW j \in Jobs, job[j].state = "active", job[j].at <= Len(Plan),
           NEW status \in {"sent", "failed", "skipped"},
           job[j].step # "ownerTold", Plan[job[j].at] \in External,
           status = "sent" => job[j].step = "accepted",
           Note(j, status), NextDelivery(j), UNCHANGED << received, audited >>
    PROVE  FanoutInv'
<1> DEFINE c == job[j]
           i == c.at
           x == received[j][i]
           r == records[j][i]
           d == [c EXCEPT !.at = @ + 1, !.step = "next"]
           s == [r EXCEPT ![status] = @ + 1]
<1>1. /\ job' = [job EXCEPT ![j] = d]
      /\ records' = [records EXCEPT ![j] = [@ EXCEPT ![i] = s]]
    BY DEF Note, NextDelivery
<1>2. /\ c \in Places /\ Good(j) /\ i \in Deliveries /\ i \in Nat /\ Starts(c) \in Nat
      /\ x \in Nat /\ r \in Rows /\ Counted(c, i, x, r) /\ c.delivered \in Nat
      /\ received' = [received EXCEPT ![j] = [@ EXCEPT ![i] = x]]
    BY AtDelivery
<1>3. Plan[i] # "in_app"
    BY PlanIs
<1>4. /\ d \in Places /\ d.state = "active" /\ d.tries = c.tries /\ d.stalls = c.stalls
      /\ d.at = i + 1 /\ d.step = "next" /\ d.delivered = c.delivered /\ Starts(d) = Starts(c)
    <2>1. i + 1 \in 1..(Len(Plan) + 1)
        BY <1>2, PlanIs
    <2> QED
        BY <1>2, <2>1 DEF Places, Starts
<1>5. /\ s \in Rows /\ r.sent <= s.sent /\ s.sent <= r.sent + 1 /\ s.failed <= r.failed + 1
      /\ s.skipped <= r.skipped + 1 /\ s.sent + s.failed + s.skipped >= 1
      /\ status # "sent" => s.sent = r.sent
    <2> HIDE DEF r
    <2> QED
        BY <1>2, OneMoreRow
<1>6. (Upto(c) = i \/ Upto(c) = i + 1) /\ Upto(d) = i + 1
    BY <1>4 DEF Upto
<1>7. Counted(d, i, x, s)
    <2>1. /\ x <= Starts(c) /\ AtMost(r, Starts(c) - 1) /\ r.sent <= x
          /\ status = "sent" => r.sent < x
        BY <1>2, <1>3 DEF Counted
    <2>2. AtMost(s, Starts(c)) /\ s.sent <= x
        <3>1. /\ r.sent \in Nat /\ r.failed \in Nat /\ r.skipped \in Nat
              /\ s.sent \in Nat /\ s.failed \in Nat /\ s.skipped \in Nat
            BY <1>2, <1>5 DEF Rows
        <3> HIDE DEF s, r, c, x
        <3>2. AtMost(s, Starts(c))
            <4>1. /\ Starts(c) \in Nat /\ r.sent <= Starts(c) - 1
                  /\ r.failed <= Starts(c) - 1 /\ r.skipped <= Starts(c) - 1
                BY <1>2, <2>1 DEF AtMost
            <4>2. s.sent <= Starts(c) /\ s.failed <= Starts(c) /\ s.skipped <= Starts(c)
                BY <1>5, <3>1, <4>1
            <4> QED
                BY <4>2 DEF AtMost
        <3>3. s.sent <= x
            BY <1>2, <1>5, <2>1, <3>1
        <3> QED
            BY <3>2, <3>3
    <2>3. i < d.at /\ ~(i > d.at) /\ i # d.at
        BY <1>2, <1>4
    <2> QED
        BY <1>3, <1>4, <1>5, <2>1, <2>2, <2>3 DEF Counted
<1>8. Fits(d)
    <2>1. c.delivered < i + 1
        BY <1>2, <1>6 DEF Good, Fits
    <2> QED
        BY <1>2, <1>4, <1>6, <2>1 DEF Good, Fits
<1>9. Upto(d) >= Upto(c) /\ x = received[j][i]
    BY <1>2, <1>6
<1> HIDE DEF d, s, x, r
<1> QED
    BY <1>1, <1>2, <1>4, <1>5, <1>7, <1>8, <1>9, LoopStep

LEMMA RecordSentOK == ASSUME FanoutInv, NEW j \in Jobs, RecordSent(j) PROVE FanoutInv'
<1>1. Plan[job[j].at] \in External
    BY DEF FanoutInv, Good, Fits, RecordSent, At
<1> QED
    BY <1>1, RecordedOK DEF RecordSent, At

LEMMA RecordFailedOK == ASSUME FanoutInv, NEW j \in Jobs, RecordFailed(j) PROVE FanoutInv'
<1>1. Plan[job[j].at] \in External
    BY DEF FanoutInv, Good, Fits, RecordFailed, At
<1> QED
    BY <1>1, RecordedOK DEF RecordFailed, At

LEMMA RecordSkippedOK == ASSUME FanoutInv, NEW j \in Jobs, RecordSkipped(j) PROVE FanoutInv'
BY RecordedOK DEF RecordSkipped, At, Channel

-----------------------------------------------------------------------------
LEMMA FanoutStep == FanoutInv /\ [Next]_vars => FanoutInv'
<1> SUFFICES ASSUME FanoutInv, [Next]_vars PROVE FanoutInv'
    OBVIOUS
<1>1. CASE UNCHANGED vars
    BY <1>1 DEF vars, FanoutInv, Typed, Good
<1>2. CASE Next
    <2> PICK j \in Jobs : EnqueueNotification(j) \/ Work(j) \/ WorkerDies(j)
        BY <1>2 DEF Next
    <2>1. CASE EnqueueNotification(j)
        BY <2>1, EnqueueNotificationOK
    <2>2. CASE Start(j)
        BY <2>2, StartOK
    <2>3. CASE InAppForOwner(j)
        BY <2>3, InAppForOwnerOK
    <2>4. CASE InAppForContact(j)
        BY <2>4, InAppForContactOK
    <2>5. CASE SendAccepted(j)
        BY <2>5, SendAcceptedOK
    <2>6. CASE SendRefused(j) \/ RecordSentFails(j)
        BY <2>6, CaughtOK
    <2>7. CASE AnswerLost(j)
        BY <2>7, AnswerLostOK
    <2>8. CASE RecordSent(j)
        BY <2>8, RecordSentOK
    <2>9. CASE RecordFailed(j)
        BY <2>9, RecordFailedOK
    <2>10. CASE RecordSkipped(j)
        BY <2>10, RecordSkippedOK
    <2>11. CASE Complete(j)
        BY <2>11, CompleteOK
    <2>12. CASE Throw(j)
        BY <2>12, ThrowOK
    <2>13. CASE WorkerDies(j)
        BY <2>13, WorkerDiesOK
    <2> QED
        BY <2>1, <2>2, <2>3, <2>4, <2>5, <2>6, <2>7, <2>8, <2>9, <2>10, <2>11, <2>12, <2>13
        DEF Work
<1> QED
    BY <1>1, <1>2

(* The fan-out stays in the invariant.                                     *)
LEMMA FanoutInductive == Spec => []FanoutInv
BY FanoutInitially, FanoutStep, PTL DEF Spec

-----------------------------------------------------------------------------
LEMMA StartsAreBounded ==
    ASSUME FanoutInv, NEW j \in Jobs
    PROVE  /\ job[j] \in Places /\ job[j].tries \in 0..Attempts /\ Starts(job[j]) \in Nat
           /\ Starts(job[j]) <= Attempts + MaxStalled
<1>1. job[j] \in Places /\ Fits(job[j])
    BY DEF FanoutInv, Typed, Good
<1>2. job[j].tries \in Nat /\ job[j].tries <= Attempts /\ job[j].stalls \in 0..MaxStalled
    BY <1>1 DEF Places, Fits
<1> QED
    BY <1>1, <1>2, AttemptsAssumption DEF Starts

(* Nobody is reached and nothing is recorded more often than BullMQ may    *)
(* start the job: its attempts, and once more for each stall.              *)
THEOREM FanoutTypeCorrect == Spec => []TypeOK
<1>1. ASSUME FanoutInv PROVE TypeOK
    <2>1. job \in [Jobs -> [state : {"none", "waiting", "active", "completed", "failed"},
                            tries : Tries, stalls : 0..MaxStalled, at : 1..(Len(Plan) + 1),
                            step : {"next", "ownerTold", "accepted", "caught"},
                            delivered : 0..Len(Plan)]]
        BY <1>1, StartsAreBounded DEF FanoutInv, Typed, Places, Tries
    <2>2. ASSUME NEW j \in Jobs, NEW i \in Deliveries
          PROVE  /\ received[j][i] \in Counts
                 /\ records[j][i] \in [sent : Counts, failed : Counts, skipped : Counts]
        <3>1. /\ Starts(job[j]) \in Nat /\ Starts(job[j]) <= Attempts + MaxStalled
              /\ received[j][i] \in Nat /\ records[j][i] \in Rows
              /\ received[j][i] <= Starts(job[j]) /\ AtMost(records[j][i], Starts(job[j]))
            BY <1>1, StartsAreBounded DEF FanoutInv, Typed, Good, Counted
        <3>2. Attempts + MaxStalled \in Nat
            BY AttemptsAssumption
        <3>3. \A n \in Nat : n <= Starts(job[j]) => n \in Counts
            BY <3>1, <3>2 DEF Counts
        <3> QED
            BY <3>1, <3>3 DEF AtMost, Rows
    <2>3. received \in [Jobs -> [Deliveries -> Counts]]
        BY <1>1, <2>2 DEF FanoutInv, Typed
    <2>4. records \in [Jobs -> [Deliveries -> [sent : Counts, failed : Counts, skipped : Counts]]]
        BY <1>1, <2>2 DEF FanoutInv, Typed
    <2> QED
        BY <1>1, <2>1, <2>3, <2>4 DEF TypeOK, FanoutInv, Typed
<1> QED
    BY <1>1, FanoutInductive, PTL

(* No attempt of processAlertContactNotifications reaches a contact twice. *)
THEOREM OncePerAttempt == Spec => []ReachedOncePerAttempt
<1>1. ASSUME FanoutInv, NEW j \in Jobs, NEW i \in Deliveries
      PROVE  /\ received[j][i] <= job[j].tries + job[j].stalls
             /\ job[j].state = "active" /\ job[j].at < i
                    => received[j][i] < job[j].tries + job[j].stalls
    <2>1. Counted(job[j], i, received[j][i], records[j][i]) /\ job[j].at \in Nat /\ i \in Nat
        BY <1>1, PlanIs DEF FanoutInv, Good, Typed, Places, Deliveries
    <2> QED
        BY <2>1 DEF Counted, Starts
<1>2. ASSUME FanoutInv PROVE ReachedOncePerAttempt
    BY <1>1, <1>2 DEF ReachedOncePerAttempt
<1> QED
    BY <1>2, FanoutInductive, PTL

(* A job that completes has an outcome of every delivery on record, and    *)
(* has made every in-app one, whatever its earlier attempts met.           *)
THEOREM CompletedIsComplete == Spec => []NobodyPassedOver
<1>1. ASSUME FanoutInv PROVE NobodyPassedOver
    BY <1>1 DEF NobodyPassedOver, FanoutInv, Good, Counted
<1> QED
    BY <1>1, FanoutInductive, PTL

(* A 'sent' row stands for a message that went out, and the delivered of   *)
(* an audit event for contacts that were reached.                          *)
THEOREM RecordsAreHonest == Spec => []RecordsNeverOverstate
<1>1. ASSUME FanoutInv PROVE SentIsTrue
    <2>1. ASSUME NEW j \in Jobs, NEW i \in Deliveries, Plan[i] \in External
          PROVE  records[j][i].sent <= received[j][i]
        BY <1>1, <2>1, PlanIs DEF FanoutInv, Good, Counted
    <2> QED
        BY <2>1 DEF SentIsTrue
<1>2. ASSUME FanoutInv PROVE AuditNeverOverstates
    <2>1. ASSUME NEW j \in Jobs, NEW n \in audited[j]
          PROVE  n <= Cardinality({i \in Deliveries : received[j][i] > 0})
        <3>1. n <= Cardinality(Reached(received[j], Len(Plan) + 1))
            BY <1>2 DEF FanoutInv, Good, Honest
        <3>2. Reached(received[j], Len(Plan) + 1) = {i \in Deliveries : received[j][i] > 0}
            BY PlanIs DEF Reached, Deliveries
        <3> QED
            BY <3>1, <3>2
    <2> QED
        BY <2>1 DEF AuditNeverOverstates
<1>3. FanoutInv => RecordsNeverOverstate
    BY <1>1, <1>2 DEF RecordsNeverOverstate
<1> QED
    BY <1>3, FanoutInductive, PTL

(* Whatever is done in MCProgress is a step of the fan-out or leaves it    *)
(* alone.                                                                  *)
LEMMA FanoutShown == ProgressSpec => Spec
<1>1. ProgressInit => Init BY DEF ProgressInit
<1>2. [ProgressNext]_<< part, vars, locationVars, broadcastVars >> => [Next]_vars
    BY DEF ProgressNext, FanoutNext, LocationNext, BroadcastNext
<1> QED BY <1>1, <1>2, PTL DEF ProgressSpec, Spec

-----------------------------------------------------------------------------
(* An organization's broadcasts: Broadcasts.                               *)
(*                                                                         *)
(* That no two alerts have the same key rests on the calls under way: the  *)
(* key of one that has inserted its row is not another's (KeysApart).      *)

(* The types of Broadcast!TypeOK, but for the pool.                        *)
BroadcastTypes ==
    /\ at \in [Calls -> Broadcast!Stages] /\ key \in [Calls -> Keys]
    /\ alerts \subseteq Calls /\ broadcastAudited \subseteq Calls
    /\ deliveries \subseteq [call : Calls, to : Members]
    /\ failures \in 0..MaxFailures

(* The calls that hold a connection, and those that hold another one.      *)
Connected == {c \in Calls : at[c] \in {"connected", "inserted", "auditing", "audited"}}
Auditing == {c \in Calls : at[c] = "auditing"}
PoolServes == Cardinality(Connected) + Cardinality(Auditing) <= PoolSize

(* A key is one open transaction's or one alert's.                         *)
KeysApart ==
    /\ \A c, d \in Calls :
          Broadcast!Writing(c) /\ Broadcast!Writing(d) /\ key[c] = key[d] => c = d
    /\ \A c \in alerts, d \in Calls : Broadcast!Writing(d) => key[c] # key[d]

(* What has been written of each broadcast when it is audited and when it  *)
(* is committed.                                                           *)
Written ==
    /\ \A c \in Calls : at[c] = "audited" => c \in broadcastAudited
    /\ Broadcast!BroadcastIsWhole

BroadcastInv == BroadcastTypes /\ PoolServes /\ KeysApart /\ Written

LEMMA BroadcastUses ==
    ASSUME BroadcastTypes
    PROVE  /\ Broadcast!Used = Cardinality(Connected) + Cardinality(Auditing)
           /\ IsFiniteSet(Connected) /\ IsFiniteSet(Auditing)
           /\ Cardinality(Connected) \in Nat /\ Cardinality(Auditing) \in Nat
<1>1. {c \in Calls : Broadcast!Holding(c) >= 1} = Connected
    BY DEF Broadcast!Holding, Connected
<1>2. {c \in Calls : Broadcast!Holding(c) >= 2} = Auditing
    BY DEF Broadcast!Holding, Auditing
<1>3. IsFiniteSet(Connected) /\ IsFiniteSet(Auditing)
    BY FS_Subset, BroadcastAssumption DEF Connected, Auditing
<1>4. Cardinality(Connected) \in Nat /\ Cardinality(Auditing) \in Nat
    BY <1>3, FS_CardinalityType
<1>5. Broadcast!Used = Cardinality({c \in Calls : Broadcast!Holding(c) >= 1})
                       + Cardinality({c \in Calls : Broadcast!Holding(c) >= 2})
    BY DEF Broadcast!Used, Broadcast!Cardinality, Cardinality
<1> QED BY <1>1, <1>2, <1>3, <1>4, <1>5

LEMMA BroadcastInitially == Broadcast!Init => BroadcastInv
<1> SUFFICES ASSUME Broadcast!Init PROVE BroadcastInv OBVIOUS
<1> USE BroadcastAssumption DEF Broadcast!Init
<1>1. BroadcastTypes BY DEF BroadcastTypes, Broadcast!Stages
<1>2. PoolServes
    <2>1. Connected = {} /\ Auditing = {} BY DEF Connected, Auditing
    <2>2. Cardinality({}) = 0 BY FS_EmptySet
    <2> QED BY <2>1, <2>2 DEF PoolServes
<1>3. KeysApart BY DEF KeysApart, Broadcast!Writing
<1>4. Written BY DEF Written, Broadcast!BroadcastIsWhole
<1> QED BY <1>1, <1>2, <1>3, <1>4 DEF BroadcastInv

(* A connection is taken where there is one, or given back.                *)
LEMMA PoolServesStill ==
    ASSUME BroadcastInv, NEW c \in Calls, NEW stage, Broadcast!Goto(c, stage),
           \/ /\ c \notin Connected /\ stage = "connected" /\ Broadcast!Available
           \/ /\ at[c] = "inserted" /\ stage = "auditing" /\ Broadcast!Available
           \/ /\ at[c] \in {"connected", "auditing"} /\ stage \in {"inserted", "audited"}
           \/ stage \notin {"connected", "inserted", "auditing", "audited"}
    PROVE  PoolServes'
<1> USE DEF BroadcastInv
<1>1. at'[c] = stage /\ \A d \in Calls \ {c} : at'[d] = at[d]
    BY DEF Broadcast!Goto, BroadcastTypes
<1>2. /\ Broadcast!Used = Cardinality(Connected) + Cardinality(Auditing)
      /\ IsFiniteSet(Connected) /\ IsFiniteSet(Auditing)
      /\ Cardinality(Connected) \in Nat /\ Cardinality(Auditing) \in Nat
    BY BroadcastUses
<1>3. CASE c \notin Connected /\ stage = "connected" /\ Broadcast!Available
    <2>1. Connected' = Connected \cup {c} BY <1>1, <1>3 DEF Connected
    <2>2. Auditing' = Auditing BY <1>1, <1>3 DEF Auditing, Connected
    <2>3. Cardinality(Connected') = Cardinality(Connected) + 1
        BY <1>2, <1>3, <2>1, FS_AddElement
    <2>4. Cardinality(Connected) + Cardinality(Auditing) < PoolSize
        BY <1>2, <1>3 DEF Broadcast!Available
    <2> QED BY <1>2, <2>2, <2>3, <2>4, BroadcastAssumption DEF PoolServes
<1>4. CASE at[c] = "inserted" /\ stage = "auditing" /\ Broadcast!Available
    <2>1. Connected' = Connected BY <1>1, <1>4 DEF Connected
    <2>2. Auditing' = Auditing \cup {c} /\ c \notin Auditing BY <1>1, <1>4 DEF Auditing
    <2>3. Cardinality(Auditing') = Cardinality(Auditing) + 1
        BY <1>2, <2>2, FS_AddElement
    <2>4. Cardinality(Connected) + Cardinality(Auditing) < PoolSize
        BY <1>2, <1>4 DEF Broadcast!Available
    <2> QED BY <1>2, <2>1, <2>3, <2>4, BroadcastAssumption DEF PoolServes
<1>5. CASE Connected' \subseteq Connected /\ Auditing' \subseteq Auditing
    <2>1. /\ Cardinality(Connected') <= Cardinality(Connected)
          /\ Cardinality(Auditing') <= Cardinality(Auditing)
          /\ IsFiniteSet(Connected') /\ IsFiniteSet(Auditing')
        BY <1>2, <1>5, FS_Subset
    <2>2. Cardinality(Connected') \in Nat /\ Cardinality(Auditing') \in Nat
        BY <2>1, FS_CardinalityType
    <2>3. Cardinality(Connected) + Cardinality(Auditing) <= PoolSize BY DEF PoolServes
    <2> QED BY <1>2, <2>1, <2>2, <2>3, BroadcastAssumption DEF PoolServes
<1>6. CASE at[c] \in {"connected", "auditing"} /\ stage \in {"inserted", "audited"}
    BY <1>1, <1>5, <1>6 DEF Connected, Auditing
<1>7. CASE stage \notin {"connected", "inserted", "auditing", "audited"}
    BY <1>1, <1>5, <1>7 DEF Connected, Auditing
<1> QED BY <1>3, <1>4, <1>6, <1>7

(* A step that neither begins to write nor commits.                        *)
LEMMA BroadcastAlertsAlone ==
    ASSUME BroadcastInv, BroadcastTypes', PoolServes', NEW c \in Calls, NEW stage,
           Broadcast!Goto(c, stage), UNCHANGED << key, alerts, deliveries >>,
           stage = "audited" => c \in broadcastAudited',
           broadcastAudited \subseteq broadcastAudited',
           stage \in {"inserted", "auditing", "audited"} => Broadcast!Writing(c)
    PROVE  BroadcastInv'
<1> USE DEF BroadcastInv
<1>1. at'[c] = stage /\ \A d \in Calls \ {c} : at'[d] = at[d]
    BY DEF Broadcast!Goto, BroadcastTypes
<1>2. \A d \in Calls : Broadcast!Writing(d)' => Broadcast!Writing(d)
    BY <1>1 DEF Broadcast!Writing
<1>3. KeysApart' BY <1>2 DEF KeysApart
<1>4. \A d \in Calls : at'[d] = "audited" => d \in broadcastAudited'
    BY <1>1 DEF Written
<1>5. Broadcast!BroadcastIsWhole' BY DEF Written, Broadcast!BroadcastIsWhole
<1> QED BY <1>3, <1>4, <1>5 DEF Written

LEMMA BroadcastStep ==
    ASSUME BroadcastInv, Broadcast!Next PROVE BroadcastInv'
<1> USE DEF BroadcastInv
<1>1. ASSUME NEW c \in Calls, NEW stage \in Broadcast!Stages, Broadcast!Goto(c, stage)
      PROVE  /\ at' \in [Calls -> Broadcast!Stages]
             /\ at'[c] = stage /\ \A d \in Calls \ {c} : at'[d] = at[d]
    BY <1>1 DEF Broadcast!Goto, BroadcastTypes
<1>2. {"idle", "called", "connected", "inserted", "auditing", "audited", "sent", "failed"}
        = Broadcast!Stages
    BY DEF Broadcast!Stages
<1>3. ASSUME NEW c \in Calls, Broadcast!RequireMembership(c) PROVE BroadcastInv'
    <2> USE <1>3 DEF Broadcast!RequireMembership
    <2>1. BroadcastTypes' BY <1>1, <1>2 DEF BroadcastTypes
    <2>2. PoolServes' BY PoolServesStill
    <2> QED BY <2>1, <2>2, BroadcastAlertsAlone
<1>4. ASSUME NEW c \in Calls, Broadcast!Connect(c) PROVE BroadcastInv'
    <2> USE <1>4 DEF Broadcast!Connect
    <2>1. BroadcastTypes' BY <1>1, <1>2 DEF BroadcastTypes
    <2>2. PoolServes' BY PoolServesStill DEF Connected
    <2> QED BY <2>1, <2>2, BroadcastAlertsAlone
<1>5. ASSUME NEW c \in Calls, Broadcast!AuditConnect(c) PROVE BroadcastInv'
    <2> USE <1>5 DEF Broadcast!AuditConnect
    <2>1. BroadcastTypes' BY <1>1, <1>2 DEF BroadcastTypes
    <2>2. PoolServes' BY PoolServesStill
    <2>3. Broadcast!Writing(c) BY DEF Broadcast!Writing
    <2> QED BY <2>1, <2>2, <2>3, BroadcastAlertsAlone
<1>6. ASSUME NEW c \in Calls, Broadcast!RecordAudit(c) PROVE BroadcastInv'
    <2> USE <1>6 DEF Broadcast!RecordAudit
    <2>1. BroadcastTypes' BY <1>1, <1>2 DEF BroadcastTypes
    <2>2. PoolServes' BY PoolServesStill
    <2>3. Broadcast!Writing(c) BY DEF Broadcast!Writing
    <2> QED BY <2>1, <2>2, <2>3, BroadcastAlertsAlone
<1>7. ASSUME NEW c \in Calls, Broadcast!Fail(c) PROVE BroadcastInv'
    <2> USE <1>7 DEF Broadcast!Fail
    <2>1. failures' \in 0..MaxFailures BY BroadcastAssumption DEF BroadcastTypes
    <2>2. BroadcastTypes' BY <1>1, <1>2, <2>1 DEF BroadcastTypes
    <2>3. PoolServes' BY PoolServesStill
    <2> QED BY <2>2, <2>3, BroadcastAlertsAlone
<1>8. ASSUME NEW c \in Calls, Broadcast!Insert(c) PROVE BroadcastInv'
    <2> DEFINE stage == IF Broadcast!KeyTaken(key[c]) THEN "failed" ELSE "inserted"
    <2>1. /\ Broadcast!Goto(c, stage) /\ at[c] = "connected"
          /\ UNCHANGED << key, alerts, deliveries, broadcastAudited, failures >>
        BY <1>8 DEF Broadcast!Insert
    <2>2. \A d \in Calls : Broadcast!Writing(d) => key[d] # key[c]
        BY <1>8 DEF Broadcast!Insert, Broadcast!KeyHeld
    <2>3. stage = "failed" \/ (stage = "inserted" /\ \A d \in alerts : key[d] # key[c])
        BY DEF Broadcast!KeyTaken
    <2> HIDE DEF stage
    <2>4. BroadcastTypes' BY <1>1, <1>2, <2>1, <2>3 DEF BroadcastTypes
    <2>5. PoolServes' BY <2>1, <2>3, PoolServesStill
    <2>6. at'[c] = stage /\ \A d \in Calls \ {c} : at'[d] = at[d]
        BY <1>1, <1>2, <2>1, <2>3
    <2>7. KeysApart' BY <2>1, <2>2, <2>3, <2>6 DEF KeysApart, Broadcast!Writing
    <2>8. \A d \in Calls : at'[d] = "audited" => d \in broadcastAudited'
        BY <2>1, <2>3, <2>6 DEF Written
    <2>9. Broadcast!BroadcastIsWhole' BY <2>1 DEF Written, Broadcast!BroadcastIsWhole
    <2> QED BY <2>4, <2>5, <2>7, <2>8, <2>9 DEF Written
<1>9. ASSUME NEW c \in Calls, Broadcast!Commit(c) PROVE BroadcastInv'
    <2> DEFINE new == {[call |-> c, to |-> m] : m \in Members}
    <2>1. /\ Broadcast!Goto(c, "sent") /\ at[c] = "audited"
          /\ alerts' = alerts \cup {c} /\ deliveries' = deliveries \cup new
          /\ UNCHANGED << key, broadcastAudited, failures >>
        BY <1>9 DEF Broadcast!Commit
    <2>2. new \subseteq [call : Calls, to : Members] /\ \A d \in new : d.call = c
        OBVIOUS
    <2>3. \A m \in Members : [call |-> c, to |-> m] \in new OBVIOUS
    <2> HIDE DEF new
    <2>4. BroadcastTypes' BY <1>1, <1>2, <2>1, <2>2 DEF BroadcastTypes
    <2>5. PoolServes' BY <2>1, PoolServesStill
    <2>6. at'[c] = "sent" /\ \A d \in Calls \ {c} : at'[d] = at[d]
        BY <1>1, <1>2, <2>1
    <2>7. KeysApart' BY <2>1, <2>6 DEF KeysApart, Broadcast!Writing
    <2>8. \A d \in Calls : at'[d] = "audited" => d \in broadcastAudited'
        BY <2>1, <2>6 DEF Written
    <2>9. \A d, e \in alerts' : key[d] = key[e] => d = e
        <3>1. Broadcast!Writing(c) BY <2>1 DEF Broadcast!Writing
        <3> QED BY <2>1, <3>1 DEF KeysApart, Written, Broadcast!BroadcastIsWhole
    <2>10. \A d \in alerts' : d \in broadcastAudited
                /\ \A m \in Members : [call |-> d, to |-> m] \in deliveries'
        BY <2>1, <2>3 DEF Written, Broadcast!BroadcastIsWhole
    <2>11. \A d \in deliveries' : d.call \in alerts'
        BY <2>1, <2>2 DEF Written, Broadcast!BroadcastIsWhole
    <2>12. Broadcast!BroadcastIsWhole'
        BY <2>1, <2>9, <2>10, <2>11 DEF Broadcast!BroadcastIsWhole
    <2> QED BY <2>4, <2>5, <2>7, <2>8, <2>12 DEF Written
<1> QED
    BY <1>3, <1>4, <1>5, <1>6, <1>7, <1>8, <1>9 DEF Broadcast!Next, Broadcast!Proceed

LEMMA BroadcastStutters == BroadcastInv /\ UNCHANGED broadcastVars => BroadcastInv'
<1> SUFFICES ASSUME BroadcastInv, UNCHANGED broadcastVars PROVE BroadcastInv' OBVIOUS
<1> USE DEF broadcastVars
<1>1. BroadcastTypes' BY DEF BroadcastInv, BroadcastTypes
<1>2. Connected' = Connected /\ Auditing' = Auditing BY DEF Connected, Auditing
<1>3. PoolServes' BY <1>2 DEF BroadcastInv, PoolServes
<1>4. KeysApart' BY DEF BroadcastInv, KeysApart, Broadcast!Writing
<1>5. Written' BY DEF BroadcastInv, Written, Broadcast!BroadcastIsWhole
<1> QED BY <1>1, <1>3, <1>4, <1>5 DEF BroadcastInv

(* Broadcasts stay in the invariant, and so does the pool's bound.         *)
LEMMA BroadcastInductive == ProgressSpec => []BroadcastInv
<1>1. ProgressInit => BroadcastInv BY BroadcastInitially DEF ProgressInit
<1>2. BroadcastInv /\ [ProgressNext]_<< part, vars, locationVars, broadcastVars >> => BroadcastInv'
    <2> SUFFICES ASSUME BroadcastInv, [ProgressNext]_<< part, vars, locationVars, broadcastVars >>
                 PROVE  BroadcastInv'
        OBVIOUS
    <2>1. Broadcast!Next \/ UNCHANGED broadcastVars
        BY DEF ProgressNext, FanoutNext, LocationNext, BroadcastNext
    <2> QED BY <2>1, BroadcastStep, BroadcastStutters
<1> QED BY <1>1, <1>2, PTL DEF ProgressSpec

LEMMA BroadcastTyped == BroadcastInv => Broadcast!TypeOK
BY BroadcastUses DEF BroadcastInv, BroadcastTypes, PoolServes, Broadcast!TypeOK

-----------------------------------------------------------------------------
(* The upload of an alert's locations: LocationQueue.                      *)
(*                                                                         *)
(* That nothing is forgotten is not inductive: a batch may be dropped, or  *)
(* taken out of the queue, and what it holds must then be in a later upload. *)
(* QueueOrder says that of the batches of the session: each covers all that *)
(* the earlier ones hold, or is full of what was taken since, so that each *)
(* fix it lacks is displaced.  The flattening of the batches then lists each *)
(* fix first behind all the older ones (Firsts), so that compacting it gives *)
(* the order in which they were taken.                                     *)

(* Sequences of fixes: in the order they were taken (Ascends), or so that  *)
(* each is where it first occurs after all it should follow (Firsts).      *)
Ascends(s) == \A i, k \in 1..Len(s) : i < k => s[i] < s[k]
Fresh(s, k) == \A i \in 1..(k - 1) : s[i] # s[k]
Firsts(s) == \A k \in 1..Len(s) : Fresh(s, k) => \A i \in 1..(k - 1) : s[i] < s[k]

(* What b has and a has not was taken after all of a; what a has and b has *)
(* not was dropped from b, which is full, and was taken before all of it.  *)
Newer(a, b) == \A v \in Elements(b) : v \in Elements(a) \/ \A x \in Elements(a) : x < v
Below(v, b) == \A x \in Elements(b) : v < x
Cap == 4 * MaxBuffer
Covered(v, b) == v \in Elements(b) \/ (Len(b) = Cap /\ Below(v, b))
Drops(a, b) == \A v \in Elements(a) : Covered(v, b)
Follows(a, b) == Newer(a, b) /\ Drops(a, b)

(* slice(-n) leaves the latest of what ascends.                            *)
LEMMA LastOfAscends ==
    ASSUME NEW s \in Seq(Nat), Ascends(s), NEW n \in Nat \ {0}
    PROVE  /\ Ascends(LastOf(s, n))
           /\ \A v \in Elements(s) :
                 \/ v \in Elements(LastOf(s, n))
                 \/ Len(LastOf(s, n)) = n /\ Below(v, LastOf(s, n))
<1> DEFINE l == LastOf(s, n)
<1>1. l \in Seq(Nat) /\ \E d \in Nat :
        /\ d + Len(l) = Len(s) /\ (d # 0 => Len(l) = n) /\ \A i \in 1..Len(l) : l[i] = s[d + i]
    BY LastOfProperties
<1> HIDE DEF l
<1>2. PICK d \in Nat :
        /\ d + Len(l) = Len(s) /\ (d # 0 => Len(l) = n) /\ \A i \in 1..Len(l) : l[i] = s[d + i]
    BY <1>1
<1>3. Len(l) \in Nat /\ Len(s) \in Nat BY <1>1, LenProperties
<1>4. \A i \in 1..Len(l) : d + i \in 1..Len(s) BY <1>2, <1>3
<1>5. \A i, k \in 1..Len(l) : i < k => l[i] < l[k]
    <2> SUFFICES ASSUME NEW i \in 1..Len(l), NEW k \in 1..Len(l), i < k PROVE l[i] < l[k]
        OBVIOUS
    <2>1. d + i \in 1..Len(s) /\ d + k \in 1..Len(s) /\ d + i < d + k BY <1>3, <1>4
    <2>2. s[d + i] < s[d + k] BY <2>1 DEF Ascends
    <2> QED BY <1>2, <2>2
<1>6. ASSUME NEW v \in Elements(s), v \notin Elements(l) PROVE Len(l) = n /\ Below(v, l)
    <2>1. PICK j \in 1..Len(s) : v = s[j] BY DEF Elements
    <2>2. ~(d < j)
        <3> SUFFICES ASSUME d < j PROVE FALSE OBVIOUS
        <3>1. j - d \in 1..Len(l) /\ d + (j - d) = j BY <1>2, <1>3
        <3>2. l[j - d] = v BY <1>2, <2>1, <3>1
        <3> QED BY <1>6, <3>1, <3>2 DEF Elements
    <2>3. d # 0 BY <2>2, <1>3
    <2>4. ASSUME NEW i \in 1..Len(l) PROVE v < l[i]
        <3>1. j < d + i /\ d + i \in 1..Len(s) BY <1>3, <1>4, <2>2
        <3>2. s[j] < s[d + i] BY <3>1 DEF Ascends
        <3> QED BY <1>2, <2>1, <3>2
    <2> QED BY <1>2, <2>3, <2>4 DEF Below, Elements
<1>7. Ascends(l) BY <1>5 DEF Ascends
<1> QED BY <1>6, <1>7 DEF l

(* A full queue of later fixes: that many have been taken since.           *)
LEMMA Crowded ==
    ASSUME NEW b \in Seq(Nat), Ascends(b), NEW v \in Nat, NEW m \in Nat, v <= m,
           Below(v, b), \A x \in Elements(b) : x <= m
    PROVE  v + Len(b) <= m
<1>1. Len(b) \in Nat /\ b \in [1..Len(b) -> Nat] BY LenProperties
<1>2. CASE Len(b) = 0 BY <1>2
<1>3. CASE Len(b) # 0
    <2>1. 1 \in 1..Len(b) /\ Len(b) \in 1..Len(b) /\ 1 <= Len(b) BY <1>1, <1>3
    <2>2. \A i, k \in 1..Len(b) : i < k => b[i] < b[k] BY DEF Ascends
    <2>3. b[1] + (Len(b) - 1) <= b[Len(b)] BY <1>1, <2>1, <2>2, GrowsByOne
    <2>4. v < b[1] /\ b[Len(b)] <= m BY <2>1 DEF Below, Elements
    <2>5. b[1] \in Nat /\ b[Len(b)] \in Nat BY <1>1, <2>1
    <2> QED BY <1>1, <2>3, <2>4, <2>5
<1> QED BY <1>2, <1>3

(* What has all of a and something older is longer than a.                 *)
LEMMA OlderIsMore ==
    ASSUME NEW a \in Seq(Nat), NEW b \in Seq(Nat), Ascends(a), Ascends(b),
           Elements(a) \subseteq Elements(b), NEW v \in Elements(b), Below(v, a)
    PROVE  Len(a) + 1 <= Len(b)
<1>1. Len(a) \in Nat /\ Len(b) \in Nat /\ a \in [1..Len(a) -> Nat] /\ b \in [1..Len(b) -> Nat]
    BY LenProperties
<1>2. PICK j \in 1..Len(b) : b[j] = v BY DEF Elements
<1>3. CASE Len(a) = 0 BY <1>1, <1>2, <1>3
<1>4. CASE Len(a) # 0
    <2> DEFINE pos == [i \in 1..Len(a) |-> CHOOSE k \in 1..Len(b) : b[k] = a[i]]
    <2>1. ASSUME NEW i \in 1..Len(a) PROVE pos[i] \in 1..Len(b) /\ b[pos[i]] = a[i]
        <3>1. \E k \in 1..Len(b) : b[k] = a[i] BY DEF Elements
        <3> QED BY <3>1
    <2>2. \A i \in 1..Len(a) : pos[i] \in Nat BY <1>1, <2>1
    <2>3. pos \in [1..Len(a) -> Nat] BY <2>2
    <2> HIDE DEF pos
    <2>4. \A i, k \in 1..Len(b) : b[i] < b[k] => i < k
        <3> SUFFICES ASSUME NEW i \in 1..Len(b), NEW k \in 1..Len(b), b[i] < b[k], ~(i < k)
                     PROVE  FALSE
            OBVIOUS
        <3>1. i = k \/ k < i BY <1>1
        <3>2. b[i] \in Nat /\ b[k] \in Nat BY <1>1
        <3>3. k < i => b[k] < b[i] BY DEF Ascends
        <3> QED BY <3>1, <3>2, <3>3
    <2>5. \A i, k \in 1..Len(a) : i < k => pos[i] < pos[k] BY <2>1, <2>4 DEF Ascends
    <2>6. 1 \in 1..Len(a) /\ Len(a) \in 1..Len(a) /\ 1 <= Len(a) BY <1>1, <1>4
    <2>7. pos[1] + (Len(a) - 1) <= pos[Len(a)] BY <1>1, <2>3, <2>5, <2>6, GrowsByOne
    <2>8. v < a[1] BY <2>6 DEF Below, Elements
    <2>9. j < pos[1] BY <1>2, <2>1, <2>4, <2>6, <2>8
    <2>10. pos[Len(a)] \in 1..Len(b) /\ pos[1] \in 1..Len(b) BY <2>1, <2>6
    <2> QED BY <1>1, <2>7, <2>9, <2>10
<1> QED BY <1>3, <1>4

(* What comes after and is newer is first where it should be.              *)
LEMMA FirstsJoined ==
    ASSUME NEW a \in Seq(Nat), NEW b \in Seq(Nat), Firsts(a), Ascends(b), Newer(a, b)
    PROVE  Firsts(a \o b)
<1> DEFINE s == a \o b
<1>1. /\ Len(s) = Len(a) + Len(b)
      /\ \A i \in 1..Len(s) :
                 \/ i \in 1..Len(a) /\ s[i] = a[i]
                 \/ i - Len(a) \in 1..Len(b) /\ s[i] = b[i - Len(a)] /\ Len(a) < i
      /\ \A i \in 1..Len(a) : i \in 1..Len(s) /\ s[i] = a[i]
    BY JoinedElements
<1>2. Len(a) \in Nat /\ Len(b) \in Nat BY LenProperties
<1> HIDE DEF s
<1>3. ASSUME NEW k \in 1..Len(s), Fresh(s, k), NEW i \in 1..(k - 1) PROVE s[i] < s[k]
    <2>1. i \in 1..Len(s) /\ i < k BY <1>1, <1>2
    <2>2. CASE k \in 1..Len(a)
        <3>1. i \in 1..Len(a) /\ s[i] = a[i] /\ s[k] = a[k] BY <1>1, <1>2, <2>1, <2>2
        <3>2. \A x \in 1..(k - 1) : s[x] = a[x] BY <1>1, <1>2, <2>2
        <3>3. Fresh(a, k) BY <1>3, <3>1, <3>2 DEF Fresh
        <3> QED BY <2>2, <3>1, <3>3 DEF Firsts
    <2>3. CASE k \notin 1..Len(a)
        <3>1. k - Len(a) \in 1..Len(b) /\ s[k] = b[k - Len(a)] /\ Len(a) < k BY <1>1, <2>3
        <3>2. CASE i \in 1..Len(a)
            <4>1. \A x \in 1..Len(a) : x \in 1..(k - 1) /\ s[x] = a[x] BY <1>1, <1>2, <3>1
            <4>2. s[k] \notin Elements(a) BY <1>3, <4>1 DEF Fresh, Elements
            <4>3. s[k] \in Elements(b) BY <3>1 DEF Elements
            <4>4. a[i] \in Elements(a) BY <3>2 DEF Elements
            <4>5. a[i] < s[k] BY <4>2, <4>3, <4>4 DEF Newer
            <4> QED BY <4>1, <4>5, <3>2
        <3>3. CASE i \notin 1..Len(a)
            <4>1. i - Len(a) \in 1..Len(b) /\ s[i] = b[i - Len(a)] BY <1>1, <2>1, <3>3
            <4>2. i - Len(a) < k - Len(a) BY <1>2, <2>1
            <4> QED BY <3>1, <4>1, <4>2 DEF Ascends
        <3> QED BY <3>2, <3>3
    <2> QED BY <2>2, <2>3
<1>4. Firsts(s) BY <1>3 DEF Firsts
<1> QED BY <1>4 DEF s

LEMMA AscendsIsFirsts ==
    ASSUME NEW s \in Seq(Nat), Ascends(s)
    PROVE  Firsts(s)
<1>1. Len(s) \in Nat BY LenProperties
<1>2. \A k \in 1..Len(s) : \A i \in 1..(k - 1) : i \in 1..Len(s) /\ i < k BY <1>1
<1> QED BY <1>2 DEF Ascends, Firsts

(* Older fixes followed by newer ones ascend.                              *)
LEMMA AscendsJoined ==
    ASSUME NEW a \in Seq(Nat), NEW b \in Seq(Nat), Ascends(a), Ascends(b),
           \A x \in Elements(a) : \A y \in Elements(b) : x < y
    PROVE  Ascends(a \o b)
<1> DEFINE s == a \o b
<1>1. /\ Len(s) = Len(a) + Len(b)
      /\ \A i \in 1..Len(s) :
                 \/ i \in 1..Len(a) /\ s[i] = a[i]
                 \/ i - Len(a) \in 1..Len(b) /\ s[i] = b[i - Len(a)] /\ Len(a) < i
    BY JoinedElements
<1>2. Len(a) \in Nat /\ Len(b) \in Nat BY LenProperties
<1> HIDE DEF s
<1>3. ASSUME NEW i \in 1..Len(s), NEW k \in 1..Len(s), i < k PROVE s[i] < s[k]
    <2>1. CASE k \in 1..Len(a)
        <3>1. i \in 1..Len(a) BY <1>2, <1>3, <2>1
        <3>2. s[i] = a[i] /\ s[k] = a[k] BY <1>1, <1>2, <2>1, <3>1
        <3> QED BY <1>3, <2>1, <3>1, <3>2 DEF Ascends
    <2>2. CASE k \notin 1..Len(a) /\ i \in 1..Len(a)
        <3>1. s[k] \in Elements(b) BY <1>1, <2>2 DEF Elements
        <3>2. s[i] = a[i] /\ a[i] \in Elements(a) BY <1>1, <1>2, <2>2 DEF Elements
        <3> QED BY <3>1, <3>2
    <2>3. CASE k \notin 1..Len(a) /\ i \notin 1..Len(a)
        <3>1. i - Len(a) \in 1..Len(b) /\ s[i] = b[i - Len(a)] BY <1>1, <2>3
        <3>2. k - Len(a) \in 1..Len(b) /\ s[k] = b[k - Len(a)] BY <1>1, <2>3
        <3>3. i - Len(a) < k - Len(a) BY <1>2, <1>3
        <3> QED BY <3>1, <3>2, <3>3 DEF Ascends
    <2> QED BY <2>1, <2>2, <2>3
<1>4. Ascends(s) BY <1>3 DEF Ascends
<1> QED BY <1>4 DEF s

(* The queue's filter is that of Slices.                                   *)
LEMMA FilterOfQueue ==
    ASSUME NEW s, NEW kept
    PROVE  Location!Filter(s, kept) = Filter(s, kept)
BY DEF Location!Filter, Location!Nth, Location!Before, Location!Cardinality,
       Filter, Nth, Before, Cardinality

(* Without its repetitions such a sequence is in the order of taking.      *)
LEMMA CompactAscends ==
    ASSUME NEW s \in Seq(Nat), Firsts(s)
    PROVE  /\ Location!Compact(s) \in Seq(Nat)
           /\ Elements(Location!Compact(s)) = Elements(s)
           /\ Ascends(Location!Compact(s))
<1> DEFINE kept == {i \in 1..Len(s) : Fresh(s, i)}
           f == Filter(s, kept)
<1>1. Len(s) \in Nat /\ DOMAIN s = 1..Len(s) BY LenProperties
<1>2. Location!Compact(s) = f
    <2>1. {i \in DOMAIN s : \A k \in 1..(i - 1) : s[k] # s[i]} = kept BY <1>1 DEF Fresh
    <2> QED BY <2>1, FilterOfQueue DEF Location!Compact
<1>3. kept \in SUBSET (1..Len(s)) OBVIOUS
<1>4. /\ f \in Seq(Nat)
      /\ \A n \in 1..Len(f) : \E i \in kept : f[n] = s[i]
      /\ \A i \in kept : \E n \in 1..Len(f) : f[n] = s[i]
      /\ \A n, m \in 1..Len(f) : n < m =>
             \E i, k \in kept : i < k /\ f[n] = s[i] /\ f[m] = s[k]
    <2> HIDE DEF kept
    <2> QED BY <1>3, FilterProperties
<1> HIDE DEF f
<1>5. ASSUME NEW j \in 1..Len(s) PROVE \E i \in kept : s[i] = s[j]
    <2> DEFINE T == {i \in 1..Len(s) : s[i] = s[j]}
    <2>1. T \in SUBSET Nat /\ T # {} BY <1>1
    <2>2. PICK i \in T : \A y \in T : i <= y
        <3> HIDE DEF T
        <3> QED BY <2>1, LeastNumber
    <2>3. ASSUME NEW k \in 1..(i - 1) PROVE s[k] # s[i]
        <3>1. k \in 1..Len(s) /\ ~(i <= k) BY <1>1
        <3> QED BY <2>2, <3>1
    <2>4. Fresh(s, i) BY <2>3 DEF Fresh
    <2>5. i \in 1..Len(s) /\ s[i] = s[j] OBVIOUS
    <2> QED BY <2>4, <2>5
<1>6. Elements(f) \subseteq Elements(s)
    <2> SUFFICES ASSUME NEW v \in Elements(f) PROVE v \in Elements(s) OBVIOUS
    <2>1. PICK n \in 1..Len(f) : v = f[n] BY DEF Elements
    <2>2. PICK i \in kept : f[n] = s[i] BY <1>4
    <2>3. i \in 1..Len(s) OBVIOUS
    <2> QED BY <2>1, <2>2, <2>3 DEF Elements
<1>7. Elements(s) \subseteq Elements(f)
    <2> SUFFICES ASSUME NEW v \in Elements(s) PROVE v \in Elements(f) OBVIOUS
    <2>1. PICK j \in 1..Len(s) : v = s[j] BY DEF Elements
    <2>2. PICK i \in kept : s[i] = s[j] BY <1>5
    <2>3. PICK n \in 1..Len(f) : f[n] = s[i] BY <1>4
    <2> QED BY <2>1, <2>2, <2>3 DEF Elements
<1>8. \A i, k \in kept : i < k => s[i] < s[k]
    <2> SUFFICES ASSUME NEW i \in kept, NEW k \in kept, i < k PROVE s[i] < s[k] OBVIOUS
    <2>1. i \in 1..(k - 1) /\ k \in 1..Len(s) /\ Fresh(s, k) BY <1>1
    <2> QED BY <2>1 DEF Firsts
<1> HIDE DEF kept
<1>9. Ascends(f) BY <1>4, <1>8 DEF Ascends
<1> QED BY <1>2, <1>4, <1>6, <1>7, <1>9

-----------------------------------------------------------------------------
(* FlattenSeq is the last of a chain of sequences, each with one more.     *)
Chain(f, s, m) ==
    /\ f \in [1..m -> Seq(Nat)]
    /\ m # 0 => f[1] = s[1]
    /\ \A i \in 2..m : f[i] = f[i - 1] \o s[i]
Joins(f, s) == f = [i \in 1..Len(s) |-> IF i = 1 THEN s[i] ELSE f[i - 1] \o s[i]]

(* There is such a chain: built one sequence at a time.                    *)
LEMMA ChainExists ==
    ASSUME NEW s \in Seq(Seq(Nat))
    PROVE  \E f : Chain(f, s, Len(s))
<1>1. Len(s) \in Nat /\ \A i \in 1..Len(s) : s[i] \in Seq(Nat) BY LenProperties, ElementOfSeq
<1> DEFINE T == {m \in Nat : m <= Len(s) => \E f : Chain(f, s, m)}
<1>2. 0 \in T
    <2>1. Chain([i \in 1..0 |-> << >>], s, 0) BY DEF Chain
    <2> QED BY <2>1
<1>3. ASSUME NEW m \in Nat, m \in T PROVE m + 1 \in T
    <2> SUFFICES ASSUME m + 1 <= Len(s) PROVE \E f : Chain(f, s, m + 1) OBVIOUS
    <2>1. PICK f : Chain(f, s, m) BY <1>1, <1>3
    <2>2. m + 1 \in 1..Len(s) /\ s[m + 1] \in Seq(Nat) BY <1>1
    <2> DEFINE g == [i \in 1..(m + 1) |->
                        IF i # m + 1 THEN f[i]
                        ELSE IF m = 0 THEN s[1] ELSE f[m] \o s[m + 1]]
    <2>3. \A i \in 1..m : i \in 1..(m + 1) /\ i # m + 1 /\ g[i] = f[i] OBVIOUS
    <2>4. m + 1 \in 1..(m + 1) /\ g[m + 1] = IF m = 0 THEN s[1] ELSE f[m] \o s[m + 1] OBVIOUS
    <2>5. m # 0 => m \in 1..m /\ f[m] \o s[m + 1] \in Seq(Nat)
        <3> SUFFICES ASSUME m # 0 PROVE m \in 1..m /\ f[m] \o s[m + 1] \in Seq(Nat) OBVIOUS
        <3>1. m \in 1..m OBVIOUS
        <3>2. f[m] \in Seq(Nat) BY <2>1, <3>1 DEF Chain
        <3> QED BY <2>2, <3>1, <3>2, ConcatProperties
    <2>6. m = 0 => g[m + 1] = s[m + 1] BY <2>4
    <2>7. \A i \in 1..(m + 1) : i \in 1..m \/ i = m + 1 OBVIOUS
    <2>8. \A i \in 1..m : f[i] \in Seq(Nat) BY <2>1 DEF Chain
    <2>9. g = [i \in 1..(m + 1) |-> g[i]] OBVIOUS
    <2> HIDE DEF g
    <2>10. g[m + 1] \in Seq(Nat) BY <2>2, <2>4, <2>5, <2>6
    <2>11. \A i \in 1..(m + 1) : g[i] \in Seq(Nat) BY <2>3, <2>7, <2>8, <2>10
    <2>12. g \in [1..(m + 1) -> Seq(Nat)] BY <2>9, <2>11
    <2>13. g[1] = s[1]
        <3>1. CASE m = 0 BY <2>6, <3>1
        <3>2. CASE m # 0
            <4>1. 1 \in 1..m BY <3>2
            <4> QED BY <2>1, <2>3, <3>2, <4>1 DEF Chain
        <3> QED BY <3>1, <3>2
    <2>14. ASSUME NEW i \in 2..(m + 1) PROVE g[i] = g[i - 1] \o s[i]
        <3>1. CASE i = m + 1
            <4>1. m # 0 /\ i - 1 = m /\ m \in 1..m BY <3>1
            <4> QED BY <2>3, <2>4, <3>1, <4>1
        <3>2. CASE i # m + 1
            <4>1. i \in 2..m /\ i \in 1..m /\ i - 1 \in 1..m BY <3>2
            <4>2. f[i] = f[i - 1] \o s[i] BY <2>1, <4>1 DEF Chain
            <4> QED BY <2>3, <4>1, <4>2
        <3> QED BY <3>1, <3>2
    <2>15. Chain(g, s, m + 1) BY <2>12, <2>13, <2>14 DEF Chain
    <2> QED BY <2>15
<1> HIDE DEF T
<1>4. \A m \in Nat : m \in T BY <1>2, <1>3, AllNumbers
<1>5. Len(s) \in T BY <1>1, <1>4
<1> QED BY <1>1, <1>5 DEF T

(* FlattenSeq chooses a function that is such a chain.                     *)
LEMMA FlattenIsChain ==
    ASSUME NEW s \in Seq(Seq(Nat)), Len(s) # 0
    PROVE  \E f : Chain(f, s, Len(s)) /\ Location!FlattenSeq(s) = f[Len(s)]
<1>1. Len(s) \in Nat BY LenProperties
<1>2. PICK g : Chain(g, s, Len(s)) BY ChainExists
<1>3. Joins(g, s)
    <2>1. g \in [1..Len(s) -> Seq(Nat)] /\ g[1] = s[1]
          /\ \A i \in 2..Len(s) : g[i] = g[i - 1] \o s[i]
        BY <1>2 DEF Chain
    <2>2. ASSUME NEW i \in 1..Len(s)
          PROVE  g[i] = IF i = 1 THEN s[i] ELSE g[i - 1] \o s[i]
        <3>1. i # 1 => i \in 2..Len(s) BY <1>1
        <3> QED BY <2>1, <3>1, Zenon
    <2>3. g = [i \in 1..Len(s) |-> g[i]] BY <2>1
    <2> QED BY <2>2, <2>3 DEF Joins
<1> DEFINE f == CHOOSE h : Joins(h, s)
<1>4. Joins(f, s) BY <1>3
<1>5. Location!FlattenSeq(s) = f[Len(s)] BY DEF Location!FlattenSeq, Joins
<1> HIDE DEF f
<1>6. \A i \in 1..Len(s) : f[i] = IF i = 1 THEN s[i] ELSE f[i - 1] \o s[i]
    <2>1. f = [i \in 1..Len(s) |-> IF i = 1 THEN s[i] ELSE f[i - 1] \o s[i]] BY <1>4 DEF Joins
    <2> QED BY <2>1, Zenon
<1>7. f = [i \in 1..Len(s) |-> f[i]] BY <1>4 DEF Joins
<1>8. 1 \in 1..Len(s) /\ f[1] = s[1] BY <1>1, <1>6
<1>9. ASSUME NEW i \in 2..Len(s) PROVE f[i] = f[i - 1] \o s[i]
    <2>1. i \in 1..Len(s) /\ i # 1 BY <1>1
    <2> QED BY <1>6, <2>1, Zenon
<1>10. \A i \in 1..Len(s) : s[i] \in Seq(Nat) BY ElementOfSeq
<1> DEFINE T == {m \in Nat : m + 1 <= Len(s) => f[m + 1] \in Seq(Nat)}
<1>11. 0 \in T BY <1>8, <1>10
<1>12. ASSUME NEW m \in Nat, m \in T PROVE m + 1 \in T
    <2> SUFFICES ASSUME (m + 1) + 1 <= Len(s) PROVE f[(m + 1) + 1] \in Seq(Nat) OBVIOUS
    <2>1. (m + 1) + 1 \in 2..Len(s) /\ (m + 1) + 1 \in 1..Len(s)
          /\ ((m + 1) + 1) - 1 = m + 1 BY <1>1
    <2>2. f[m + 1] \in Seq(Nat) BY <1>12, <1>1
    <2>3. f[(m + 1) + 1] = f[m + 1] \o s[(m + 1) + 1] BY <1>9, <2>1
    <2>4. s[(m + 1) + 1] \in Seq(Nat) BY <1>10, <2>1
    <2> QED BY <2>2, <2>3, <2>4, ConcatProperties
<1> HIDE DEF T
<1>13. \A m \in Nat : m \in T BY <1>11, <1>12, AllNumbers
<1>14. ASSUME NEW i \in 1..Len(s) PROVE f[i] \in Seq(Nat)
    <2>1. i - 1 \in Nat /\ (i - 1) + 1 = i /\ i <= Len(s) BY <1>1
    <2>2. i - 1 \in T BY <1>13, <2>1
    <2> QED BY <2>1, <2>2 DEF T
<1>15. f \in [1..Len(s) -> Seq(Nat)] BY <1>7, <1>14
<1>16. Chain(f, s, Len(s)) BY <1>8, <1>9, <1>15 DEF Chain
<1> QED BY <1>5, <1>16

(* What is flattened: the elements of all, and first where they should be  *)
(* when each sequence is newer than those before it.                       *)
LEMMA FlattenProperties ==
    ASSUME NEW s \in Seq(Seq(Nat)),
           \A i \in 1..Len(s) : Ascends(s[i]),
           \A i, k \in 1..Len(s) : i < k => Newer(s[i], s[k])
    PROVE  /\ Location!FlattenSeq(s) \in Seq(Nat)
           /\ Firsts(Location!FlattenSeq(s))
           /\ \A v : v \in Elements(Location!FlattenSeq(s)) <=>
                         \E i \in 1..Len(s) : v \in Elements(s[i])
<1>1. Len(s) \in Nat /\ \A i \in 1..Len(s) : s[i] \in Seq(Nat) BY LenProperties, ElementOfSeq
<1>2. CASE Len(s) = 0
    <2>1. s = << >> BY <1>2, EmptySeq
    <2>2. Location!FlattenSeq(s) = << >> BY <1>2, <2>1 DEF Location!FlattenSeq
    <2>3. << >> \in Seq(Nat) /\ Len(<< >>) = 0 OBVIOUS
    <2>4. Firsts(<< >>) BY <2>3 DEF Firsts
    <2>5. \A v : v \notin Elements(<< >>) BY <2>3 DEF Elements
    <2> QED BY <1>2, <2>2, <2>3, <2>4, <2>5
<1>3. CASE Len(s) # 0
    <2>1. PICK f : Chain(f, s, Len(s)) /\ Location!FlattenSeq(s) = f[Len(s)]
        BY <1>3, FlattenIsChain
    <2>2. /\ \A i \in 1..Len(s) : f[i] \in Seq(Nat)
          /\ f[1] = s[1]
          /\ \A i \in 2..Len(s) : f[i] = f[i - 1] \o s[i]
        BY <1>3, <2>1 DEF Chain
    <2> DEFINE T == {m \in Nat : m + 1 <= Len(s) =>
                        /\ Firsts(f[m + 1])
                        /\ \A v : v \in Elements(f[m + 1]) <=>
                                    \E i \in 1..(m + 1) : v \in Elements(s[i])}
    <2>3. 0 \in T
        <3>1. 1 \in 1..Len(s) /\ s[1] \in Seq(Nat) /\ Ascends(s[1]) BY <1>1, <1>3
        <3>2. Firsts(f[1]) BY <2>2, <3>1, AscendsIsFirsts
        <3>3. \A i \in 1..1 : i = 1 OBVIOUS
        <3>4. \A v : v \in Elements(f[1]) <=> \E i \in 1..1 : v \in Elements(s[i])
            BY <2>2, <3>3
        <3> QED BY <3>2, <3>4
    <2>4. ASSUME NEW m \in Nat, m \in T PROVE m + 1 \in T
        <3> DEFINE n == m + 2
        <3> SUFFICES ASSUME n <= Len(s)
                     PROVE  /\ Firsts(f[n])
                            /\ \A v : v \in Elements(f[n]) <=>
                                        \E i \in 1..n : v \in Elements(s[i])
            <4>1. (m + 1) + 1 = n OBVIOUS
            <4> HIDE DEF n
            <4> QED BY <4>1
        <3>1. n \in 2..Len(s) /\ n \in 1..Len(s) /\ n - 1 = m + 1 /\ m + 1 \in 1..Len(s)
            BY <1>1
        <3>2. /\ Firsts(f[m + 1])
              /\ \A v : v \in Elements(f[m + 1]) <=>
                            \E i \in 1..(m + 1) : v \in Elements(s[i])
            BY <2>4, <3>1
        <3>3. \A i \in 1..n : i \in 1..(m + 1) \/ i = n OBVIOUS
        <3>4. \A i \in 1..(m + 1) : i \in 1..n /\ i < n /\ i \in 1..Len(s) BY <1>1
        <3>5. n \in 1..n OBVIOUS
        <3> HIDE DEF n, T
        <3>6. f[m + 1] \in Seq(Nat) /\ s[n] \in Seq(Nat) /\ Ascends(s[n])
              /\ f[n] = f[m + 1] \o s[n]
            BY <1>1, <2>2, <3>1
        <3>7. Newer(f[m + 1], s[n])
            <4> SUFFICES ASSUME NEW v \in Elements(s[n]), v \notin Elements(f[m + 1]),
                                NEW x \in Elements(f[m + 1])
                         PROVE  x < v
                BY DEF Newer
            <4>1. PICK i \in 1..(m + 1) : x \in Elements(s[i]) BY <3>2
            <4>2. v \notin Elements(s[i]) BY <3>2
            <4>3. Newer(s[i], s[n]) BY <3>1, <3>4
            <4> QED BY <4>1, <4>2, <4>3 DEF Newer
        <3>8. Firsts(f[n]) BY <3>2, <3>6, <3>7, FirstsJoined
        <3>9. Elements(f[n]) = Elements(f[m + 1]) \cup Elements(s[n]) BY <3>6, JoinedElements
        <3>10. ASSUME NEW v
               PROVE  v \in Elements(f[n]) <=> \E i \in 1..n : v \in Elements(s[i])
            <4>1. v \in Elements(f[n]) => \E i \in 1..n : v \in Elements(s[i])
                BY <3>2, <3>4, <3>5, <3>9
            <4>2. (\E i \in 1..n : v \in Elements(s[i])) => v \in Elements(f[n])
                BY <3>2, <3>3, <3>9
            <4> QED BY <4>1, <4>2
        <3> QED BY <3>8, <3>10
    <2> HIDE DEF T
    <2>5. \A m \in Nat : m \in T BY <2>3, <2>4, AllNumbers
    <2>6. Len(s) - 1 \in Nat /\ (Len(s) - 1) + 1 = Len(s) BY <1>1, <1>3
    <2>7. Len(s) - 1 \in T BY <2>5, <2>6
    <2>8. /\ Firsts(f[Len(s)])
          /\ \A v : v \in Elements(f[Len(s)]) <=> \E i \in 1..Len(s) : v \in Elements(s[i])
        BY <1>1, <2>6, <2>7 DEF T
    <2>9. Len(s) \in 1..Len(s) BY <1>1, <1>3
    <2> QED BY <2>1, <2>2, <2>8, <2>9
<1> QED BY <1>2, <1>3

-----------------------------------------------------------------------------
(* The queue of one phone as values: its types, with sessions up to n and  *)
(* fixes up to m, and the order of what waits for session ses.             *)
Ordered(s, m) == s \in Seq(Nat) /\ Ascends(s) /\ \A x \in Elements(s) : x \in 1..m
QueueTypes(n, m, buf, bat, fl) ==
    /\ Ordered(buf, m) /\ Len(buf) <= 2 * MaxBuffer
    /\ bat \in Seq([session : 1..n, fixes : Seq(Nat)])
    /\ \A i \in 1..Len(bat) : Ordered(bat[i].fixes, m) /\ Len(bat[i].fixes) <= Cap
    /\ fl \in [session : 0..n, payload : Seq(Nat)]
    /\ fl.session = 0 => fl = Location!NoFlight
    /\ Ordered(fl.payload, m) /\ Len(fl.payload) <= Cap
Own(ses, bat, i) == bat[i].session = ses
QueueOrder(ses, buf, bat, fl) ==
    /\ \A x \in Elements(fl.payload) : Below(x, buf)
    /\ \A i \in 1..Len(bat) : Own(ses, bat, i) => Newer(bat[i].fixes, buf)
    /\ \A i \in 1..Len(bat) : Own(ses, bat, i) /\ fl # Location!NoFlight =>
          fl.session = ses /\ Follows(bat[i].fixes, fl.payload)
    /\ \A i, k \in 1..Len(bat) : i < k /\ Own(ses, bat, i) /\ Own(ses, bat, k) =>
          Follows(bat[i].fixes, bat[k].fixes)

(* The queue's slice is that of Slices.                                    *)
LEMMA LastOfQueue ==
    ASSUME NEW s, NEW n
    PROVE  Location!LastOf(s, n) = LastOf(s, n)
BY DEF Location!LastOf, LastOf

(* The fixes of a session's batches: all of them, and where they should be *)
(* for the newest of all to be last.                                       *)
LEMMA PutByFixesProperties ==
    ASSUME NEW n \in Nat, NEW m \in Nat, NEW ses, NEW buf, NEW fl,
           QueueTypes(n, m, buf, batches, fl), QueueOrder(ses, buf, batches, fl)
    PROVE  /\ Location!PutByFixes(ses) \in Seq(Nat)
           /\ Firsts(Location!PutByFixes(ses))
           /\ \A v : v \in Elements(Location!PutByFixes(ses)) <=>
                 \E i \in 1..Len(batches) :
                     Own(ses, batches, i) /\ v \in Elements(batches[i].fixes)
<1> DEFINE B == [session : 1..n, fixes : Seq(Nat)]
           kept == {i \in 1..Len(batches) : Own(ses, batches, i)}
           put == Filter(batches, kept)
           fixes == [i \in 1..Len(put) |-> put[i].fixes]
<1>1. batches \in Seq(B) BY DEF QueueTypes
<1>2. Len(batches) \in Nat /\ DOMAIN batches = 1..Len(batches) BY <1>1, LenProperties
<1>3. Location!PutBy(ses) = put
    <2>1. {i \in DOMAIN batches : batches[i].session = ses} = kept BY <1>2 DEF Own
    <2> QED BY <2>1, FilterOfQueue DEF Location!PutBy
<1>4. kept \in SUBSET (1..Len(batches)) OBVIOUS
<1>5. /\ put \in Seq(B)
      /\ \A x \in 1..Len(put) : \E i \in kept : put[x] = batches[i]
      /\ \A i \in kept : \E x \in 1..Len(put) : put[x] = batches[i]
      /\ \A x, y \in 1..Len(put) : x < y =>
             \E i, k \in kept : i < k /\ put[x] = batches[i] /\ put[y] = batches[k]
    <2> HIDE DEF kept, B
    <2> QED BY <1>1, <1>4, FilterProperties
<1>6. Location!PutByFixes(ses) = Location!FlattenSeq(fixes)
    <2> HIDE DEF put
    <2> QED BY <1>3 DEF Location!PutByFixes
<1> HIDE DEF put
<1>7. Len(put) \in Nat /\ \A x \in 1..Len(put) : put[x] \in B
    <2> HIDE DEF B
    <2> QED BY <1>5, LenProperties, ElementOfSeq
<1>8. \A x \in 1..Len(put) : put[x].fixes \in Seq(Nat) BY <1>7
<1>9. fixes \in Seq(Seq(Nat)) /\ Len(fixes) = Len(put)
      /\ \A x \in 1..Len(put) : fixes[x] = put[x].fixes
    <2>1. fixes \in [1..Len(put) -> Seq(Nat)] BY <1>8
    <2>2. fixes \in Seq(Seq(Nat)) BY <1>7, <2>1, SeqDef
    <2>3. Len(fixes) \in Nat /\ DOMAIN fixes = 1..Len(fixes) BY <2>2, LenProperties
    <2>4. DOMAIN fixes = 1..Len(put) OBVIOUS
    <2>5. Len(fixes) = Len(put) BY <1>7, <2>3, <2>4
    <2> QED BY <2>2, <2>5
<1> HIDE DEF fixes
<1>10. \A i \in kept : i \in 1..Len(batches) /\ Own(ses, batches, i) OBVIOUS
<1>11. \A i \in 1..Len(batches) : Own(ses, batches, i) => i \in kept OBVIOUS
<1> HIDE DEF kept, B
<1>12. \A i \in 1..Len(batches) : Ascends(batches[i].fixes) BY DEF QueueTypes, Ordered
<1>13. \A i, k \in kept : i < k => Newer(batches[i].fixes, batches[k].fixes)
    BY <1>10 DEF QueueOrder, Follows
<1>14. ASSUME NEW x \in 1..Len(fixes) PROVE Ascends(fixes[x])
    <2>1. PICK i \in kept : put[x] = batches[i] BY <1>5, <1>9
    <2> QED BY <1>9, <1>10, <1>12, <2>1
<1>15. ASSUME NEW x \in 1..Len(fixes), NEW y \in 1..Len(fixes), x < y
       PROVE  Newer(fixes[x], fixes[y])
    <2>1. PICK i \in kept, k \in kept : i < k /\ put[x] = batches[i] /\ put[y] = batches[k]
        BY <1>5, <1>9, <1>15
    <2> QED BY <1>9, <1>13, <2>1
<1>16. /\ Location!FlattenSeq(fixes) \in Seq(Nat)
       /\ Firsts(Location!FlattenSeq(fixes))
       /\ \A v : v \in Elements(Location!FlattenSeq(fixes)) <=>
                     \E x \in 1..Len(fixes) : v \in Elements(fixes[x])
    BY <1>9, <1>14, <1>15, FlattenProperties
<1>17. ASSUME NEW v
       PROVE  (\E x \in 1..Len(fixes) : v \in Elements(fixes[x])) <=>
                 \E i \in 1..Len(batches) :
                     Own(ses, batches, i) /\ v \in Elements(batches[i].fixes)
    <2>1. ASSUME NEW x \in 1..Len(fixes), v \in Elements(fixes[x])
          PROVE  \E i \in 1..Len(batches) :
                     Own(ses, batches, i) /\ v \in Elements(batches[i].fixes)
        <3>1. PICK i \in kept : put[x] = batches[i] BY <1>5, <1>9
        <3> QED BY <1>9, <1>10, <2>1, <3>1
    <2>2. ASSUME NEW i \in 1..Len(batches), Own(ses, batches, i), v \in Elements(batches[i].fixes)
          PROVE  \E x \in 1..Len(fixes) : v \in Elements(fixes[x])
        <3>1. i \in kept BY <1>11, <2>2
        <3>2. PICK x \in 1..Len(put) : put[x] = batches[i] BY <1>5, <3>1
        <3> QED BY <1>9, <2>2, <3>2
    <2> QED BY <2>1, <2>2
<1> QED BY <1>6, <1>16, <1>17

(* What a flush sends for a session.                                       *)
Sent(ses, buf) ==
    Location!LastOf(Location!Compact(Location!PutByFixes(ses) \o buf), 4 * MaxBuffer)

(* An upload covers the buffer and every batch of its session.             *)
LEMMA SentProperties ==
    ASSUME NEW n \in Nat, NEW m \in Nat, NEW ses, NEW buf, NEW fl,
           QueueTypes(n, m, buf, batches, fl), QueueOrder(ses, buf, batches, fl)
    PROVE  /\ Ordered(Sent(ses, buf), m) /\ Len(Sent(ses, buf)) <= Cap
           /\ Drops(buf, Sent(ses, buf))
           /\ \A i \in 1..Len(batches) :
                 Own(ses, batches, i) => Follows(batches[i].fixes, Sent(ses, buf))
<1> DEFINE put == Location!PutByFixes(ses)
           all == Location!Compact(put \o buf)
           sent == Sent(ses, buf)
<1>1. /\ put \in Seq(Nat) /\ Firsts(put)
      /\ \A v : v \in Elements(put) <=>
             \E i \in 1..Len(batches) : Own(ses, batches, i) /\ v \in Elements(batches[i].fixes)
    BY PutByFixesProperties
<1>2. Cap \in Nat \ {0} /\ MaxBuffer \in Nat \ {0} BY LocationAssumption DEF Cap
<1>3. sent = LastOf(all, Cap)
    <2> HIDE DEF all
    <2> SUFFICES Location!LastOf(all, 4 * MaxBuffer) = LastOf(all, Cap) BY DEF Sent, all
    <2> QED BY LastOfQueue DEF Cap
<1> HIDE DEF put, sent
<1>4. buf \in Seq(Nat) /\ Ascends(buf) BY DEF QueueTypes, Ordered
<1>5. Newer(put, buf)
    <2> SUFFICES ASSUME NEW v \in Elements(buf), v \notin Elements(put), NEW x \in Elements(put)
                 PROVE  x < v
        BY DEF Newer
    <2>1. PICK i \in 1..Len(batches) : Own(ses, batches, i) /\ x \in Elements(batches[i].fixes)
        BY <1>1
    <2>2. v \notin Elements(batches[i].fixes) BY <1>1, <2>1
    <2>3. Newer(batches[i].fixes, buf) BY <2>1 DEF QueueOrder
    <2> QED BY <2>1, <2>2, <2>3 DEF Newer
<1>6. put \o buf \in Seq(Nat) /\ Firsts(put \o buf)
      /\ Elements(put \o buf) = Elements(put) \cup Elements(buf)
    BY <1>1, <1>4, <1>5, FirstsJoined, JoinedElements
<1>7. all \in Seq(Nat) /\ Ascends(all) /\ Elements(all) = Elements(put) \cup Elements(buf)
    BY <1>6, CompactAscends
<1> HIDE DEF all
<1>8. sent \in Seq(Nat) /\ Len(sent) <= Cap /\ Ascends(sent)
      /\ Elements(sent) \subseteq Elements(all)
      /\ \A v \in Elements(all) : Covered(v, sent)
    BY <1>2, <1>3, <1>7, LastOfProperties, LastOfAscends, LastOfIsPart DEF Covered
<1>9. \A i \in 1..Len(batches) :
         /\ batches[i].fixes \in Seq(Nat) /\ Ascends(batches[i].fixes)
         /\ \A x \in Elements(batches[i].fixes) : x \in 1..m
    BY DEF QueueTypes, Ordered
<1>10. \A x \in Elements(sent) : x \in 1..m
    BY <1>1, <1>7, <1>8, <1>9 DEF QueueTypes, Ordered
<1>11. Drops(buf, sent) BY <1>7, <1>8 DEF Drops
<1>12. ASSUME NEW i \in 1..Len(batches), Own(ses, batches, i)
       PROVE  Follows(batches[i].fixes, sent)
    <2> DEFINE b == batches[i].fixes
    <2>0. b \in Seq(Nat) /\ Ascends(b) /\ \A x \in Elements(b) : x \in Nat
        <3>1. \A x \in 1..m : x \in Nat OBVIOUS
        <3> QED BY <1>9, <3>1
    <2>1. Elements(b) \subseteq Elements(all) BY <1>1, <1>7, <1>12
    <2>2. Drops(b, sent) BY <1>8, <2>1 DEF Drops
    <2>3. ASSUME NEW v \in Elements(sent), v \notin Elements(b), NEW x \in Elements(b)
          PROVE  x < v
        <3>0. v \in Nat /\ x \in Nat
            <4>1. \A y \in 1..m : y \in Nat OBVIOUS
            <4> QED BY <1>10, <2>0, <4>1
        <3>1. CASE v \in Elements(buf)
            <4>1. Newer(b, buf) BY <1>12 DEF QueueOrder
            <4> QED BY <2>3, <3>1, <4>1 DEF Newer
        <3>2. CASE v \notin Elements(buf)
            <4>1. v \in Elements(put) BY <1>7, <1>8, <3>2
            <4>2. PICK k \in 1..Len(batches) :
                         Own(ses, batches, k) /\ v \in Elements(batches[k].fixes)
                BY <1>1, <4>1
            <4>3. i # k BY <2>3, <4>2
            <4>4. CASE i < k
                <5>1. Newer(b, batches[k].fixes) BY <1>12, <4>2, <4>4 DEF QueueOrder, Follows
                <5> QED BY <2>3, <4>2, <5>1 DEF Newer
            <4>5. CASE k < i
                <5>1. Drops(batches[k].fixes, b) BY <1>12, <4>2, <4>5 DEF QueueOrder, Follows
                <5>2. Len(b) = Cap /\ Below(v, b) BY <2>3, <4>2, <5>1 DEF Drops, Covered
                <5>3. \E y \in Elements(b) : y \notin Elements(sent)
                    <6> SUFFICES ASSUME Elements(b) \subseteq Elements(sent) PROVE FALSE
                        OBVIOUS
                    <6>1. Len(b) + 1 <= Len(sent) BY <1>8, <2>0, <5>2, OlderIsMore
                    <6>2. Len(sent) \in Nat BY <1>8, LenProperties
                    <6> QED BY <1>2, <1>8, <5>2, <6>1, <6>2
                <5>4. PICK y \in Elements(b) : y \notin Elements(sent) BY <5>3
                <5>5. y < v BY <2>2, <5>4 DEF Drops, Covered, Below
                <5>6. v < y BY <5>2, <5>4 DEF Below
                <5>7. y \in Nat BY <2>0
                <5> QED BY <3>0, <5>5, <5>6, <5>7
            <4>6. Len(batches) \in Nat
                BY LenProperties DEF QueueTypes
            <4> QED BY <4>3, <4>4, <4>5, <4>6
        <3> QED BY <3>1, <3>2
    <2>4. Newer(b, sent) BY <2>3 DEF Newer
    <2> QED BY <2>2, <2>4 DEF Follows
<1> QED BY <1>8, <1>10, <1>11, <1>12 DEF Ordered, sent

-----------------------------------------------------------------------------
(* Where fix f of session ses is, when tk says in which session each was   *)
(* taken; or twice the buffer has been taken since.                        *)
WaitsInBatch(f, ses, bat) ==
    \E i \in 1..Len(bat) : Own(ses, bat, i) /\ f \in Elements(bat[i].fixes)
KeptFix(f, ses, tk, up, buf, bat, fl) ==
    \/ [session |-> ses, fix |-> f] \in up
    \/ f \in Elements(buf)
    \/ WaitsInBatch(f, ses, bat)
    \/ fl.session = ses /\ f \in Elements(fl.payload)
    \/ Len(tk) - f >= 2 * MaxBuffer
Kept(ses, tk, up, buf, bat, fl) ==
    \A f \in 1..Len(tk) : tk[f] = ses => KeptFix(f, ses, tk, up, buf, bat, fl)

(* What an upload leaves out has been displaced.                           *)
LEMMA CoveredIsKept ==
    ASSUME NEW b, NEW m \in Nat, Ordered(b, m), NEW f \in 1..m, Covered(f, b),
           f \notin Elements(b)
    PROVE  m - f >= 2 * MaxBuffer
<1>1. b \in Seq(Nat) /\ Ascends(b) /\ \A x \in Elements(b) : x <= m BY DEF Ordered
<1>2. Len(b) = Cap /\ Below(f, b) BY DEF Covered
<1>3. f \in Nat /\ f <= m OBVIOUS
<1>4. f + Len(b) <= m BY <1>1, <1>2, <1>3, Crowded
<1>5. MaxBuffer \in Nat BY LocationAssumption
<1>6. Cap = 4 * MaxBuffer BY DEF Cap
<1> QED BY <1>2, <1>3, <1>4, <1>5, <1>6

LEMMA NoFlightIsEmpty ==
    /\ Location!NoFlight \in [session : {0}, payload : Seq(Nat)]
    /\ Location!NoFlight.session = 0 /\ Location!NoFlight.payload = << >>
BY DEF Location!NoFlight

LEMMA EmptyHasNone ==
    /\ << >> \in Seq(Nat) /\ Len(<< >>) = 0 /\ Elements(<< >>) = {}
    /\ \A m : Ordered(<< >>, m)
<1>1. << >> \in Seq(Nat) /\ Len(<< >>) = 0 OBVIOUS
<1>2. Elements(<< >>) = {} BY <1>1 DEF Elements
<1>3. Ascends(<< >>) BY <1>1 DEF Ascends
<1> QED BY <1>1, <1>2, <1>3 DEF Ordered

(* The batches of other sessions, when those of one are taken out.         *)
LEMMA OthersProperties ==
    ASSUME NEW n \in Nat, batches \in Seq([session : 1..n, fixes : Seq(Nat)]), NEW ses
    PROVE  /\ Location!Others(ses) \in Seq([session : 1..n, fixes : Seq(Nat)])
           /\ Len(Location!Others(ses)) <= Len(batches)
           /\ \A x \in 1..Len(Location!Others(ses)) :
                 /\ ~Own(ses, Location!Others(ses), x)
                 /\ \E i \in 1..Len(batches) : Location!Others(ses)[x] = batches[i]
<1> DEFINE B == [session : 1..n, fixes : Seq(Nat)]
           kept == {i \in 1..Len(batches) : ~Own(ses, batches, i)}
           others == Filter(batches, kept)
<1>1. Len(batches) \in Nat /\ DOMAIN batches = 1..Len(batches) BY LenProperties
<1>2. Location!Others(ses) = others
    <2>1. {i \in DOMAIN batches : batches[i].session # ses} = kept BY <1>1 DEF Own
    <2> QED BY <2>1, FilterOfQueue DEF Location!Others
<1>3. kept \in SUBSET (1..Len(batches)) OBVIOUS
<1>4. \A i \in kept : i \in 1..Len(batches) /\ ~Own(ses, batches, i) OBVIOUS
<1> HIDE DEF kept, B
<1>5. /\ others \in Seq(B) /\ Len(others) <= Len(batches)
      /\ \A x \in 1..Len(others) : \E i \in kept : others[x] = batches[i]
    BY <1>3, FilterProperties DEF B
<1> HIDE DEF others
<1>6. \A x \in 1..Len(others) : \E i \in kept :
          i \in 1..Len(batches) /\ ~Own(ses, batches, i) /\ others[x] = batches[i]
    BY <1>4, <1>5
<1>7. \A x \in 1..Len(others) :
         ~Own(ses, others, x) /\ \E i \in 1..Len(batches) : others[x] = batches[i]
    BY <1>6 DEF Own
<1> QED BY <1>2, <1>5, <1>7 DEF B

(* A flush for the session keeps all that waited for it.                   *)
LEMMA FlushKeeps ==
    ASSUME NEW n \in Nat, NEW ses \in 1..n, NEW tk \in Seq(Nat), NEW up, NEW buf,
           QueueTypes(n, Len(tk), buf, batches, flight), QueueOrder(ses, buf, batches, flight),
           Kept(ses, tk, up, buf, batches, flight), Location!Flush(ses, buf)
    PROVE  /\ QueueTypes(n, Len(tk), buffer', batches', flight')
           /\ QueueOrder(ses, buffer', batches', flight')
           /\ Kept(ses, tk, up, buffer', batches', flight')
           /\ Len(batches') <= Len(batches)
<1> DEFINE m == Len(tk)
           sent == Sent(ses, buf)
<1>0. m \in Nat /\ MaxBuffer \in Nat BY LenProperties, LocationAssumption
<1>1. CASE flight # Location!NoFlight
    <2>1. buffer' = buf /\ batches' = batches /\ flight' = flight
        BY <1>1 DEF Location!Flush
    <2>2. Len(batches) \in Nat BY LenProperties DEF QueueTypes
    <2>3. Len(batches) <= Len(batches) BY <2>2
    <2> HIDE DEF m, sent
    <2> QED BY <2>1, <2>3
<1>2. CASE flight = Location!NoFlight
    <2>1. /\ buffer' = << >>
          /\ batches' = IF Location!Others(ses) # << >> THEN Location!Others(ses) ELSE batches
          /\ flight' = IF sent = << >> THEN Location!NoFlight
                       ELSE [session |-> ses, payload |-> sent]
        BY <1>2 DEF Location!Flush, Sent
    <2>2. /\ Ordered(sent, m) /\ Len(sent) <= Cap
          /\ Drops(buf, sent)
          /\ \A i \in 1..Len(batches) :
                 Own(ses, batches, i) => Follows(batches[i].fixes, sent)
        BY <1>0, SentProperties
    <2> HIDE DEF sent
    <2>3. /\ flight' \in [session : 0..n, payload : Seq(Nat)]
          /\ flight'.payload = sent
          /\ flight'.session = 0 => flight' = Location!NoFlight
          /\ sent # << >> => flight'.session = ses
          /\ flight' # Location!NoFlight => flight'.session = ses
        <3>1. sent \in Seq(Nat) BY <2>2 DEF Ordered
        <3>2. CASE sent = << >>
            <4>1. flight' = Location!NoFlight BY <2>1, <3>2
            <4> QED BY <3>2, <4>1, NoFlightIsEmpty
        <3>3. CASE sent # << >>
            <4>1. flight' = [session |-> ses, payload |-> sent] BY <2>1, <3>3
            <4> QED BY <3>1, <3>3, <4>1
        <3> QED BY <3>2, <3>3
    <2>4. batches \in Seq([session : 1..n, fixes : Seq(Nat)]) /\ Len(batches) \in Nat
        BY LenProperties DEF QueueTypes
    <2>5. /\ batches' \in Seq([session : 1..n, fixes : Seq(Nat)])
          /\ Len(batches') <= Len(batches)
          /\ \A x \in 1..Len(batches') : \E i \in 1..Len(batches) : batches'[x] = batches[i]
          /\ batches' = batches \/ \A x \in 1..Len(batches') : ~Own(ses, batches', x)
        <3>1. CASE Location!Others(ses) # << >>
            <4>1. batches' = Location!Others(ses) BY <2>1, <3>1
            <4>2. /\ Location!Others(ses) \in Seq([session : 1..n, fixes : Seq(Nat)])
                  /\ Len(Location!Others(ses)) <= Len(batches)
                  /\ \A x \in 1..Len(Location!Others(ses)) :
                       /\ ~Own(ses, Location!Others(ses), x)
                       /\ \E i \in 1..Len(batches) : Location!Others(ses)[x] = batches[i]
                BY <2>4, OthersProperties
            <4> QED BY <4>1, <4>2
        <3>2. CASE Location!Others(ses) = << >>
            <4>1. batches' = batches BY <2>1, <3>2
            <4> QED BY <2>4, <4>1
        <3> QED BY <3>1, <3>2
    <2>6. \A i \in 1..Len(batches) : Ordered(batches[i].fixes, m) /\ Len(batches[i].fixes) <= Cap
        BY DEF QueueTypes
    <2>7. \A x \in 1..Len(batches') :
             Ordered(batches'[x].fixes, m) /\ Len(batches'[x].fixes) <= Cap
        BY <2>5, <2>6
    <2>8. QueueTypes(n, m, buffer', batches', flight')
        <3>1. Ordered(buffer', m) /\ Len(buffer') <= 2 * MaxBuffer
            BY <1>0, <2>1, EmptyHasNone
        <3> HIDE DEF m
        <3> QED BY <2>2, <2>3, <2>5, <2>7, <3>1 DEF QueueTypes
    <2>9. QueueOrder(ses, buffer', batches', flight')
        <3>1. Elements(buffer') = {} BY <2>1, EmptyHasNone
        <3>2. \A x \in Elements(flight'.payload) : Below(x, buffer') BY <3>1 DEF Below
        <3>3. \A i \in 1..Len(batches') : Newer(batches'[i].fixes, buffer') BY <3>1 DEF Newer
        <3>4. CASE batches' = batches
            <4>1. \A i, k \in 1..Len(batches) :
                     i < k /\ Own(ses, batches, i) /\ Own(ses, batches, k) =>
                        Follows(batches[i].fixes, batches[k].fixes)
                BY DEF QueueOrder
            <4> QED BY <2>2, <2>3, <3>2, <3>3, <3>4, <4>1 DEF QueueOrder
        <3>5. CASE \A x \in 1..Len(batches') : ~Own(ses, batches', x)
            BY <3>2, <3>3, <3>5 DEF QueueOrder
        <3> QED BY <2>5, <3>4, <3>5
    <2>10. ASSUME NEW f \in 1..m, tk[f] = ses
           PROVE  KeptFix(f, ses, tk, up, buffer', batches', flight')
        <3>1. KeptFix(f, ses, tk, up, buf, batches, flight) BY <2>10 DEF Kept
        <3>2. ASSUME Covered(f, sent) PROVE KeptFix(f, ses, tk, up, buffer', batches', flight')
            <4>1. CASE f \in Elements(sent)
                <5>1. sent # << >> BY <4>1, EmptyHasNone
                <5> QED BY <2>3, <4>1, <5>1 DEF KeptFix
            <4>2. CASE f \notin Elements(sent)
                <5>1. m - f >= 2 * MaxBuffer BY <1>0, <2>2, <3>2, <4>2, CoveredIsKept
                <5> QED BY <5>1 DEF KeptFix
            <4> QED BY <4>1, <4>2
        <3>3. CASE f \in Elements(buf) BY <2>2, <3>2, <3>3 DEF Drops
        <3>4. CASE WaitsInBatch(f, ses, batches)
            <4>1. PICK i \in 1..Len(batches) :
                         Own(ses, batches, i) /\ f \in Elements(batches[i].fixes)
                BY <3>4 DEF WaitsInBatch
            <4> QED BY <2>2, <3>2, <4>1 DEF Follows, Drops
        <3>5. ~(flight.session = ses)
            <4>1. flight.session = 0 BY <1>2, NoFlightIsEmpty
            <4> QED BY <4>1
        <3>6. CASE [session |-> ses, fix |-> f] \in up \/ Len(tk) - f >= 2 * MaxBuffer
            BY <3>6 DEF KeptFix
        <3> QED BY <3>1, <3>3, <3>4, <3>5, <3>6 DEF KeptFix
    <2>11. Kept(ses, tk, up, buffer', batches', flight') BY <2>10 DEF Kept
    <2> QED BY <2>5, <2>8, <2>9, <2>11
<1> QED BY <1>1, <1>2

(* An upload that fails is put back in order.                              *)
LEMMA PutBackKeeps ==
    ASSUME NEW n \in Nat, NEW ses \in 0..n, NEW tk \in Seq(Nat), NEW up,
           QueueTypes(n, Len(tk), buffer, batches, flight),
           QueueOrder(ses, buffer, batches, flight),
           Kept(ses, tk, up, buffer, batches, flight),
           flight # Location!NoFlight, Location!PutBack
    PROVE  /\ QueueTypes(n, Len(tk), buffer', batches', flight')
           /\ QueueOrder(ses, buffer', batches', flight')
           /\ ses # 0 => Kept(ses, tk, up, buffer', batches', flight')
           /\ Len(batches') <= MaxBatches
<1> DEFINE m == Len(tk)
           P == flight.payload
           back == [session |-> flight.session, fixes |-> P]
           joined == P \o buffer
           more == Append(batches, back)
           B == [session : 1..n, fixes : Seq(Nat)]
<1>1. m \in Nat /\ MaxBuffer \in Nat \ {0} /\ MaxBatches \in Nat \ {0}
      /\ 2 * MaxBuffer \in Nat \ {0}
    <2>1. m \in Nat BY LenProperties
    <2>2. MaxBuffer \in Nat \ {0} /\ MaxBatches \in Nat \ {0} BY LocationAssumption
    <2> HIDE DEF m
    <2> QED BY <2>1, <2>2
<1>2. /\ buffer' = LastOf(joined, 2 * MaxBuffer)
      /\ batches' = LastOf(more, MaxBatches)
      /\ flight' = Location!NoFlight
    BY LastOfQueue DEF Location!PutBack
<1>3. /\ Ordered(buffer, m) /\ Len(buffer) <= 2 * MaxBuffer
      /\ batches \in Seq(B)
      /\ \A i \in 1..Len(batches) : Ordered(batches[i].fixes, m) /\ Len(batches[i].fixes) <= Cap
      /\ flight \in [session : 0..n, payload : Seq(Nat)]
      /\ flight.session # 0
      /\ Ordered(P, m) /\ Len(P) <= Cap
    BY DEF QueueTypes
<1>4. back \in B /\ back.session = flight.session /\ back.fixes = P
    BY <1>3
<1>5. /\ \A x \in Elements(P) : Below(x, buffer)
      /\ \A i \in 1..Len(batches) : Own(ses, batches, i) => Newer(batches[i].fixes, buffer)
      /\ \A i \in 1..Len(batches) : Own(ses, batches, i) =>
            flight.session = ses /\ Follows(batches[i].fixes, P)
      /\ \A i, k \in 1..Len(batches) : i < k /\ Own(ses, batches, i) /\ Own(ses, batches, k) =>
            Follows(batches[i].fixes, batches[k].fixes)
    BY DEF QueueOrder
<1> HIDE DEF m, P, back, B
<1>6. /\ P \in Seq(Nat) /\ buffer \in Seq(Nat) /\ Ascends(P) /\ Ascends(buffer)
      /\ \A x \in Elements(P) : x \in 1..m
      /\ \A x \in Elements(buffer) : x \in 1..m
    BY <1>3 DEF Ordered
<1>7. /\ joined \in Seq(Nat) /\ Len(joined) = Len(P) + Len(buffer)
      /\ Elements(joined) = Elements(P) \cup Elements(buffer)
      /\ Ascends(joined)
      /\ \A i \in 1..Len(buffer) : Len(P) + i \in 1..Len(joined) /\ joined[Len(P) + i] = buffer[i]
    BY <1>5, <1>6, JoinedElements, AscendsJoined DEF Below
<1>8. Len(P) \in Nat /\ Len(buffer) \in Nat BY <1>6, LenProperties
<1> HIDE DEF joined
<1>9. /\ buffer' \in Seq(Nat) /\ Len(buffer') <= 2 * MaxBuffer /\ Ascends(buffer')
      /\ Elements(buffer') \subseteq Elements(joined)
      /\ \E d \in Nat :
            /\ d + Len(buffer') = Len(joined)
            /\ d # 0 => Len(buffer') = 2 * MaxBuffer
            /\ \A i \in 1..Len(buffer') : buffer'[i] = joined[d + i]
    <2> DEFINE c == 2 * MaxBuffer
               l == LastOf(joined, c)
    <2>1. c \in Nat \ {0} /\ buffer' = l /\ c = 2 * MaxBuffer BY <1>1, <1>2
    <2> HIDE DEF c
    <2>2. /\ l \in Seq(Nat) /\ Len(l) <= c
          /\ \E d \in Nat :
                /\ d + Len(l) = Len(joined)
                /\ d # 0 => Len(l) = c
                /\ \A i \in 1..Len(l) : l[i] = joined[d + i]
        BY <1>7, <2>1, LastOfProperties
    <2>3. Elements(l) \subseteq Elements(joined) BY <1>7, <2>1, LastOfIsPart
    <2>4. Ascends(l) BY <1>7, <2>1, LastOfAscends
    <2> HIDE DEF l
    <2> QED BY <2>1, <2>2, <2>3, <2>4, Zenon
<1>10. Ordered(buffer', m) BY <1>6, <1>7, <1>9 DEF Ordered
<1>11. Elements(buffer) \subseteq Elements(buffer')
    <2> SUFFICES ASSUME NEW v \in Elements(buffer) PROVE v \in Elements(buffer') OBVIOUS
    <2>1. PICK i \in 1..Len(buffer) : v = buffer[i] BY DEF Elements
    <2>2. PICK d \in Nat : /\ d + Len(buffer') = Len(joined)
                           /\ d # 0 => Len(buffer') = 2 * MaxBuffer
                           /\ \A x \in 1..Len(buffer') : buffer'[x] = joined[d + x]
        BY <1>9
    <2>3. Len(buffer') \in Nat BY <1>9, LenProperties
    <2>4. d <= Len(P)
        <3>1. d + Len(buffer') = Len(P) + Len(buffer) BY <1>7, <2>2
        <3>2. d # 0 => Len(buffer) <= Len(buffer') BY <1>3, <2>2
        <3> QED BY <1>8, <2>3, <3>1, <3>2
    <2> DEFINE j == (Len(P) + i) - d
    <2>5. j \in 1..Len(buffer') /\ d + j = Len(P) + i
        <3>1. d + Len(buffer') = Len(P) + Len(buffer) BY <1>7, <2>2
        <3>2. i \in Nat /\ 1 <= i /\ i <= Len(buffer) BY <1>8
        <3> QED BY <1>8, <2>3, <2>4, <3>1, <3>2
    <2> HIDE DEF j
    <2>6. buffer'[j] = joined[d + j] BY <2>2, <2>5
    <2>7. buffer'[j] = v BY <1>7, <2>1, <2>5, <2>6
    <2> QED BY <2>5, <2>7 DEF Elements
<1>12. /\ more \in Seq(B) /\ Len(more) = Len(batches) + 1
       /\ \A i \in 1..Len(batches) : more[i] = batches[i]
       /\ more[Len(batches) + 1] = back
    BY <1>3, <1>4, AppendedElements
<1>13. Len(batches) \in Nat BY <1>3, LenProperties
<1> HIDE DEF more
<1>14. \A i \in 1..Len(more) :
          /\ Ordered(more[i].fixes, m) /\ Len(more[i].fixes) <= Cap
          /\ \/ i \in 1..Len(batches) /\ more[i] = batches[i]
             \/ i = Len(batches) + 1 /\ more[i] = back
    <2> SUFFICES ASSUME NEW i \in 1..Len(more)
                 PROVE  /\ Ordered(more[i].fixes, m) /\ Len(more[i].fixes) <= Cap
                        /\ \/ i \in 1..Len(batches) /\ more[i] = batches[i]
                           \/ i = Len(batches) + 1 /\ more[i] = back
        OBVIOUS
    <2>1. CASE i = Len(batches) + 1 BY <1>3, <1>4, <1>12, <2>1
    <2>2. CASE i # Len(batches) + 1
        <3>1. i \in 1..Len(batches) BY <1>12, <1>13, <2>2
        <3> QED BY <1>3, <1>12, <3>1
    <2> QED BY <2>1, <2>2
<1>15. /\ batches' \in Seq(B) /\ Len(batches') <= MaxBatches
       /\ \E d \in Nat :
            /\ d + Len(batches') = Len(more)
            /\ d # 0 => Len(batches') = MaxBatches
            /\ \A i \in 1..Len(batches') : batches'[i] = more[d + i]
    <2> DEFINE l == LastOf(more, MaxBatches)
    <2>1. MaxBatches \in Nat \ {0} /\ batches' = l BY <1>1, <1>2
    <2>2. /\ l \in Seq(B) /\ Len(l) <= MaxBatches
          /\ \E d \in Nat :
                /\ d + Len(l) = Len(more)
                /\ d # 0 => Len(l) = MaxBatches
                /\ \A i \in 1..Len(l) : l[i] = more[d + i]
        BY <1>12, <2>1, LastOfProperties
    <2> HIDE DEF l
    <2> QED BY <2>1, <2>2, Zenon
<1>16. PICK d \in Nat : /\ d + Len(batches') = Len(more)
                        /\ d # 0 => Len(batches') = MaxBatches
                        /\ \A i \in 1..Len(batches') : batches'[i] = more[d + i]
    BY <1>15
<1>17. Len(batches') \in Nat /\ Len(batches') # 0
    BY <1>1, <1>12, <1>13, <1>15, <1>16, LenProperties
<1>18. \A i \in 1..Len(batches') : d + i \in 1..Len(more) /\ batches'[i] = more[d + i]
    BY <1>16, <1>17
<1>19. QueueTypes(n, m, buffer', batches', flight')
    <2>1. \A i \in 1..Len(batches') :
             Ordered(batches'[i].fixes, m) /\ Len(batches'[i].fixes) <= Cap
        BY <1>14, <1>18
    <2>2. /\ flight' \in [session : 0..n, payload : Seq(Nat)]
          /\ Ordered(flight'.payload, m) /\ Len(flight'.payload) <= Cap
        <3>1. 0 \in 0..n /\ 0 <= Cap BY <1>1 DEF Cap
        <3> QED BY <1>2, <3>1, NoFlightIsEmpty, EmptyHasNone
    <2> QED BY <1>2, <1>9, <1>10, <1>15, <2>1, <2>2 DEF QueueTypes, B
<1>20. ASSUME NEW i \in 1..Len(more), Own(ses, more, i)
       PROVE  /\ flight.session = ses
              /\ Newer(more[i].fixes, buffer')
              /\ \A k \in 1..Len(more) : i < k /\ Own(ses, more, k) =>
                    Follows(more[i].fixes, more[k].fixes)
    <2>1. CASE i \in 1..Len(batches)
        <3>1. more[i] = batches[i] BY <1>12, <2>1
        <3>2. Own(ses, batches, i) BY <1>20, <3>1 DEF Own
        <3>3. flight.session = ses /\ Follows(batches[i].fixes, P)
              /\ Newer(batches[i].fixes, buffer)
            BY <1>5, <2>1, <3>2
        <3>4. Newer(more[i].fixes, buffer')
            <4>1. \A v \in Elements(buffer') : v \in Elements(P) \/ v \in Elements(buffer)
                BY <1>7, <1>9
            <4> QED BY <3>1, <3>3, <4>1 DEF Newer, Follows
        <3>5. ASSUME NEW k \in 1..Len(more), i < k, Own(ses, more, k)
              PROVE  Follows(more[i].fixes, more[k].fixes)
            <4>1. CASE more[k] = back BY <1>4, <3>1, <3>3, <4>1
            <4>2. CASE k \in 1..Len(batches) /\ more[k] = batches[k]
                <5>1. Own(ses, batches, k) BY <3>5, <4>2 DEF Own
                <5> QED BY <1>5, <2>1, <3>1, <3>2, <3>5, <4>2, <5>1
            <4> QED BY <1>14, <4>1, <4>2
        <3> QED BY <3>3, <3>4, <3>5
    <2>2. CASE i \notin 1..Len(batches)
        <3>1. i = Len(batches) + 1 /\ more[i] = back BY <1>14, <2>2
        <3>2. flight.session = ses BY <1>4, <1>20, <3>1 DEF Own
        <3>3. Newer(P, buffer')
            <4>1. \A v \in Elements(buffer') : v \in Elements(P) \/ v \in Elements(buffer)
                BY <1>7, <1>9
            <4> QED BY <1>5, <4>1 DEF Newer, Below
        <3>4. \A k \in 1..Len(more) : ~(i < k) BY <1>12, <1>13, <3>1
        <3> QED BY <1>4, <3>1, <3>2, <3>3, <3>4
    <2> QED BY <2>1, <2>2
<1>21. QueueOrder(ses, buffer', batches', flight')
    <2>1. \A x \in Elements(flight'.payload) : Below(x, buffer')
        BY <1>2, NoFlightIsEmpty, EmptyHasNone
    <2>2. \A i \in 1..Len(batches') : Own(ses, batches', i) => Own(ses, more, d + i)
        BY <1>18 DEF Own
    <2>3. \A i \in 1..Len(batches') : Own(ses, batches', i) => Newer(batches'[i].fixes, buffer')
        BY <1>18, <1>20, <2>2
    <2>4. ASSUME NEW i \in 1..Len(batches'), NEW k \in 1..Len(batches'), i < k,
                 Own(ses, batches', i), Own(ses, batches', k)
          PROVE  Follows(batches'[i].fixes, batches'[k].fixes)
        <3>1. d + i < d + k BY <1>17, <2>4
        <3>2. /\ d + i \in 1..Len(more) /\ d + k \in 1..Len(more)
              /\ Own(ses, more, d + i) /\ Own(ses, more, d + k)
            BY <1>18, <2>2, <2>4
        <3>3. Follows(more[d + i].fixes, more[d + k].fixes) BY <1>20, <3>1, <3>2
        <3> QED BY <1>18, <3>3
    <2> QED BY <1>2, <2>1, <2>3, <2>4 DEF QueueOrder
<1>22. ASSUME NEW f \in 1..m, tk[f] = ses, ses # 0
       PROVE  KeptFix(f, ses, tk, up, buffer', batches', flight')
    <2>1. KeptFix(f, ses, tk, up, buffer, batches, flight) BY <1>22 DEF Kept, m
    <2>2. ASSUME flight.session = ses, Covered(f, P)
          PROVE  KeptFix(f, ses, tk, up, buffer', batches', flight')
        <3>1. CASE f \in Elements(P)
            <4>1. Len(batches') \in 1..Len(batches') /\ d + Len(batches') = Len(batches) + 1
                BY <1>12, <1>16, <1>17
            <4>2. batches'[Len(batches')] = back BY <1>12, <1>18, <4>1
            <4>3. Own(ses, batches', Len(batches')) BY <1>4, <2>2, <4>2 DEF Own
            <4>4. f \in Elements(batches'[Len(batches')].fixes) BY <1>4, <3>1, <4>2
            <4> QED BY <4>1, <4>3, <4>4 DEF KeptFix, WaitsInBatch
        <3>2. CASE f \notin Elements(P)
            <4>1. m - f >= 2 * MaxBuffer BY <1>1, <1>3, <2>2, <3>2, CoveredIsKept
            <4> QED BY <4>1 DEF KeptFix, m
        <3> QED BY <3>1, <3>2
    <2>3. CASE f \in Elements(buffer) BY <1>11, <2>3 DEF KeptFix
    <2>4. CASE WaitsInBatch(f, ses, batches)
        <3>1. PICK i \in 1..Len(batches) :
                     Own(ses, batches, i) /\ f \in Elements(batches[i].fixes)
            BY <2>4 DEF WaitsInBatch
        <3>2. flight.session = ses /\ Follows(batches[i].fixes, P) BY <1>5, <3>1
        <3> QED BY <2>2, <3>1, <3>2 DEF Follows, Drops
    <2>5. CASE flight.session = ses /\ f \in Elements(P) BY <2>2, <2>5 DEF Covered
    <2>6. CASE [session |-> ses, fix |-> f] \in up \/ Len(tk) - f >= 2 * MaxBuffer
        BY <2>6 DEF KeptFix
    <2> QED BY <2>1, <2>3, <2>4, <2>5, <2>6 DEF KeptFix, P
<1>23. ses # 0 => Kept(ses, tk, up, buffer', batches', flight') BY <1>22 DEF Kept, m
<1> QED BY <1>15, <1>19, <1>21, <1>23 DEF m

-----------------------------------------------------------------------------
(* The inductive invariant of the upload queue.                            *)
LocationPlaces ==
    /\ session \in {0, last} /\ last \in 0..NumSessions /\ timer \in BOOLEAN
    /\ takenIn \in Seq(Nat) /\ Len(takenIn) <= MaxFixes
    /\ \A f \in 1..Len(takenIn) : takenIn[f] \in 1..last
    /\ uploaded \subseteq [session : Location!Sessions, fix : Location!Fixes]
    /\ uploadFailures \in 0..MaxUploadFailures
    /\ Len(batches) <= MaxBatches
LocationInv ==
    /\ LocationPlaces
    /\ QueueTypes(last, Len(takenIn), buffer, batches, flight)
    /\ QueueOrder(session, buffer, batches, flight)
    /\ session # 0 => Kept(session, takenIn, uploaded, buffer, batches, flight)

(* Later sessions and fixes leave the queue as it was.                     *)
LEMMA QueueGrows ==
    ASSUME NEW n \in Nat, NEW n2 \in Nat, n <= n2, NEW m \in Nat, NEW m2 \in Nat, m <= m2,
           NEW buf, NEW bat, NEW fl, QueueTypes(n, m, buf, bat, fl)
    PROVE  QueueTypes(n2, m2, buf, bat, fl)
<1>1. \A x \in 1..m : x \in 1..m2 OBVIOUS
<1>2. \A s : Ordered(s, m) => Ordered(s, m2) BY <1>1 DEF Ordered
<1> DEFINE B == [session : 1..n, fixes : Seq(Nat)]
           B2 == [session : 1..n2, fixes : Seq(Nat)]
<1>3. \A x \in 1..n : x \in 1..n2 OBVIOUS
<1>4. \A b \in B : b \in B2 BY <1>3
<1>5. bat \in Seq(B) BY DEF QueueTypes
<1> HIDE DEF B, B2
<1>6. Len(bat) \in Nat /\ bat \in [1..Len(bat) -> B] BY <1>5, LenProperties
<1>7. bat \in [1..Len(bat) -> B2] BY <1>4, <1>6
<1>8. bat \in Seq(B2) BY <1>6, <1>7, SeqDef
<1>9. \A x \in 0..n : x \in 0..n2 OBVIOUS
<1>10. fl \in [session : 0..n2, payload : Seq(Nat)] BY <1>9 DEF QueueTypes
<1> QED BY <1>2, <1>8, <1>10 DEF QueueTypes, B2

LEMMA LocationInitially == Location!Init => LocationInv
<1> SUFFICES ASSUME Location!Init PROVE LocationInv OBVIOUS
<1>1. /\ session = 0 /\ last = 0 /\ timer = FALSE
      /\ buffer = << >> /\ batches = << >> /\ flight = Location!NoFlight
      /\ takenIn = << >> /\ uploaded = {} /\ uploadFailures = 0
    BY DEF Location!Init
<1>2. NumSessions \in Nat /\ MaxFixes \in Nat /\ MaxUploadFailures \in Nat
      /\ MaxBuffer \in Nat /\ MaxBatches \in Nat
    BY LocationAssumption
<1>3. LocationPlaces
    <2>1. takenIn \in Seq(Nat) /\ Len(takenIn) = 0 /\ Len(batches) = 0 BY <1>1
    <2>2. \A f \in 1..Len(takenIn) : takenIn[f] \in 1..last BY <2>1
    <2>3. last \in 0..NumSessions /\ uploadFailures \in 0..MaxUploadFailures BY <1>1, <1>2
    <2>4. Len(takenIn) <= MaxFixes /\ Len(batches) <= MaxBatches BY <1>2, <2>1
    <2> QED BY <1>1, <2>1, <2>2, <2>3, <2>4 DEF LocationPlaces
<1>4. QueueTypes(last, Len(takenIn), buffer, batches, flight)
    <2>1. Len(takenIn) = 0 /\ Len(batches) = 0 BY <1>1
    <2>2. batches \in Seq([session : 1..0, fixes : Seq(Nat)]) BY <1>1
    <2>3. 0 <= 2 * MaxBuffer /\ 0 <= Cap BY <1>2 DEF Cap
    <2>4. flight \in [session : 0..0, payload : Seq(Nat)] BY <1>1, NoFlightIsEmpty
    <2> QED BY <1>1, <2>1, <2>2, <2>3, <2>4, NoFlightIsEmpty, EmptyHasNone DEF QueueTypes
<1>5. QueueOrder(session, buffer, batches, flight)
    <2>1. Len(batches) = 0 BY <1>1
    <2> QED BY <1>1, <2>1, NoFlightIsEmpty, EmptyHasNone DEF QueueOrder, Below
<1> QED BY <1>1, <1>3, <1>4, <1>5 DEF LocationInv

LEMMA LocationNumbers ==
    ASSUME LocationInv
    PROVE  /\ Len(takenIn) \in Nat /\ last \in Nat /\ session \in 0..last
           /\ Len(takenIn) <= MaxFixes /\ last <= NumSessions
           /\ session # 0 => session \in 1..last
           /\ Location!taken = Len(takenIn)
           /\ MaxBuffer \in Nat \ {0} /\ MaxFixes \in Nat /\ NumSessions \in Nat
           /\ MaxBatches \in Nat \ {0}
<1>1. takenIn \in Seq(Nat) BY DEF LocationInv, LocationPlaces
<1>2. Len(takenIn) \in Nat BY <1>1, LenProperties
<1> QED BY <1>2, LocationAssumption DEF LocationInv, LocationPlaces, Location!taken

(* What the buffer is when a fix has been taken.                           *)
LEMMA TakenFix ==
    ASSUME LocationInv, session # 0,
           NEW tk, tk = Append(takenIn, session),
           NEW buf, buf = Location!LastOf(Append(buffer, Location!taken + 1), 2 * MaxBuffer)
    PROVE  /\ tk \in Seq(Nat) /\ Len(tk) = Len(takenIn) + 1
           /\ \A f \in 1..Len(tk) : tk[f] \in 1..last
           /\ QueueTypes(last, Len(tk), buf, batches, flight)
           /\ QueueOrder(session, buf, batches, flight)
           /\ Kept(session, tk, uploaded, buf, batches, flight)
<1> DEFINE m == Len(takenIn)
           more == Append(buffer, m + 1)
           c == 2 * MaxBuffer
<1>1. m \in Nat /\ last \in Nat /\ session \in 1..last /\ session \in Nat
      /\ Location!taken = m /\ c \in Nat \ {0}
    BY LocationNumbers
<1>2. /\ takenIn \in Seq(Nat) /\ \A f \in 1..m : takenIn[f] \in 1..last
    BY DEF LocationInv, LocationPlaces
<1>3. /\ tk \in Seq(Nat) /\ Len(tk) = m + 1
      /\ \A f \in 1..m : tk[f] = takenIn[f]
      /\ tk[m + 1] = session
    BY <1>1, <1>2, AppendedElements
<1>4. \A f \in 1..Len(tk) : f \in 1..m \/ f = m + 1 BY <1>1, <1>3
<1>5. \A f \in 1..Len(tk) : tk[f] \in 1..last BY <1>1, <1>2, <1>3, <1>4
<1>6. QueueTypes(last, m, buffer, batches, flight) BY DEF LocationInv
<1>7. QueueTypes(last, m + 1, buffer, batches, flight) BY <1>1, <1>6, QueueGrows
<1>8. /\ buffer \in Seq(Nat) /\ Ascends(buffer) /\ \A x \in Elements(buffer) : x \in 1..m
    BY <1>6 DEF QueueTypes, Ordered
<1>9. buf = LastOf(more, c) BY <1>1, LastOfQueue
<1>10. /\ more \in Seq(Nat) /\ Len(more) = Len(buffer) + 1
       /\ Elements(more) = Elements(buffer) \cup {m + 1}
       /\ \A i \in 1..Len(buffer) : more[i] = buffer[i]
       /\ more[Len(buffer) + 1] = m + 1
    BY <1>1, <1>8, AppendedElements
<1>11. Len(buffer) \in Nat BY <1>8, LenProperties
<1> HIDE DEF more, m
<1>12. Ascends(more)
    <2> SUFFICES ASSUME NEW i \in 1..Len(more), NEW k \in 1..Len(more), i < k
                 PROVE  more[i] < more[k]
        BY DEF Ascends
    <2>1. i \in 1..Len(buffer) BY <1>10, <1>11
    <2>2. CASE k \in 1..Len(buffer) BY <1>8, <1>10, <2>1, <2>2 DEF Ascends
    <2>3. CASE k \notin 1..Len(buffer)
        <3>1. k = Len(buffer) + 1 BY <1>10, <1>11, <2>3
        <3>2. buffer[i] \in 1..m BY <1>8, <2>1 DEF Elements
        <3>3. buffer[i] < m + 1 BY <1>1, <3>2
        <3> QED BY <1>10, <2>1, <3>1, <3>3
    <2> QED BY <2>2, <2>3
<1> HIDE DEF c
<1>13. /\ buf \in Seq(Nat) /\ Len(buf) <= c /\ Ascends(buf)
       /\ \A v \in Elements(more) : v \in Elements(buf) \/ (Len(buf) = c /\ Below(v, buf))
    <2>1. LastOf(more, c) \in Seq(Nat) /\ Len(LastOf(more, c)) <= c
        BY <1>1, <1>10, LastOfProperties
    <2>2. /\ Ascends(LastOf(more, c))
          /\ \A v \in Elements(more) :
                \/ v \in Elements(LastOf(more, c))
                \/ Len(LastOf(more, c)) = c /\ Below(v, LastOf(more, c))
        BY <1>1, <1>10, <1>12, LastOfAscends
    <2> QED BY <1>9, <2>1, <2>2
<1>14. Elements(buf) \subseteq Elements(more) BY <1>1, <1>9, <1>10, LastOfIsPart
<1>15. \A v \in Elements(buf) : v \in Elements(buffer) \/ v = m + 1 BY <1>10, <1>14
<1>16. \A x \in Elements(buf) : x \in 1..(m + 1)
    <2>1. m + 1 \in 1..(m + 1) /\ \A x \in 1..m : x \in 1..(m + 1) BY <1>1
    <2> QED BY <1>8, <1>15, <2>1
<1>17. QueueTypes(last, m + 1, buf, batches, flight)
    <2>1. Ordered(buf, m + 1) /\ Len(buf) <= 2 * MaxBuffer
        BY <1>13, <1>16 DEF Ordered, c
    <2> QED BY <1>7, <2>1 DEF QueueTypes
<1>18. QueueOrder(session, buffer, batches, flight) BY DEF LocationInv
<1>19. QueueOrder(session, buf, batches, flight)
    <2>1. \A x \in 1..m : x < m + 1 BY <1>1
    <2>2. \A x \in Elements(flight.payload) : x \in 1..m BY <1>6 DEF QueueTypes, Ordered
    <2>3. \A x \in Elements(flight.payload) : Below(x, buf)
        BY <1>15, <1>18, <2>1, <2>2 DEF QueueOrder, Below
    <2>4. ASSUME NEW i \in 1..Len(batches), Own(session, batches, i)
          PROVE  Newer(batches[i].fixes, buf)
        <3>1. Newer(batches[i].fixes, buffer) BY <1>18, <2>4 DEF QueueOrder
        <3>2. \A x \in Elements(batches[i].fixes) : x < m + 1
            BY <1>6, <2>1 DEF QueueTypes, Ordered
        <3> QED BY <1>15, <3>1, <3>2 DEF Newer
    <2> QED BY <1>18, <2>3, <2>4 DEF QueueOrder
<1>20. ASSUME NEW f \in 1..(m + 1), f \in Elements(more)
       PROVE  KeptFix(f, session, tk, uploaded, buf, batches, flight)
    <2>1. CASE f \in Elements(buf) BY <2>1 DEF KeptFix
    <2>2. CASE Len(buf) = c /\ Below(f, buf)
        <3>1. \A x \in Elements(buf) : x <= m + 1 BY <1>16
        <3>2. f \in Nat /\ m + 1 \in Nat /\ f <= m + 1 BY <1>1
        <3>3. f + Len(buf) <= m + 1 BY <1>13, <2>2, <3>1, <3>2, Crowded
        <3>4. Len(tk) - f >= c BY <1>1, <1>3, <2>2, <3>2, <3>3
        <3> QED BY <3>4 DEF KeptFix, c
    <2> QED BY <1>13, <1>20, <2>1, <2>2
<1>21. ASSUME NEW f \in 1..Len(tk), tk[f] = session
       PROVE  KeptFix(f, session, tk, uploaded, buf, batches, flight)
    <2>0. f \in 1..(m + 1) BY <1>3
    <2>1. CASE f = m + 1 BY <1>10, <1>20, <2>0, <2>1
    <2>2. CASE f \in 1..m
        <3>1. takenIn[f] = session BY <1>3, <1>21, <2>2
        <3>2. KeptFix(f, session, takenIn, uploaded, buffer, batches, flight)
            BY <2>2, <3>1 DEF LocationInv, Kept, m
        <3>3. CASE f \in Elements(buffer) BY <1>10, <1>20, <2>0, <3>3
        <3>4. CASE Len(takenIn) - f >= 2 * MaxBuffer
            <4>1. Len(tk) - f >= 2 * MaxBuffer
                <5>1. m - f >= c /\ f \in Int BY <3>4 DEF m, c
                <5>2. Len(tk) - f >= c BY <1>1, <1>3, <5>1
                <5> QED BY <5>2 DEF c
            <4> QED BY <4>1 DEF KeptFix
        <3> QED BY <3>2, <3>3, <3>4 DEF KeptFix
    <2> QED BY <1>4, <2>1, <2>2
<1>22. Kept(session, tk, uploaded, buf, batches, flight) BY <1>21 DEF Kept
<1> QED BY <1>3, <1>5, <1>17, <1>19, <1>22 DEF m

(* A flush for no session drops the buffer, and a later one starts anew.   *)
LEMMA FlushForNone ==
    ASSUME NEW n \in Nat, NEW m \in Nat, NEW ses,
           QueueTypes(n, m, buffer, batches, flight), Location!Flush(0, buffer)
    PROVE  /\ QueueTypes(n, m, buffer', batches', flight')
           /\ QueueOrder(ses, buffer, batches, flight) =>
                 QueueOrder(ses, buffer', batches', flight')
           /\ Len(batches') <= Len(batches)
<1>1. /\ batches' = batches /\ flight' = flight
      /\ buffer' = buffer \/ buffer' = << >>
    BY DEF Location!Flush
<1>2. Len(batches) \in Nat BY LenProperties DEF QueueTypes
<1>3. Len(batches) <= Len(batches) BY <1>2
<1>4. CASE buffer' = buffer BY <1>1, <1>3, <1>4
<1>5. CASE buffer' = << >>
    <2>1. MaxBuffer \in Nat BY LocationAssumption
    <2>2. Ordered(buffer', m) /\ Len(buffer') <= 2 * MaxBuffer BY <1>5, <2>1, EmptyHasNone
    <2>3. QueueTypes(n, m, buffer', batches', flight') BY <1>1, <2>2 DEF QueueTypes
    <2>4. Elements(buffer') = {} BY <1>5, EmptyHasNone
    <2>5. ASSUME QueueOrder(ses, buffer, batches, flight)
          PROVE  QueueOrder(ses, buffer', batches', flight')
        <3>1. \A x \in Elements(flight.payload) : Below(x, buffer') BY <2>4 DEF Below
        <3>2. \A i \in 1..Len(batches) : Newer(batches[i].fixes, buffer') BY <2>4 DEF Newer
        <3> QED BY <1>1, <2>5, <3>1, <3>2 DEF QueueOrder
    <2> QED BY <1>1, <1>3, <2>3, <2>5
<1> QED BY <1>1, <1>4, <1>5

(* Each step keeps the invariant.                                          *)
LEMMA TakeKeeps ==
    ASSUME LocationInv, NEW force \in BOOLEAN, Location!Take(force)
    PROVE  LocationInv'
<1> DEFINE tk == Append(takenIn, session)
           buf == Location!LastOf(Append(buffer, Location!taken + 1), 2 * MaxBuffer)
<1>1. /\ session # 0 /\ Location!taken < MaxFixes
      /\ takenIn' = tk
      /\ \/ Location!Flush(session, buf) /\ timer' = FALSE
         \/ buffer' = buf /\ timer' = TRUE /\ UNCHANGED << batches, flight >>
      /\ UNCHANGED << session, last, uploaded, uploadFailures >>
    BY DEF Location!Take
<1>2. /\ tk \in Seq(Nat) /\ Len(tk) = Len(takenIn) + 1
      /\ \A f \in 1..Len(tk) : tk[f] \in 1..last
      /\ QueueTypes(last, Len(tk), buf, batches, flight)
      /\ QueueOrder(session, buf, batches, flight)
      /\ Kept(session, tk, uploaded, buf, batches, flight)
    BY <1>1, TakenFix
<1> HIDE DEF tk, buf
<1>3. last \in Nat /\ session \in 1..last /\ Len(takenIn) < MaxFixes
      /\ Len(takenIn) \in Nat /\ MaxFixes \in Nat /\ MaxBatches \in Nat
    BY <1>1, LocationNumbers
<1>4. /\ QueueTypes(last, Len(tk), buffer', batches', flight')
      /\ QueueOrder(session, buffer', batches', flight')
      /\ Kept(session, tk, uploaded, buffer', batches', flight')
      /\ Len(batches') <= Len(batches)
    <2>1. CASE Location!Flush(session, buf) BY <1>2, <1>3, <2>1, FlushKeeps
    <2>2. CASE buffer' = buf /\ timer' = TRUE /\ UNCHANGED << batches, flight >>
        <3>1. Len(batches) \in Nat BY <1>2, LenProperties DEF QueueTypes
        <3>2. Len(batches) <= Len(batches) BY <3>1
        <3> QED BY <1>2, <2>2, <3>2
    <2> QED BY <1>1, <2>1, <2>2
<1>5. Len(batches') <= MaxBatches
    <2>1. Len(batches) \in Nat /\ Len(batches') \in Nat
        BY <1>2, <1>4, LenProperties DEF QueueTypes
    <2>2. Len(batches) <= MaxBatches BY DEF LocationInv, LocationPlaces
    <2> QED BY <1>3, <1>4, <2>1, <2>2
<1>6. LocationPlaces'
    <2>1. timer' \in BOOLEAN BY <1>1
    <2>2. Len(takenIn') <= MaxFixes BY <1>1, <1>2, <1>3
    <2> QED BY <1>1, <1>2, <1>5, <2>1, <2>2 DEF LocationInv, LocationPlaces,
           Location!Sessions, Location!Fixes
<1> QED BY <1>1, <1>4, <1>6 DEF LocationInv

LEMMA TimerKeeps ==
    ASSUME LocationInv, Location!TimerFires
    PROVE  LocationInv'
<1>1. /\ timer' = FALSE /\ Location!Flush(session, buffer)
      /\ UNCHANGED << session, last, takenIn, uploaded, uploadFailures >>
    BY DEF Location!TimerFires
<1>2. last \in Nat /\ session \in 0..last /\ MaxBatches \in Nat /\ takenIn \in Seq(Nat)
    BY LocationNumbers DEF LocationInv, LocationPlaces
<1>3. /\ QueueTypes(last, Len(takenIn), buffer, batches, flight)
      /\ QueueOrder(session, buffer, batches, flight)
      /\ session # 0 => Kept(session, takenIn, uploaded, buffer, batches, flight)
    BY DEF LocationInv
<1>4. /\ QueueTypes(last, Len(takenIn), buffer', batches', flight')
      /\ QueueOrder(session, buffer', batches', flight')
      /\ session # 0 => Kept(session, takenIn, uploaded, buffer', batches', flight')
      /\ Len(batches') <= Len(batches)
    <2>1. CASE session # 0
        <3>1. session \in 1..last BY <1>2, <2>1
        <3> QED BY <1>1, <1>2, <1>3, <2>1, <3>1, FlushKeeps
    <2>2. CASE session = 0
        <3>1. Location!Flush(0, buffer) BY <1>1, <2>2
        <3> QED BY <1>2, <1>3, <2>2, <3>1, FlushForNone
    <2> QED BY <2>1, <2>2
<1>5. Len(batches') <= MaxBatches
    <2>1. Len(batches) \in Nat /\ Len(batches') \in Nat
        BY <1>3, <1>4, LenProperties DEF QueueTypes
    <2>2. Len(batches) <= MaxBatches BY DEF LocationInv, LocationPlaces
    <2> QED BY <1>2, <1>4, <2>1, <2>2
<1>6. LocationPlaces'
    BY <1>1, <1>5 DEF LocationInv, LocationPlaces, Location!Sessions, Location!Fixes
<1> QED BY <1>1, <1>4, <1>6 DEF LocationInv

-----------------------------------------------------------------------------
LEMMA ToSetIsElements ==
    ASSUME NEW S, NEW s \in Seq(S)
    PROVE  Location!ToSet(s) = Elements(s)
<1>1. DOMAIN s = 1..Len(s) BY LenProperties
<1> QED BY <1>1 DEF Location!ToSet, Elements

LEMMA KeptGrows ==
    ASSUME NEW ses, NEW tk, NEW up, NEW up2, up \subseteq up2, NEW buf, NEW bat, NEW fl,
           Kept(ses, tk, up, buf, bat, fl)
    PROVE  Kept(ses, tk, up2, buf, bat, fl)
<1>1. \A f : KeptFix(f, ses, tk, up, buf, bat, fl) => KeptFix(f, ses, tk, up2, buf, bat, fl)
    BY DEF KeptFix
<1> QED BY <1>1 DEF Kept

(* What the server has of an upload.                                       *)
UploadRecords == {[session |-> flight.session, fix |-> f] : f \in Location!ToSet(flight.payload)}
LEMMA UploadTyped ==
    ASSUME LocationInv, flight # Location!NoFlight
    PROVE  /\ UploadRecords \subseteq [session : Location!Sessions, fix : Location!Fixes]
           /\ \A f \in Elements(flight.payload) :
                 [session |-> flight.session, fix |-> f] \in UploadRecords
<1>1. QueueTypes(last, Len(takenIn), buffer, batches, flight) BY DEF LocationInv
<1>2. /\ flight.payload \in Seq(Nat) /\ flight.session \in 0..last /\ flight.session # 0
      /\ \A x \in Elements(flight.payload) : x \in 1..Len(takenIn)
    BY <1>1 DEF QueueTypes, Ordered
<1>3. Location!ToSet(flight.payload) = Elements(flight.payload) BY <1>2, ToSetIsElements
<1>4. last \in Nat /\ Len(takenIn) \in Nat /\ Len(takenIn) <= MaxFixes /\ last <= NumSessions
      /\ MaxFixes \in Nat /\ NumSessions \in Nat
    BY LocationNumbers
<1>5. flight.session \in Location!Sessions BY <1>2, <1>4 DEF Location!Sessions
<1>6. \A x \in 1..Len(takenIn) : x \in Location!Fixes BY <1>4 DEF Location!Fixes
<1> QED BY <1>2, <1>3, <1>5, <1>6 DEF UploadRecords

LEMMA SuccessKeeps ==
    ASSUME LocationInv, Location!UploadSucceeds
    PROVE  LocationInv'
<1>1. /\ flight # Location!NoFlight
      /\ uploaded' = uploaded \cup UploadRecords
      /\ flight' = Location!NoFlight
      /\ UNCHANGED << session, last, buffer, batches, timer, takenIn, uploadFailures >>
    BY DEF Location!UploadSucceeds, UploadRecords
<1>2. QueueTypes(last, Len(takenIn), buffer, batches, flight)
      /\ QueueOrder(session, buffer, batches, flight)
    BY DEF LocationInv
<1>3. last \in Nat /\ 0 <= Cap
    BY LocationNumbers DEF Cap
<1>4. QueueTypes(last, Len(takenIn), buffer, batches, Location!NoFlight)
    <2>1. Location!NoFlight \in [session : 0..last, payload : Seq(Nat)]
        <3>1. 0 \in 0..last BY <1>3
        <3> QED BY <3>1, NoFlightIsEmpty
    <2>2. Ordered(Location!NoFlight.payload, Len(takenIn)) /\ Len(Location!NoFlight.payload) <= Cap
        BY <1>3, NoFlightIsEmpty, EmptyHasNone
    <2> QED BY <1>2, <2>1, <2>2 DEF QueueTypes
<1>5. QueueOrder(session, buffer, batches, Location!NoFlight)
    <2>1. Elements(Location!NoFlight.payload) = {} BY NoFlightIsEmpty, EmptyHasNone
    <2> QED BY <1>2, <2>1 DEF QueueOrder
<1>6. ASSUME session # 0
      PROVE  Kept(session, takenIn, uploaded', buffer, batches, Location!NoFlight)
    <2> SUFFICES ASSUME NEW f \in 1..Len(takenIn), takenIn[f] = session
                 PROVE  KeptFix(f, session, takenIn, uploaded', buffer, batches, Location!NoFlight)
        BY DEF Kept
    <2>1. KeptFix(f, session, takenIn, uploaded, buffer, batches, flight)
        BY <1>6 DEF LocationInv, Kept
    <2>2. CASE flight.session = session /\ f \in Elements(flight.payload)
        <3>1. [session |-> flight.session, fix |-> f] \in UploadRecords
            BY <1>1, <2>2, UploadTyped
        <3>2. [session |-> session, fix |-> f] \in uploaded' BY <1>1, <2>2, <3>1
        <3> QED BY <3>2 DEF KeptFix
    <2>3. CASE ~(flight.session = session /\ f \in Elements(flight.payload))
        BY <1>1, <2>1, <2>3 DEF KeptFix
    <2> QED BY <2>2, <2>3
<1>7. LocationPlaces'
    <2>1. UploadRecords \subseteq [session : Location!Sessions, fix : Location!Fixes]
        BY <1>1, UploadTyped
    <2> QED BY <1>1, <2>1 DEF LocationInv, LocationPlaces, Location!Sessions, Location!Fixes
<1> QED BY <1>1, <1>4, <1>5, <1>6, <1>7 DEF LocationInv

LEMMA FailureKeeps ==
    ASSUME LocationInv, Location!UploadFails
    PROVE  LocationInv'
<1>1. /\ flight # Location!NoFlight /\ uploadFailures < MaxUploadFailures
      /\ uploadFailures' = uploadFailures + 1
      /\ uploaded' = uploaded \/ uploaded' = uploaded \cup UploadRecords
      /\ Location!PutBack /\ timer' = TRUE
      /\ UNCHANGED << session, last, takenIn >>
    BY DEF Location!UploadFails, Location!PutBack, UploadRecords
<1>2. /\ QueueTypes(last, Len(takenIn), buffer, batches, flight)
      /\ QueueOrder(session, buffer, batches, flight)
      /\ session # 0 => Kept(session, takenIn, uploaded, buffer, batches, flight)
      /\ takenIn \in Seq(Nat)
    BY DEF LocationInv, LocationPlaces
<1>3. last \in Nat /\ session \in 0..last BY LocationNumbers
<1>4. Kept(session, takenIn, uploaded, buffer, batches, flight)
    <2>1. CASE session # 0 BY <1>2, <2>1
    <2>2. CASE session = 0
        <3>1. \A f \in 1..Len(takenIn) : takenIn[f] \in 1..last
            BY DEF LocationInv, LocationPlaces
        <3>2. \A x \in 1..last : x # 0 BY <1>3
        <3> QED BY <2>2, <3>1, <3>2 DEF Kept
    <2> QED BY <2>1, <2>2
<1>5. /\ QueueTypes(last, Len(takenIn), buffer', batches', flight')
      /\ QueueOrder(session, buffer', batches', flight')
      /\ session # 0 => Kept(session, takenIn, uploaded, buffer', batches', flight')
      /\ Len(batches') <= MaxBatches
    BY <1>1, <1>2, <1>3, <1>4, PutBackKeeps
<1>6. session # 0 => Kept(session, takenIn, uploaded', buffer', batches', flight')
    <2>1. uploaded \subseteq uploaded' BY <1>1
    <2> QED BY <1>5, <2>1, KeptGrows
<1>7. LocationPlaces'
    <2>1. UploadRecords \subseteq [session : Location!Sessions, fix : Location!Fixes]
        BY <1>1, UploadTyped
    <2>2. uploaded' \subseteq [session : Location!Sessions, fix : Location!Fixes]
        BY <1>1, <2>1 DEF LocationInv, LocationPlaces
    <2>3. uploadFailures' \in 0..MaxUploadFailures
        BY <1>1, LocationAssumption DEF LocationInv, LocationPlaces
    <2> QED BY <1>1, <1>5, <2>2, <2>3
        DEF LocationInv, LocationPlaces, Location!Sessions, Location!Fixes
<1> QED BY <1>1, <1>5, <1>6, <1>7 DEF LocationInv

(* A session that begins has no fix, no batch and no upload yet.           *)
LEMMA NewSessionHasNone ==
    ASSUME LocationInv
    PROVE  /\ QueueTypes(last + 1, Len(takenIn), buffer, batches, flight)
           /\ QueueOrder(last + 1, buffer, batches, flight)
           /\ Kept(last + 1, takenIn, uploaded, buffer, batches, flight)
<1>1. last \in Nat /\ Len(takenIn) \in Nat BY LocationNumbers
<1>2. /\ QueueTypes(last, Len(takenIn), buffer, batches, flight)
      /\ QueueOrder(session, buffer, batches, flight)
      /\ \A f \in 1..Len(takenIn) : takenIn[f] \in 1..last
    BY DEF LocationInv, LocationPlaces
<1>3. QueueTypes(last + 1, Len(takenIn), buffer, batches, flight)
    BY <1>1, <1>2, QueueGrows
<1>4. \A x \in 1..last : x # last + 1 BY <1>1
<1>5. \A i \in 1..Len(batches) : ~Own(last + 1, batches, i)
    <2> SUFFICES ASSUME NEW i \in 1..Len(batches) PROVE batches[i].session # last + 1
        BY DEF Own
    <2>1. batches \in Seq([session : 1..last, fixes : Seq(Nat)]) BY <1>2 DEF QueueTypes
    <2>2. batches[i] \in [session : 1..last, fixes : Seq(Nat)] BY <2>1, ElementOfSeq
    <2> QED BY <1>4, <2>2
<1>6. QueueOrder(last + 1, buffer, batches, flight) BY <1>2, <1>5 DEF QueueOrder
<1>7. Kept(last + 1, takenIn, uploaded, buffer, batches, flight) BY <1>2, <1>4 DEF Kept
<1> QED BY <1>3, <1>6, <1>7

LEMMA StartKeeps ==
    ASSUME LocationInv, Location!StartSession
    PROVE  LocationInv'
<1>1. /\ last < NumSessions /\ session' = last + 1 /\ last' = last + 1
      /\ UNCHANGED << buffer, batches, flight, timer, takenIn, uploaded, uploadFailures >>
    BY DEF Location!StartSession
<1>2. last \in Nat /\ NumSessions \in Nat BY LocationNumbers
<1>3. /\ QueueTypes(last', Len(takenIn'), buffer', batches', flight')
      /\ QueueOrder(session', buffer', batches', flight')
      /\ Kept(session', takenIn', uploaded', buffer', batches', flight')
    BY <1>1, NewSessionHasNone
<1>4. LocationPlaces'
    <2>1. \A x \in 1..last : x \in 1..(last + 1) BY <1>2
    <2>2. last' \in 0..NumSessions /\ session' \in {0, last'} BY <1>1, <1>2
    <2> QED BY <1>1, <2>1, <2>2
        DEF LocationInv, LocationPlaces, Location!Sessions, Location!Fixes
<1> QED BY <1>3, <1>4 DEF LocationInv

LEMMA EndKeeps ==
    ASSUME LocationInv, Location!EndSession
    PROVE  LocationInv'
<1>1. /\ session' = 0 /\ timer' = FALSE /\ Location!Flush(0, buffer)
      /\ UNCHANGED << last, takenIn, uploaded, uploadFailures >>
    BY DEF Location!EndSession
<1>2. last \in Nat /\ Len(takenIn) \in Nat /\ MaxBatches \in Nat BY LocationNumbers
<1>3. QueueTypes(last, Len(takenIn), buffer, batches, flight) BY DEF LocationInv
<1>4. QueueOrder(0, buffer, batches, flight)
    <2>1. \A i \in 1..Len(batches) : ~Own(0, batches, i)
        <3> SUFFICES ASSUME NEW i \in 1..Len(batches) PROVE batches[i].session # 0 BY DEF Own
        <3>1. batches \in Seq([session : 1..last, fixes : Seq(Nat)]) BY <1>3 DEF QueueTypes
        <3>2. batches[i] \in [session : 1..last, fixes : Seq(Nat)] BY <3>1, ElementOfSeq
        <3>3. \A x \in 1..last : x # 0 BY <1>2
        <3> QED BY <3>2, <3>3
    <2> QED BY <2>1 DEF LocationInv, QueueOrder
<1>5. /\ QueueTypes(last, Len(takenIn), buffer', batches', flight')
      /\ QueueOrder(0, buffer', batches', flight')
      /\ Len(batches') <= Len(batches)
    BY <1>1, <1>2, <1>3, <1>4, FlushForNone
<1>6. Len(batches') <= MaxBatches
    <2>1. Len(batches) \in Nat /\ Len(batches') \in Nat
        BY <1>3, <1>5, LenProperties DEF QueueTypes
    <2>2. Len(batches) <= MaxBatches BY DEF LocationInv, LocationPlaces
    <2> QED BY <1>2, <1>5, <2>1, <2>2
<1>7. LocationPlaces'
    BY <1>1, <1>6 DEF LocationInv, LocationPlaces, Location!Sessions, Location!Fixes
<1> QED BY <1>1, <1>5, <1>7 DEF LocationInv

LEMMA SwitchKeeps ==
    ASSUME LocationInv, Location!SwitchSession
    PROVE  LocationInv'
<1>1. /\ last < NumSessions /\ session' = last + 1 /\ last' = last + 1 /\ timer' = FALSE
      /\ Location!Flush(last + 1, buffer)
      /\ UNCHANGED << takenIn, uploaded, uploadFailures >>
    BY DEF Location!SwitchSession
<1>2. last \in Nat /\ NumSessions \in Nat /\ MaxBatches \in Nat /\ takenIn \in Seq(Nat)
    BY LocationNumbers DEF LocationInv, LocationPlaces
<1>3. last + 1 \in Nat /\ last + 1 \in 1..(last + 1) BY <1>2
<1>4. /\ QueueTypes(last + 1, Len(takenIn), buffer, batches, flight)
      /\ QueueOrder(last + 1, buffer, batches, flight)
      /\ Kept(last + 1, takenIn, uploaded, buffer, batches, flight)
    BY NewSessionHasNone
<1>5. /\ QueueTypes(last + 1, Len(takenIn), buffer', batches', flight')
      /\ QueueOrder(last + 1, buffer', batches', flight')
      /\ Kept(last + 1, takenIn, uploaded, buffer', batches', flight')
      /\ Len(batches') <= Len(batches)
    BY <1>1, <1>2, <1>3, <1>4, FlushKeeps
<1>6. Len(batches') <= MaxBatches
    <2>1. Len(batches) \in Nat /\ Len(batches') \in Nat
        BY <1>4, <1>5, LenProperties DEF QueueTypes
    <2>2. Len(batches) <= MaxBatches BY DEF LocationInv, LocationPlaces
    <2> QED BY <1>2, <1>5, <2>1, <2>2
<1>7. LocationPlaces'
    <2>1. \A x \in 1..last : x \in 1..(last + 1) BY <1>2
    <2>2. last' \in 0..NumSessions /\ session' \in {0, last'} BY <1>1, <1>2
    <2> QED BY <1>1, <1>6, <2>1, <2>2
        DEF LocationInv, LocationPlaces, Location!Sessions, Location!Fixes
<1> QED BY <1>1, <1>5, <1>7 DEF LocationInv

LEMMA LocationStep == LocationInv /\ [Location!Next]_(Location!vars) => LocationInv'
<1> SUFFICES ASSUME LocationInv, [Location!Next]_(Location!vars) PROVE LocationInv'
    OBVIOUS
<1>1. CASE \E force \in BOOLEAN : Location!Take(force) BY <1>1, TakeKeeps
<1>2. CASE Location!TimerFires BY <1>2, TimerKeeps
<1>3. CASE Location!UploadSucceeds BY <1>3, SuccessKeeps
<1>4. CASE Location!UploadFails BY <1>4, FailureKeeps
<1>5. CASE Location!StartSession BY <1>5, StartKeeps
<1>6. CASE Location!EndSession BY <1>6, EndKeeps
<1>7. CASE Location!SwitchSession BY <1>7, SwitchKeeps
<1>8. CASE UNCHANGED Location!vars
    BY <1>8 DEF Location!vars, LocationInv, LocationPlaces, Location!Sessions, Location!Fixes
<1> QED BY <1>1, <1>2, <1>3, <1>4, <1>5, <1>6, <1>7, <1>8 DEF Location!Next

(* The upload queue stays in the invariant.                                *)
LEMMA LocationInductive == ProgressSpec => []LocationInv
<1>1. ProgressInit => LocationInv BY LocationInitially DEF ProgressInit
<1>2. [ProgressNext]_<< part, vars, locationVars, broadcastVars >> =>
          [Location!Next]_(Location!vars)
    BY DEF ProgressNext, FanoutNext, LocationNext, BroadcastNext, locationVars, Location!vars
<1>3. LocationInv /\ [ProgressNext]_<< part, vars, locationVars, broadcastVars >> => LocationInv'
    BY <1>2, LocationStep
<1> QED BY <1>1, <1>3, PTL DEF ProgressSpec

LEMMA LocationTyped == LocationInv => Location!TypeOK
<1> SUFFICES ASSUME LocationInv PROVE Location!TypeOK OBVIOUS
<1>1. /\ Len(takenIn) \in Nat /\ last \in Nat /\ session \in 0..last
      /\ Len(takenIn) <= MaxFixes /\ last <= NumSessions
      /\ MaxFixes \in Nat /\ NumSessions \in Nat
    BY LocationNumbers
<1>2. /\ Ordered(buffer, Len(takenIn)) /\ Len(buffer) <= 2 * MaxBuffer
      /\ \A i \in 1..Len(batches) : Len(batches[i].fixes) <= Cap
      /\ flight.session \in 0..last /\ Len(flight.payload) <= Cap
    BY DEF LocationInv, QueueTypes
<1>3. Location!ToSet(buffer) \subseteq Location!Fixes
    <2>1. Location!ToSet(buffer) = Elements(buffer) BY <1>2, ToSetIsElements DEF Ordered
    <2>2. \A x \in 1..Len(takenIn) : x \in Location!Fixes BY <1>1 DEF Location!Fixes
    <2> QED BY <1>2, <2>1, <2>2 DEF Ordered
<1>4. Location!ToSet(takenIn) \subseteq Location!Sessions
    <2>1. Location!ToSet(takenIn) = Elements(takenIn)
        BY ToSetIsElements DEF LocationInv, LocationPlaces
    <2>2. \A x \in 1..last : x \in Location!Sessions BY <1>1 DEF Location!Sessions
    <2>3. \A f \in 1..Len(takenIn) : takenIn[f] \in 1..last BY DEF LocationInv, LocationPlaces
    <2> QED BY <2>1, <2>2, <2>3 DEF Elements
<1>5. \A x \in 0..last : x \in {0} \cup Location!Sessions BY <1>1 DEF Location!Sessions
<1>6. last \in 0..last BY <1>1
<1> QED BY <1>1, <1>2, <1>3, <1>4, <1>5, <1>6
    DEF LocationInv, LocationPlaces, Location!TypeOK, Cap

LEMMA LocationForgetsNone == LocationInv => Location!NothingForgotten
<1> SUFFICES ASSUME LocationInv, NEW f \in 1..Location!taken, takenIn[f] = session
             PROVE  Location!Uploaded(f) \/ Location!OnThePhone(f) \/ Location!Displaced(f)
    BY DEF Location!NothingForgotten
<1>1. Location!taken = Len(takenIn) /\ Len(takenIn) \in Nat /\ last \in Nat
    BY LocationNumbers
<1>2. session # 0
    <2>1. takenIn[f] \in 1..last BY <1>1 DEF LocationInv, LocationPlaces
    <2> QED BY <1>1, <2>1
<1>3. KeptFix(f, session, takenIn, uploaded, buffer, batches, flight)
    BY <1>1, <1>2 DEF LocationInv, Kept
<1>4. QueueTypes(last, Len(takenIn), buffer, batches, flight)
      /\ QueueOrder(session, buffer, batches, flight)
    BY DEF LocationInv
<1>5. /\ buffer \in Seq(Nat) /\ flight.payload \in Seq(Nat)
      /\ Location!ToSet(buffer) = Elements(buffer)
      /\ Location!ToSet(flight.payload) = Elements(flight.payload)
    BY <1>4, ToSetIsElements DEF QueueTypes, Ordered
<1>6. /\ Location!PutByFixes(session) \in Seq(Nat)
      /\ \A v : v \in Elements(Location!PutByFixes(session)) <=>
             \E i \in 1..Len(batches) :
                 Own(session, batches, i) /\ v \in Elements(batches[i].fixes)
    BY <1>1, <1>4, PutByFixesProperties
<1>7. Location!ToSet(Location!PutByFixes(session)) = Elements(Location!PutByFixes(session))
    BY <1>6, ToSetIsElements
<1>8. CASE WaitsInBatch(f, session, batches)
    <2>1. f \in Location!ToSet(Location!PutByFixes(session))
        BY <1>6, <1>7, <1>8 DEF WaitsInBatch
    <2> QED BY <2>1 DEF Location!OnThePhone
<1>9. CASE f \in Elements(buffer) \/ f \in Elements(flight.payload)
    BY <1>5, <1>9 DEF Location!OnThePhone
<1>10. CASE [session |-> session, fix |-> f] \in uploaded BY <1>10 DEF Location!Uploaded
<1>11. CASE Len(takenIn) - f >= 2 * MaxBuffer BY <1>1, <1>11 DEF Location!Displaced
<1> QED BY <1>3, <1>8, <1>9, <1>10, <1>11 DEF KeptFix

-----------------------------------------------------------------------------
(* The types of every part: no job starts more often than its attempts and *)
(* stalls allow, no request carries more than four times the buffer, and   *)
(* the broadcasts under way have no more connections than there are.       *)
THEOREM ProgressTypesCorrect == ProgressSpec => []ProgressTypes
<1>1. ProgressSpec => []TypeOK BY FanoutShown, FanoutTypeCorrect, PTL
<1>2. TypeOK /\ LocationInv /\ BroadcastInv => ProgressTypes
    BY LocationTyped, BroadcastTyped DEF ProgressTypes
<1> QED BY <1>1, <1>2, LocationInductive, BroadcastInductive, PTL

(* No failed upload and no fix taken during one loses a fix of the session *)
(* until twice the buffer has been taken since, and a broadcast that was   *)
(* made exists once per key, with every delivery and its audit row.        *)
THEOREM NothingLost == ProgressSpec => []NothingIsLost
<1>1. LocationInv /\ BroadcastInv => NothingIsLost
    BY LocationForgetsNone DEF NothingIsLost, BroadcastInv, Written
<1> QED BY <1>1, LocationInductive, BroadcastInductive, PTL
=============================================================================
