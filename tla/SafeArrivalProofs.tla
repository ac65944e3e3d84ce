-------------------------- MODULE SafeArrivalProofs --------------------------
(***************************************************************************)
(* Proofs about SafeArrival, for any set of journeys, of recipients and of *)
(* overlapping sweeps, and any durations longer than the window.           *)
(***************************************************************************)
EXTENDS SafeArrival, TLAPS

(* What a person can have been told, given how the journey stands.         *)
ToldByStatus ==
    \A j \in Journeys :
        /\ journey[j].status \in {"none", "active", "cancelled"} =>
              \A p \in People : told[j][p] = << >>
        /\ journey[j].status = "arrived" =>
              /\ told[j][Owner] = << >>
              /\ \A p \in Recipients : told[j][p] = << "arrived" >>
        /\ journey[j].status = "expired" =>
              \A p \in People : \A i \in 1..Len(told[j][p]) : told[j][p][i] # "arrived"

(* Sweeps only have notifications left for journeys that expired.          *)
PendingExpired ==
    \A s \in Sweeps, j \in Journeys, p \in People :
        << j, p >> \in pending[s] => journey[j].status = "expired"

(* The two columns of the row summarise the run of fixes inside.           *)
CountIsRun ==
    \A j \in Journeys :
        /\ journey[j].status \in {"none", "active"} =>
              \/ journey[j].count = 0 /\ journey[j].since = Null /\ run[j] = << >>
              \/ /\ journey[j].count = 1
                 /\ run[j] # << >>
                 /\ journey[j].since = run[j][1]
                 /\ run[j][1] <= now
        /\ journey[j].count = 2 =>
              \E i, k \in 1..Len(run[j]) : i < k /\ run[j][k] - run[j][i] <= Window

IInv == TypeOK /\ ToldByStatus /\ PendingExpired /\ ExpiryToldOnce
        /\ RequestStands /\ CountIsRun

-----------------------------------------------------------------------------
LEMMA NullAssumption == Null \in Nat /\ Null \notin 0..Horizon /\ Null \in Times
BY TimeAssumption DEF Null, Times

(* The writes of recordLocation keep a row a row.                          *)
LEMMA RowWrites ==
    ASSUME NEW row \in JourneyRows, NEW count \in 0..2, NEW since \in Times
    PROVE  /\ [row EXCEPT !.count = count, !.since = since] \in JourneyRows
           /\ [row EXCEPT !.status = "arrived", !.count = count] \in JourneyRows
BY DEF JourneyRows

LEMMA FirstInRange ==
    ASSUME NEW times \in Seq(0..Horizon), times # << >>
    PROVE  times[1] \in 0..Horizon
BY TimeAssumption

LEMMA InitIInv == Init => IInv
<1> SUFFICES ASSUME Init PROVE IInv
    OBVIOUS
<1>1. TypeOK
    <2>1. NoJourney \in JourneyRows
        BY BoundAssumption, NullAssumption DEF NoJourney, JourneyRows
    <2>2. << >> \in Seq(0..Horizon) /\ << >> \in Seq(Messages)
        OBVIOUS
    <2>3. QED
        BY <2>1, <2>2, TimeAssumption, BoundAssumption DEF Init, TypeOK
<1>2. ToldByStatus /\ PendingExpired /\ RequestStands /\ CountIsRun
    BY DEF Init, ToldByStatus, PendingExpired, RequestStands, CountIsRun, NoJourney
<1>3. ExpiryToldOnce
    BY DEF Init, ExpiryToldOnce, Unconfirmed, PendingFor
<1>4. QED
    BY <1>1, <1>2, <1>3 DEF IInv

(* The notifications of one transaction, person by person.                 *)
LEMMA RecipientsHear ==
    ASSUME TypeOK, NEW j \in Journeys, NEW message \in Messages,
           NotifyRecipients(j, message)
    PROVE  /\ told' \in [Journeys -> [People -> Seq(Messages)]]
           /\ \A k \in Journeys : k # j => told'[k] = told[k]
           /\ told'[j][Owner] = told[j][Owner]
           /\ \A p \in Recipients : told'[j][p] = Append(told[j][p], message)
<1>1. told[j] \in [People -> Seq(Messages)]
    BY DEF TypeOK
<1>2. \A p \in People : Append(told[j][p], message) \in Seq(Messages)
    BY <1>1
<1>3. told'[j] = [p \in People |->
          IF p \in Recipients THEN Append(told[j][p], message) ELSE told[j][p]]
    BY DEF NotifyRecipients, TypeOK
<1>4. told'[j] \in [People -> Seq(Messages)]
    BY <1>1, <1>2, <1>3
<1>5. QED
    BY <1>3, <1>4, OwnerAssumption DEF NotifyRecipients, TypeOK, People

-----------------------------------------------------------------------------
(* The steps that only write the row and tell nobody.                      *)

LEMMA QuietStep ==
    ASSUME IInv, NEW j \in Journeys, NEW row \in JourneyRows,
           journey' = [journey EXCEPT ![j] = row],
           journey[j].status \in {"none", "active"},
           row.status \in {"active", "cancelled"},
           row.asked = FALSE, row.count < 2, row.checkIns = journey[j].checkIns,
           UNCHANGED << told, pending >>
    PROVE  ToldByStatus' /\ PendingExpired' /\ ExpiryToldOnce' /\ RequestStands'
<1>1. \A k \in Journeys : journey'[k] = IF k = j THEN row ELSE journey[k]
    BY DEF IInv, TypeOK
<1>2. ToldByStatus'
    BY <1>1 DEF IInv, ToldByStatus
<1>3. PendingExpired'
    BY <1>1 DEF IInv, PendingExpired
<1>4. RequestStands'
    BY <1>1 DEF IInv, RequestStands
<1>5. ExpiryToldOnce'
    <2>1. \A p \in People : Unconfirmed(j, p) = {} /\ PendingFor(j, p) = {}
        BY DEF IInv, ExpiryToldOnce
    <2>2. \A k \in Journeys, p \in People :
              Unconfirmed(k, p)' = Unconfirmed(k, p) /\ PendingFor(k, p)' = PendingFor(k, p)
        BY DEF Unconfirmed, PendingFor
    <2>3. QED
        BY <1>1, <2>1, <2>2 DEF IInv, ExpiryToldOnce
<1>6. QED
    BY <1>2, <1>3, <1>4, <1>5

LEMMA CreateStep ==
    ASSUME IInv, NEW j \in Journeys, NEW d \in Durations, Create(j, d)
    PROVE  IInv'
<1> DEFINE row == [journey[j] EXCEPT !.status = "active", !.expires = now + d]
<1>1. now + d \in Nat
    BY TimeAssumption DEF IInv, TypeOK
<1>2. row \in JourneyRows
    BY <1>1 DEF IInv, TypeOK, JourneyRows
<1>3. journey' = [journey EXCEPT ![j] = row]
    BY DEF Create, IInv, TypeOK
<1>4. /\ row.status = "active"
      /\ row.asked = journey[j].asked
      /\ row.checkIns = journey[j].checkIns
      /\ row.count = journey[j].count
      /\ row.since = journey[j].since
      /\ journey[j].status = "none"
    BY DEF Create, IInv, TypeOK, JourneyRows
<1>5. row.asked = FALSE
    BY <1>4 DEF IInv, RequestStands, TypeOK, JourneyRows
<1> HIDE DEF row
<1>6. CountIsRun'
    <2>1. \A k \in Journeys : journey'[k] = IF k = j THEN row ELSE journey[k]
        BY <1>3 DEF IInv, TypeOK
    <2>2. UNCHANGED << run, now >>
        BY DEF Create
    <2>3. QED
        BY <1>4, <2>1, <2>2 DEF IInv, CountIsRun, Null
<1>7. row.count < 2
    BY <1>4 DEF IInv, CountIsRun
<1>8. ToldByStatus' /\ PendingExpired' /\ ExpiryToldOnce' /\ RequestStands'
    BY <1>2, <1>3, <1>4, <1>5, <1>7, QuietStep DEF Create
<1>9. TypeOK'
    BY <1>2, <1>3 DEF Create, IInv, TypeOK
<1>10. QED
    BY <1>6, <1>8, <1>9 DEF IInv

LEMMA CancelStep ==
    ASSUME IInv, NEW j \in Journeys, Cancel(j)
    PROVE  IInv'
<1> DEFINE row == [journey[j] EXCEPT !.status = "cancelled"]
<1>2. row \in JourneyRows
    BY DEF IInv, TypeOK, JourneyRows
<1>3. journey' = [journey EXCEPT ![j] = row]
    BY DEF Cancel, IInv, TypeOK
<1>4. /\ row.status = "cancelled"
      /\ row.asked = journey[j].asked
      /\ row.checkIns = journey[j].checkIns
      /\ row.count = journey[j].count
      /\ row.since = journey[j].since
      /\ journey[j].status = "active"
    BY DEF Cancel, IInv, TypeOK, JourneyRows
<1>5. row.asked = FALSE
    BY <1>4 DEF IInv, RequestStands, TypeOK, JourneyRows
<1> HIDE DEF row
<1>6. CountIsRun'
    <2>1. \A k \in Journeys : journey'[k] = IF k = j THEN row ELSE journey[k]
        BY <1>3 DEF IInv, TypeOK
    <2>2. UNCHANGED << run, now >>
        BY DEF Cancel
    <2>3. QED
        BY <1>4, <2>1, <2>2 DEF IInv, CountIsRun, Null
<1>7. row.count < 2
    BY <1>4 DEF IInv, CountIsRun
<1>8. ToldByStatus' /\ PendingExpired' /\ ExpiryToldOnce' /\ RequestStands'
    BY <1>2, <1>3, <1>4, <1>5, <1>7, QuietStep DEF Cancel
<1>9. TypeOK'
    BY <1>2, <1>3 DEF Cancel, IInv, TypeOK
<1>10. QED
    BY <1>6, <1>8, <1>9 DEF IInv

LEMMA RecordOutsideStep ==
    ASSUME IInv, NEW j \in Journeys, RecordOutside(j)
    PROVE  IInv'
<1> DEFINE row == [journey[j] EXCEPT !.count = 0, !.since = Null]
<1>0. journey[j] \in JourneyRows /\ Null \in Times /\ 0 \in 0..2
    BY NullAssumption DEF IInv, TypeOK
<1>1. row \in JourneyRows
    BY <1>0, RowWrites
<1>2. journey' = [journey EXCEPT ![j] = row]
    BY DEF RecordOutside, IInv, TypeOK
<1>3. /\ row.status = "active"
      /\ row.asked = journey[j].asked
      /\ row.checkIns = journey[j].checkIns
      /\ row.count = 0
      /\ row.since = Null
      /\ journey[j].status = "active"
    BY DEF RecordOutside, UnderWay, IInv, TypeOK, JourneyRows
<1>4. row.asked = FALSE
    BY <1>3 DEF IInv, RequestStands, TypeOK, JourneyRows
<1> HIDE DEF row
<1>5. \A k \in Journeys : run'[k] = IF k = j THEN << >> ELSE run[k]
    BY DEF RecordOutside, IInv, TypeOK
<1>6. CountIsRun'
    <2>1. \A k \in Journeys : journey'[k] = IF k = j THEN row ELSE journey[k]
        BY <1>2 DEF IInv, TypeOK
    <2>2. UNCHANGED now
        BY DEF RecordOutside
    <2>3. QED
        BY <1>3, <1>5, <2>1, <2>2 DEF IInv, CountIsRun, Null
<1>7. ToldByStatus' /\ PendingExpired' /\ ExpiryToldOnce' /\ RequestStands'
    <2>1. row.count < 2 /\ UNCHANGED << told, pending >>
        BY <1>3 DEF RecordOutside
    <2>2. QED
        BY <1>1, <1>2, <1>3, <1>4, <2>1, QuietStep
<1>8. TypeOK'
    <2>1. run' \in [Journeys -> Seq(0..Horizon)]
        BY <1>5 DEF RecordOutside, IInv, TypeOK
    <2>2. QED
        BY <1>1, <1>2, <2>1 DEF RecordOutside, IInv, TypeOK
<1>9. QED
    BY <1>6, <1>7, <1>8 DEF IInv

(* The steps that end a journey as arrived and tell its recipients.        *)
LEMMA ArrivalStep ==
    ASSUME IInv, NEW j \in Journeys, NEW row \in JourneyRows,
           journey' = [journey EXCEPT ![j] = row],
           journey[j].status = "active",
           row.status = "arrived", row.asked = FALSE,
           row.checkIns = journey[j].checkIns,
           NotifyRecipients(j, "arrived"), UNCHANGED pending
    PROVE  /\ told' \in [Journeys -> [People -> Seq(Messages)]]
           /\ ToldByStatus' /\ PendingExpired' /\ ExpiryToldOnce' /\ RequestStands'
<1>1. \A k \in Journeys : journey'[k] = IF k = j THEN row ELSE journey[k]
    BY DEF IInv, TypeOK
<1>2. /\ told' \in [Journeys -> [People -> Seq(Messages)]]
      /\ \A k \in Journeys : k # j => told'[k] = told[k]
      /\ told'[j][Owner] = told[j][Owner]
      /\ \A p \in Recipients : told'[j][p] = Append(told[j][p], "arrived")
    BY RecipientsHear DEF IInv, Messages
<1>3. \A p \in People : told[j][p] = << >>
    BY DEF IInv, ToldByStatus
<1>4. /\ told'[j][Owner] = << >>
      /\ \A p \in Recipients : told'[j][p] = << "arrived" >>
    <2>1. Append(<< >>, "arrived") = << "arrived" >>
        OBVIOUS
    <2>2. QED
        BY <1>2, <1>3, <2>1, Zenon DEF People
<1>5. ToldByStatus'
    <2>1. journey'[j].status = "arrived"
        BY <1>1
    <2>2. \A k \in Journeys : k # j => journey'[k] = journey[k] /\ told'[k] = told[k]
        BY <1>1, <1>2
    <2>3. QED
        BY <1>4, <2>1, <2>2 DEF IInv, ToldByStatus
<1>6. PendingExpired'
    BY <1>1 DEF IInv, PendingExpired
<1>7. RequestStands'
    BY <1>1 DEF IInv, RequestStands
<1>8. ExpiryToldOnce'
    <2>1. \A p \in People : Unconfirmed(j, p)' = {}
        BY <1>4 DEF Unconfirmed, People
    <2>2. \A k \in Journeys, p \in People : k # j => Unconfirmed(k, p)' = Unconfirmed(k, p)
        BY <1>2 DEF Unconfirmed
    <2>3. \A k \in Journeys, p \in People : PendingFor(k, p)' = PendingFor(k, p)
        BY DEF PendingFor
    <2>4. \A p \in People : PendingFor(j, p) = {}
        BY DEF IInv, ExpiryToldOnce
    <2>5. QED
        BY <1>1, <2>1, <2>2, <2>3, <2>4 DEF IInv, ExpiryToldOnce
<1>9. QED
    BY <1>2, <1>5, <1>6, <1>7, <1>8

LEMMA ConfirmArrivalStep ==
    ASSUME IInv, NEW j \in Journeys, ConfirmArrival(j)
    PROVE  IInv'
<1> DEFINE row == [journey[j] EXCEPT !.status = "arrived"]
<1>1. row \in JourneyRows
    BY DEF IInv, TypeOK, JourneyRows
<1>2. journey' = [journey EXCEPT ![j] = row]
    BY DEF ConfirmArrival, IInv, TypeOK
<1>3. /\ row.status = "arrived"
      /\ row.asked = journey[j].asked
      /\ row.checkIns = journey[j].checkIns
      /\ row.count = journey[j].count
      /\ journey[j].status = "active"
    BY DEF ConfirmArrival, UnderWay, IInv, TypeOK, JourneyRows
<1>4. row.asked = FALSE
    BY <1>3 DEF IInv, RequestStands, TypeOK, JourneyRows
<1> HIDE DEF row
<1>5. CountIsRun'
    <2>1. \A k \in Journeys : journey'[k] = IF k = j THEN row ELSE journey[k]
        BY <1>2 DEF IInv, TypeOK
    <2>2. UNCHANGED << run, now >>
        BY DEF ConfirmArrival
    <2>3. QED
        BY <1>3, <2>1, <2>2 DEF IInv, CountIsRun, Null
<1>6. /\ told' \in [Journeys -> [People -> Seq(Messages)]]
      /\ ToldByStatus' /\ PendingExpired' /\ ExpiryToldOnce' /\ RequestStands'
    BY <1>1, <1>2, <1>3, <1>4, ArrivalStep DEF ConfirmArrival
<1>7. TypeOK'
    BY <1>1, <1>2, <1>6 DEF ConfirmArrival, IInv, TypeOK
<1>8. QED
    BY <1>5, <1>6, <1>7 DEF IInv

(* A fix inside: the run grows by the present time.                        *)
LEMMA RunGrows ==
    ASSUME IInv, NEW j \in Journeys, RecordInside(j)
    PROVE  /\ run' \in [Journeys -> Seq(0..Horizon)]
           /\ \A k \in Journeys : k # j => run'[k] = run[k]
           /\ Len(run'[j]) = Len(run[j]) + 1
           /\ run'[j] # << >>
           /\ run'[j][Len(run[j]) + 1] = now
           /\ run[j] # << >> => run'[j][1] = run[j][1]
<1>1. run[j] \in Seq(0..Horizon) /\ now \in 0..Horizon /\ Len(run[j]) \in Nat
    BY DEF IInv, TypeOK
<1>2. run'[j] = Append(run[j], now)
    BY DEF RecordInside, IInv, TypeOK
<1>3. \A k \in Journeys : k # j => run'[k] = run[k]
    BY DEF RecordInside, IInv, TypeOK
<1>4. Append(run[j], now) \in Seq(0..Horizon)
    BY <1>1
<1>5. run' \in [Journeys -> Seq(0..Horizon)]
    BY <1>2, <1>4 DEF RecordInside, IInv, TypeOK
<1>6. QED
    BY <1>1, <1>2, <1>3, <1>5

LEMMA RecordInsideStep ==
    ASSUME IInv, NEW j \in Journeys, RecordInside(j)
    PROVE  IInv'
<1>0. /\ journey[j] \in JourneyRows /\ run[j] \in Seq(0..Horizon)
      /\ now \in 0..Horizon /\ now \in Times
      /\ UNCHANGED << now, pending >>
      /\ journey[j].status = "active"
    BY TimeAssumption DEF RecordInside, UnderWay, IInv, TypeOK, Times
<1>1. /\ journey[j].count \in {0, 1}
      /\ journey[j].count = 1 =>
            /\ run[j] # << >>
            /\ journey[j].since = run[j][1]
            /\ run[j][1] <= now
            /\ run[j][1] \in 0..Horizon
      /\ journey[j].count = 0 => journey[j].since = Null /\ run[j] = << >>
      /\ journey[j].asked = FALSE
    <2>1. \/ journey[j].count = 0 /\ journey[j].since = Null /\ run[j] = << >>
          \/ /\ journey[j].count = 1
             /\ run[j] # << >>
             /\ journey[j].since = run[j][1]
             /\ run[j][1] <= now
        BY <1>0 DEF IInv, CountIsRun
    <2>2. run[j] # << >> => run[j][1] \in 0..Horizon
        BY <1>0, FirstInRange
    <2>3. journey[j].asked = FALSE
        BY <1>0 DEF IInv, RequestStands, JourneyRows
    <2>4. QED
        BY <2>1, <2>2, <2>3
<1>2. Confirmations(j) \in {1, 2} /\ (journey[j].count = 0 => Confirmations(j) = 1)
    BY <1>0, <1>1, NullAssumption DEF Confirmations
<1>3. CASE Confirmations(j) < 2
    <2>1. PICK row \in JourneyRows :
              /\ journey' = [journey EXCEPT ![j] = row]
              /\ row.status = "active"
              /\ row.asked = FALSE
              /\ row.checkIns = journey[j].checkIns
              /\ row.count = 1
              /\ row.since = IF journey[j].since = Null THEN now ELSE journey[j].since
        <3> DEFINE row == [journey[j] EXCEPT
                  !.count = Confirmations(j),
                  !.since = IF journey[j].since = Null THEN now ELSE journey[j].since]
        <3>1. Confirmations(j) = 1 /\ Confirmations(j) \in 0..2
            BY <1>2, <1>3
        <3>2. row \in JourneyRows
            <4>1. (IF journey[j].since = Null THEN now ELSE journey[j].since) \in Times
                BY <1>0 DEF JourneyRows
            <4>2. QED
                BY <1>0, <3>1, <4>1, RowWrites
        <3>3. journey' = [journey EXCEPT ![j] = row]
            BY <1>3 DEF RecordInside, IInv, TypeOK
        <3>4. QED
            BY <1>0, <1>1, <3>1, <3>2, <3>3 DEF JourneyRows
    <2>2. told' = told
        BY <1>3 DEF RecordInside
    <2>3. ToldByStatus' /\ PendingExpired' /\ ExpiryToldOnce' /\ RequestStands'
        <3>1. row.count < 2
            BY <2>1
        <3>2. QED
            BY <1>0, <2>1, <2>2, <3>1, QuietStep
    <2>4. TypeOK'
        BY <1>0, <2>1, <2>2, RunGrows DEF RecordInside, IInv, TypeOK
    <2>5. CountIsRun'
        <3>1. \A k \in Journeys : journey'[k] = IF k = j THEN row ELSE journey[k]
            BY <2>1 DEF IInv, TypeOK
        <3>2. /\ run'[j] # << >>
              /\ row.since = run'[j][1]
              /\ run'[j][1] <= now
            <4>1. CASE journey[j].count = 0
                <5>1. Len(run[j]) = 0
                    BY <1>1, <4>1
                <5>2. run'[j][1] = now
                    BY <5>1, RunGrows
                <5>3. QED
                    BY <1>0, <1>1, <2>1, <4>1, <5>2, RunGrows
            <4>2. CASE journey[j].count = 1
                <5>1. run'[j][1] = run[j][1]
                    BY <1>1, <4>2, RunGrows
                <5>2. journey[j].since # Null
                    BY <1>1, <4>2, NullAssumption
                <5>3. QED
                    BY <1>1, <2>1, <4>2, <5>1, <5>2, RunGrows
            <4>3. QED
                BY <1>1, <4>1, <4>2
        <3>3. \A k \in Journeys : k # j => run'[k] = run[k]
            BY RunGrows
        <3>4. QED
            BY <1>0, <2>1, <3>1, <3>2, <3>3 DEF IInv, CountIsRun, Null
    <2>6. QED
        BY <2>3, <2>4, <2>5 DEF IInv
<1>4. CASE ~(Confirmations(j) < 2)
    <2>1. PICK row \in JourneyRows :
              /\ journey' = [journey EXCEPT ![j] = row]
              /\ row.status = "arrived"
              /\ row.asked = FALSE
              /\ row.checkIns = journey[j].checkIns
              /\ row.count = 2
        <3> DEFINE row == [journey[j] EXCEPT !.status = "arrived", !.count = Confirmations(j)]
        <3>1. Confirmations(j) = 2 /\ Confirmations(j) \in 0..2
            BY <1>2, <1>4
        <3>2. row \in JourneyRows
            BY <1>0, <3>1, RowWrites
        <3>3. journey' = [journey EXCEPT ![j] = row]
            BY <1>4 DEF RecordInside, IInv, TypeOK
        <3>4. QED
            BY <1>0, <1>1, <3>1, <3>2, <3>3 DEF JourneyRows
    <2>2. NotifyRecipients(j, "arrived")
        BY <1>4 DEF RecordInside
    <2>3. /\ told' \in [Journeys -> [People -> Seq(Messages)]]
          /\ ToldByStatus' /\ PendingExpired' /\ ExpiryToldOnce' /\ RequestStands'
        BY <1>0, <1>1, <2>1, <2>2, ArrivalStep
    <2>4. TypeOK'
        BY <1>0, <2>1, <2>3, RunGrows DEF RecordInside, IInv, TypeOK
    <2>5. CountIsRun'
        <3>1. \A k \in Journeys : journey'[k] = IF k = j THEN row ELSE journey[k]
            BY <2>1 DEF IInv, TypeOK
        <3>2. journey[j].count = 1 /\ now - run[j][1] <= Window
            BY <1>0, <1>1, <1>2, <1>4 DEF Confirmations
        <3>3. run[j] # << >> /\ Len(run[j]) \in Nat /\ Len(run[j]) # 0
            BY <1>1, <3>2 DEF IInv, TypeOK
        <3>4. \E i, k \in 1..Len(run'[j]) : i < k /\ run'[j][k] - run'[j][i] <= Window
            <4>1. 1 \in 1..Len(run'[j]) /\ Len(run[j]) + 1 \in 1..Len(run'[j])
                BY <3>3, RunGrows
            <4>2. run'[j][Len(run[j]) + 1] - run'[j][1] <= Window
                BY <3>2, <3>3, RunGrows
            <4>3. 1 < Len(run[j]) + 1
                BY <3>3
            <4>4. QED
                BY <4>1, <4>2, <4>3
        <3>5. \A k \in Journeys : k # j => run'[k] = run[k]
            BY RunGrows
        <3>6. QED
            BY <1>0, <2>1, <3>1, <3>4, <3>5 DEF IInv, CountIsRun, Null
    <2>6. QED
        BY <2>3, <2>4, <2>5 DEF IInv
<1>5. QED
    BY <1>3, <1>4

-----------------------------------------------------------------------------
(* The steps that add to what has been said of an expired journey.         *)

IndicesOf(seq, message) == { i \in 1..Len(seq) : seq[i] = message }

LEMMA OneMoreMessage ==
    ASSUME NEW seq \in Seq(Messages), NEW message \in Messages, NEW other
    PROVE  /\ Append(seq, message) \in Seq(Messages)
           /\ other # message =>
                 IndicesOf(Append(seq, message), other) = IndicesOf(seq, other)
           /\ IndicesOf(seq, message) = {} =>
                 \A i, k \in IndicesOf(Append(seq, message), message) : i = k
<1>1. /\ Append(seq, message) \in Seq(Messages)
      /\ Len(seq) \in Nat
      /\ Len(Append(seq, message)) = Len(seq) + 1
      /\ \A i \in 1..Len(seq) : Append(seq, message)[i] = seq[i]
      /\ Append(seq, message)[Len(seq) + 1] = message
    OBVIOUS
<1>2. \A i : i \in 1..(Len(seq) + 1) <=> i \in 1..Len(seq) \/ i = Len(seq) + 1
    BY <1>1
<1>3. QED
    BY <1>1, <1>2 DEF IndicesOf

LEMMA Indices ==
    \A j \in Journeys, p \in People :
        /\ Unconfirmed(j, p) = IndicesOf(told[j][p], "unconfirmed")
        /\ (\A i \in 1..Len(told[j][p]) : told[j][p][i] # "arrived")
              <=> IndicesOf(told[j][p], "arrived") = {}
BY DEF Unconfirmed, IndicesOf

LEMMA CheckInStep ==
    ASSUME IInv, NEW j \in Journeys, CheckIn(j)
    PROVE  IInv'
<1>0. /\ TypeOK
      /\ journey[j] \in JourneyRows /\ journey[j].checkIns \in Nat
      /\ journey[j].status = "expired"
      /\ UNCHANGED << run, pending, now, failures >>
    BY BoundAssumption DEF CheckIn, IInv, TypeOK, JourneyRows
<1>1. PICK row \in JourneyRows :
          /\ journey' = [journey EXCEPT ![j] = row]
          /\ row.status = "expired" /\ row.asked = FALSE /\ row.checkIns # 0
          /\ row.count = journey[j].count /\ row.since = journey[j].since
    <2> DEFINE row == [journey[j] EXCEPT !.asked = FALSE, !.checkIns = @ + 1]
    <2>1. journey[j].checkIns + 1 \in 0..MaxCheckIns
        BY <1>0, BoundAssumption DEF CheckIn
    <2>2. row \in JourneyRows
        BY <1>0, <2>1 DEF JourneyRows
    <2>3. journey' = [journey EXCEPT ![j] = row]
        BY DEF CheckIn, IInv, TypeOK
    <2>4. /\ row.status = "expired" /\ row.asked = FALSE
          /\ row.checkIns = journey[j].checkIns + 1
          /\ row.count = journey[j].count /\ row.since = journey[j].since
        BY <1>0 DEF JourneyRows
    <2>5. row.checkIns # 0
        BY <1>0, <2>4
    <2> HIDE DEF row
    <2>6. QED
        BY <2>2, <2>3, <2>4, <2>5
<1>2. \A k \in Journeys : journey'[k] = IF k = j THEN row ELSE journey[k]
    BY <1>1 DEF IInv, TypeOK
<1>3. /\ told' \in [Journeys -> [People -> Seq(Messages)]]
      /\ \A k \in Journeys : k # j => told'[k] = told[k]
      /\ told'[j][Owner] = told[j][Owner]
      /\ \A p \in Recipients : told'[j][p] = Append(told[j][p], "checked_in")
    <2>1. "checked_in" \in Messages /\ NotifyRecipients(j, "checked_in")
        BY DEF CheckIn, Messages
    <2>2. QED
        BY <1>0, <2>1, RecipientsHear
<1>4. \A k \in Journeys, p \in People :
          /\ IndicesOf(told'[k][p], "unconfirmed") = IndicesOf(told[k][p], "unconfirmed")
          /\ IndicesOf(told'[k][p], "arrived") = IndicesOf(told[k][p], "arrived")
    <2>1. \A p \in Recipients :
              /\ IndicesOf(told'[j][p], "unconfirmed") = IndicesOf(told[j][p], "unconfirmed")
              /\ IndicesOf(told'[j][p], "arrived") = IndicesOf(told[j][p], "arrived")
        <3>1. \A p \in Recipients : told[j][p] \in Seq(Messages)
            BY <1>0 DEF TypeOK, People
        <3>2. /\ "checked_in" \in Messages
              /\ "unconfirmed" # "checked_in" /\ "arrived" # "checked_in"
            BY DEF Messages
        <3>3. ASSUME NEW seq \in Seq(Messages)
              PROVE  /\ IndicesOf(Append(seq, "checked_in"), "unconfirmed")
                            = IndicesOf(seq, "unconfirmed")
                     /\ IndicesOf(Append(seq, "checked_in"), "arrived")
                            = IndicesOf(seq, "arrived")
            BY <3>2, OneMoreMessage
        <3>4. QED
            BY <1>3, <3>1, <3>3
    <2>2. QED
        BY <1>3, <2>1 DEF People
<1>5. ToldByStatus'
    <2>1. \A k \in Journeys : k # j => journey'[k] = journey[k] /\ told'[k] = told[k]
        BY <1>2, <1>3
    <2>2. journey'[j].status = "expired"
        BY <1>1, <1>2
    <2>3. \A p \in People : \A i \in 1..Len(told'[j][p]) : told'[j][p][i] # "arrived"
        <3>1. \A p \in People : IndicesOf(told[j][p], "arrived") = {}
            BY <1>0, Indices DEF IInv, ToldByStatus
        <3>2. QED
            BY <1>4, <3>1 DEF IndicesOf
    <2>4. QED
        BY <2>1, <2>2, <2>3 DEF IInv, ToldByStatus
<1>6. PendingExpired'
    BY <1>0, <1>1, <1>2 DEF IInv, PendingExpired
<1>7. RequestStands'
    BY <1>1, <1>2 DEF IInv, RequestStands
<1>8. CountIsRun'
    BY <1>0, <1>1, <1>2 DEF IInv, CountIsRun, Null
<1>9. ExpiryToldOnce'
    <2>1. \A k \in Journeys, p \in People :
              Unconfirmed(k, p)' = Unconfirmed(k, p) /\ PendingFor(k, p)' = PendingFor(k, p)
        BY <1>0, <1>4 DEF Unconfirmed, IndicesOf, PendingFor
    <2>2. \A k \in Journeys : journey[k].status = "expired" => journey'[k].status = "expired"
        BY <1>1, <1>2
    <2>3. QED
        BY <2>1, <2>2 DEF IInv, ExpiryToldOnce
<1>10. TypeOK'
    BY <1>0, <1>1, <1>3 DEF TypeOK
<1>11. QED
    BY <1>5, <1>6, <1>7, <1>8, <1>9, <1>10 DEF IInv

LEMMA NotifyExpiryStep ==
    ASSUME IInv, NEW s \in Sweeps, NEW j \in Journeys, NEW p \in People,
           NotifyExpiry(s, j, p)
    PROVE  IInv'
<1>0. /\ TypeOK
      /\ told[j][p] \in Seq(Messages)
      /\ << j, p >> \in pending[s]
      /\ journey[j].status = "expired"
      /\ UNCHANGED << journey, run, now, failures >>
    BY DEF NotifyExpiry, IInv, TypeOK, PendingExpired
<1>1. /\ \A k \in Journeys, q \in People :
             told'[k][q] = IF k = j /\ q = p THEN Append(told[j][p], "unconfirmed")
                                             ELSE told[k][q]
      /\ told' \in [Journeys -> [People -> Seq(Messages)]]
    <2>1. told'[j] = [told[j] EXCEPT ![p] = Append(@, "unconfirmed")]
        BY DEF NotifyExpiry, IInv, TypeOK
    <2>2. told[j] \in [People -> Seq(Messages)]
        BY <1>0 DEF TypeOK
    <2>3. Append(told[j][p], "unconfirmed") \in Seq(Messages)
        BY <1>0 DEF Messages
    <2>4. /\ told'[j] \in [People -> Seq(Messages)]
          /\ \A q \in People : told'[j][q] =
                IF q = p THEN Append(told[j][p], "unconfirmed") ELSE told[j][q]
        BY <2>1, <2>2, <2>3
    <2>5. \A k \in Journeys : k # j => told'[k] = told[k]
        BY DEF NotifyExpiry, IInv, TypeOK
    <2>6. QED
        BY <1>0, <2>4, <2>5 DEF NotifyExpiry, TypeOK
<1>2. /\ pending' \in [Sweeps -> SUBSET (Journeys \X People)]
      /\ \A t \in Sweeps : pending'[t] =
            IF t = s THEN pending[s] \ {<< j, p >>} ELSE pending[t]
    BY DEF NotifyExpiry, IInv, TypeOK
<1>3. /\ \A t \in PendingFor(j, p) : t = s
      /\ IndicesOf(told[j][p], "unconfirmed") = {}
      /\ IndicesOf(told[j][p], "arrived") = {}
    BY <1>0, Indices DEF IInv, ExpiryToldOnce, PendingFor, ToldByStatus
<1>4. /\ \A i, k \in IndicesOf(told'[j][p], "unconfirmed") : i = k
      /\ IndicesOf(told'[j][p], "arrived") = {}
    <2>1. told'[j][p] = Append(told[j][p], "unconfirmed")
        BY <1>1
    <2>2. QED
        BY <1>0, <1>3, <2>1, OneMoreMessage DEF Messages
<1>5. ToldByStatus'
    <2>1. \A i \in 1..Len(told'[j][p]) : told'[j][p][i] # "arrived"
        BY <1>4 DEF IndicesOf
    <2>2. \A k \in Journeys, q \in People : << k, q >> # << j, p >> => told'[k][q] = told[k][q]
        BY <1>1
    <2>3. \A k \in Journeys : k # j => \A q \in People : told'[k][q] = told[k][q]
        BY <2>2
    <2>4. ASSUME NEW k \in Journeys, k # j
          PROVE  /\ journey[k].status \in {"none", "active", "cancelled"} =>
                        \A q \in People : told'[k][q] = << >>
                 /\ journey[k].status = "arrived" =>
                        /\ told'[k][Owner] = << >>
                        /\ \A q \in Recipients : told'[k][q] = << "arrived" >>
                 /\ journey[k].status = "expired" =>
                        \A q \in People : \A i \in 1..Len(told'[k][q]) : told'[k][q][i] # "arrived"
        BY <2>3, <2>4 DEF IInv, ToldByStatus, People
    <2>5. \A q \in People : \A i \in 1..Len(told'[j][q]) : told'[j][q][i] # "arrived"
        BY <1>0, <2>1, <2>2 DEF IInv, ToldByStatus
    <2>6. QED
        BY <1>0, <2>4, <2>5 DEF ToldByStatus
<1>6. PendingExpired' /\ RequestStands' /\ CountIsRun'
    BY <1>0, <1>2 DEF IInv, PendingExpired, RequestStands, CountIsRun, Null
<1>7. ExpiryToldOnce'
    <2>1. PendingFor(j, p)' = {}
        BY <1>2, <1>3 DEF PendingFor
    <2>2. \A k \in Journeys, q \in People : << k, q >> # << j, p >> =>
              /\ Unconfirmed(k, q)' = Unconfirmed(k, q)
              /\ PendingFor(k, q)' = PendingFor(k, q)
        BY <1>1, <1>2 DEF Unconfirmed, PendingFor
    <2>3. \A i, k \in Unconfirmed(j, p)' : i = k
        BY <1>4 DEF Unconfirmed, IndicesOf
    <2>4. QED
        BY <1>0, <2>1, <2>2, <2>3 DEF IInv, ExpiryToldOnce
<1>8. TypeOK'
    BY <1>0, <1>1, <1>2 DEF TypeOK
<1>9. QED
    BY <1>5, <1>6, <1>7, <1>8 DEF IInv

-----------------------------------------------------------------------------
LEMMA ExpireDueStep ==
    ASSUME IInv, NEW s \in Sweeps, ExpireDue(s)
    PROVE  IInv'
<1> DEFINE due == { j \in Journeys : Due(j) }
           expired(j) == [journey[j] EXCEPT !.status = "expired", !.asked = TRUE]
<1>0. /\ TypeOK
      /\ UNCHANGED << run, told, now, failures >>
      /\ pending[s] = {}
    BY DEF ExpireDue, IInv
<1>1. /\ \A j \in Journeys : journey'[j] = IF j \in due THEN expired(j) ELSE journey[j]
      /\ journey' = [j \in Journeys |-> IF j \in due THEN expired(j) ELSE journey[j]]
    BY DEF ExpireDue
<1>2. \A t \in Sweeps : pending'[t] = IF t = s THEN due \X People ELSE pending[t]
    BY <1>0 DEF ExpireDue, TypeOK
<1>2a. \A t \in Sweeps, j \in Journeys, p \in People :
           << j, p >> \in pending'[t] <=> (t = s /\ j \in due) \/ << j, p >> \in pending[t]
    <2>1. \A j \in Journeys, p \in People : << j, p >> \in due \X People <=> j \in due
        OBVIOUS
    <2>2. \A j \in Journeys, p \in People : << j, p >> \notin pending[s]
        BY <1>0
    <2> HIDE DEF due
    <2>3. QED
        BY <1>2, <2>1, <2>2
<1>3. \A j \in due :
          /\ expired(j) \in JourneyRows
          /\ expired(j).status = "expired" /\ expired(j).asked = TRUE
          /\ expired(j).count = journey[j].count /\ expired(j).since = journey[j].since
          /\ expired(j).checkIns = journey[j].checkIns
          /\ journey[j].status = "active"
    BY <1>0 DEF Due, TypeOK, JourneyRows
<1> HIDE DEF expired
<1>4. TypeOK'
    <2>1. journey' \in [Journeys -> JourneyRows]
        BY <1>0, <1>1, <1>3 DEF TypeOK
    <2>2. pending' \in [Sweeps -> SUBSET (Journeys \X People)]
        BY <1>0 DEF ExpireDue, TypeOK
    <2>3. QED
        BY <1>0, <2>1, <2>2 DEF TypeOK
<1>5. ToldByStatus'
    <2>1. \A j \in due : /\ journey'[j].status = "expired"
                         /\ \A p \in People : told'[j][p] = << >>
        BY <1>0, <1>1, <1>3 DEF IInv, ToldByStatus
    <2>2. \A j \in Journeys : j \notin due => journey'[j] = journey[j] /\ told'[j] = told[j]
        BY <1>0, <1>1
    <2>3. QED
        BY <2>1, <2>2 DEF IInv, ToldByStatus
<1>6. PendingExpired'
    BY <1>1, <1>2a, <1>3 DEF IInv, PendingExpired
<1>7. ExpiryToldOnce'
    <2>1. \A j \in due, p \in People : Unconfirmed(j, p) = {} /\ PendingFor(j, p) = {}
        BY <1>3 DEF IInv, ExpiryToldOnce
    <2>2. \A j \in Journeys, p \in People : Unconfirmed(j, p)' = Unconfirmed(j, p)
        BY <1>0 DEF Unconfirmed
    <2>3. \A j \in Journeys, p \in People :
              PendingFor(j, p)' = IF j \in due THEN {s} ELSE PendingFor(j, p)
        <3>1. ASSUME NEW j \in Journeys, NEW p \in People, j \in due
              PROVE  PendingFor(j, p)' = {s}
            BY <1>2a, <2>1, <3>1 DEF PendingFor
        <3>2. ASSUME NEW j \in Journeys, NEW p \in People, j \notin due
              PROVE  PendingFor(j, p)' = PendingFor(j, p)
            BY <1>2a, <3>2 DEF PendingFor
        <3>3. QED
            BY <3>1, <3>2
    <2>4. \A j \in Journeys :
              j \in due \/ journey[j].status = "expired" => journey'[j].status = "expired"
        BY <1>1, <1>3
    <2>5. QED
        BY <2>1, <2>2, <2>3, <2>4 DEF IInv, ExpiryToldOnce
<1>8. RequestStands'
    BY <1>1, <1>3 DEF IInv, RequestStands
<1>9. CountIsRun'
    BY <1>0, <1>1, <1>3 DEF IInv, CountIsRun, Null
<1>10. QED
    BY <1>4, <1>5, <1>6, <1>7, <1>8, <1>9 DEF IInv

LEMMA SweepDiesStep ==
    ASSUME IInv, NEW s \in Sweeps, SweepDies(s)
    PROVE  IInv'
<1>0. /\ TypeOK
      /\ UNCHANGED << journey, run, told, now >>
      /\ \A t \in Sweeps : pending'[t] = IF t = s THEN {} ELSE pending[t]
    BY DEF SweepDies, IInv, TypeOK
<1>1. TypeOK'
    <2>1. pending' \in [Sweeps -> SUBSET (Journeys \X People)]
        BY <1>0 DEF SweepDies, TypeOK
    <2>2. failures' \in 0..MaxFailures
        BY <1>0, BoundAssumption DEF SweepDies, TypeOK
    <2>3. QED
        BY <1>0, <2>1, <2>2 DEF TypeOK
<1>2. ToldByStatus' /\ PendingExpired' /\ RequestStands' /\ CountIsRun'
    BY <1>0 DEF IInv, ToldByStatus, PendingExpired, RequestStands, CountIsRun, Null
<1>3. ExpiryToldOnce'
    <2>1. \A j \in Journeys, p \in People :
              Unconfirmed(j, p)' = Unconfirmed(j, p)
        BY <1>0 DEF Unconfirmed
    <2>2. \A j \in Journeys, p \in People :
              PendingFor(j, p)' \subseteq PendingFor(j, p)
        BY <1>0 DEF PendingFor
    <2>3. QED
        BY <1>0, <2>1, <2>2 DEF IInv, ExpiryToldOnce
<1>4. QED
    BY <1>1, <1>2, <1>3 DEF IInv

LEMMA TickStep ==
    ASSUME IInv, Tick
    PROVE  IInv'
<1>0. /\ TypeOK
      /\ UNCHANGED << journey, run, told, pending, failures >>
      /\ now' = now + 1 /\ now' \in 0..Horizon /\ now \in 0..Horizon
    BY TimeAssumption DEF Tick, IInv, TypeOK
<1>1. TypeOK'
    BY <1>0 DEF TypeOK
<1>2. ToldByStatus' /\ PendingExpired' /\ RequestStands'
    BY <1>0 DEF IInv, ToldByStatus, PendingExpired, RequestStands
<1>3. CountIsRun'
    <2>1. ASSUME NEW j \in Journeys, run[j] # << >>, run[j][1] <= now
          PROVE  run[j][1] <= now'
        <3>1. run[j][1] \in 0..Horizon
            BY <1>0, <2>1, FirstInRange DEF TypeOK
        <3>2. QED
            BY <1>0, <2>1, <3>1, TimeAssumption
    <2>2. QED
        BY <1>0, <2>1 DEF IInv, CountIsRun, Null
<1>4. ExpiryToldOnce'
    BY <1>0 DEF IInv, ExpiryToldOnce, Unconfirmed, PendingFor
<1>5. QED
    BY <1>1, <1>2, <1>3, <1>4 DEF IInv

LEMMA NextIInv == IInv /\ [Next]_vars => IInv'
<1> SUFFICES ASSUME IInv, [Next]_vars PROVE IInv'
    OBVIOUS
<1>1. ASSUME NEW j \in Journeys, Handle(j) PROVE IInv'
    BY <1>1, CreateStep, ConfirmArrivalStep, RecordOutsideStep, RecordInsideStep,
       CheckInStep, CancelStep DEF Handle
<1>2. ASSUME NEW s \in Sweeps, Sweep(s) PROVE IInv'
    BY <1>2, ExpireDueStep, NotifyExpiryStep DEF Sweep
<1>3. ASSUME NEW s \in Sweeps, SweepDies(s) PROVE IInv'
    BY <1>3, SweepDiesStep
<1>4. CASE Tick
    BY <1>4, TickStep
<1>5. CASE UNCHANGED vars
    <2>1. UNCHANGED << journey, run, told, pending, now, failures >>
        BY <1>5 DEF vars
    <2>2. TypeOK' /\ ToldByStatus' /\ PendingExpired' /\ RequestStands'
        BY <2>1 DEF IInv, TypeOK, ToldByStatus, PendingExpired, RequestStands
    <2>3. CountIsRun'
        BY <2>1 DEF IInv, CountIsRun, Null
    <2>4. ExpiryToldOnce'
        BY <2>1 DEF IInv, ExpiryToldOnce, Unconfirmed, PendingFor
    <2>5. QED
        BY <2>2, <2>3, <2>4 DEF IInv
<1>6. QED
    BY <1>1, <1>2, <1>3, <1>4, <1>5 DEF Next

LEMMA Invariance == Spec => []IInv
BY InitIInv, NextIInv, PTL DEF Spec

-----------------------------------------------------------------------------
(* The rows, the notifications and the sweeps' work always have the shape  *)
(* the tables and the code give them.                                      *)
THEOREM TypeCorrect == Spec => []TypeOK
<1>1. IInv => TypeOK
    BY DEF IInv
<1>2. QED
    BY <1>1, Invariance, PTL

(* A journey's recipients hear of its arrival exactly when it arrived,     *)
(* exactly once, and hear nothing that contradicts it.                     *)
THEOREM ArrivalIsToldOnce == Spec => []ArrivalToldOnce
<1>1. IInv => ArrivalToldOnce
    <2> SUFFICES ASSUME IInv, NEW j \in Journeys
                 PROVE  /\ \A p \in People : Heard(j, p, "arrived") =>
                                journey[j].status = "arrived"
                        /\ journey[j].status = "arrived" =>
                              \A p \in Recipients : told[j][p] = << "arrived" >>
        BY DEF ArrivalToldOnce
    <2>1. ASSUME NEW p \in People, Heard(j, p, "arrived")
          PROVE  journey[j].status = "arrived"
        <3>1. journey[j].status \in {"none", "active", "arrived", "cancelled", "expired"}
            BY DEF IInv, TypeOK, JourneyRows
        <3>2. told[j][p] # << >>
            BY <2>1 DEF Heard
        <3>3. journey[j].status # "expired"
            BY <2>1 DEF Heard, IInv, ToldByStatus
        <3>4. QED
            BY <3>1, <3>2, <3>3 DEF IInv, ToldByStatus
    <2>2. QED
        BY <2>1 DEF IInv, ToldByStatus
<1>2. QED
    BY <1>1, Invariance, PTL

(* Any number of overlapping sweeps tell each person of an expiry at most  *)
(* once.                                                                   *)
THEOREM ExpiryIsToldOnce == Spec => []ExpiryToldOnce
<1>1. IInv => ExpiryToldOnce
    BY DEF IInv
<1>2. QED
    BY <1>1, Invariance, PTL

(* A check-in request stands from the expiry to the first check-in, and at *)
(* no other time.                                                          *)
THEOREM RequestsStand == Spec => []RequestStands
<1>1. IInv => RequestStands
    BY DEF IInv
<1>2. QED
    BY <1>1, Invariance, PTL

(* The count and the time in the row are enough: no journey arrives by     *)
(* itself without two fixes inside the radius within the window and none   *)
(* outside between them.                                                   *)
THEOREM ArrivalsAreConfirmed == Spec => []ArrivalIsConfirmed
<1>1. IInv => ArrivalIsConfirmed
    <2> SUFFICES ASSUME CountIsRun, NEW j \in Journeys
                 PROVE  /\ journey[j].status = "active" => journey[j].count < 2
                        /\ journey[j].count = 2 =>
                              \E i, k \in 1..Len(run[j]) :
                                  i < k /\ run[j][k] - run[j][i] <= Window
        BY DEF IInv, ArrivalIsConfirmed
    <2>1. journey[j].status = "active" => journey[j].count < 2
        BY DEF CountIsRun
    <2>2. QED
        BY <2>1, Zenon DEF CountIsRun
<1>2. QED
    BY <1>1, Invariance, PTL

(* No handler and no sweep changes the outcome of a journey that has       *)
(* ended.                                                                  *)
THEOREM EndingsAreFinal == Spec => EndingIsFinal
<1>1. IInv /\ [Next]_vars =>
          [\A j \in Journeys : journey[j].status \notin {"none", "active"} =>
                /\ journey'[j].status = journey[j].status
                /\ journey'[j].count = journey[j].count
                /\ journey'[j].since = journey[j].since]_vars
    <2> SUFFICES ASSUME IInv, Next, NEW j \in Journeys,
                        journey[j].status \notin {"none", "active"}
                 PROVE  /\ journey'[j].status = journey[j].status
                        /\ journey'[j].count = journey[j].count
                        /\ journey'[j].since = journey[j].since
        OBVIOUS
    <2>0. journey \in [Journeys -> JourneyRows] /\ journey[j] \in JourneyRows
        BY DEF IInv, TypeOK
    <2>1. ASSUME NEW k \in Journeys, Handle(k), k # j
          PROVE  journey'[j] = journey[j]
        BY <2>0, <2>1 DEF Handle, Create, ConfirmArrival, RecordOutside, RecordInside,
                          CheckIn, Cancel
    <2>2. ASSUME Handle(j)
          PROVE  journey' = [journey EXCEPT ![j].asked = FALSE, ![j].checkIns = @ + 1]
        BY <2>2 DEF Handle, Create, ConfirmArrival, RecordOutside, RecordInside,
                    CheckIn, Cancel, UnderWay
    <2>3. ASSUME Handle(j)
          PROVE  /\ journey'[j].status = journey[j].status
                 /\ journey'[j].count = journey[j].count
                 /\ journey'[j].since = journey[j].since
        BY <2>0, <2>2, <2>3 DEF JourneyRows
    <2>4. ASSUME NEW s \in Sweeps, Sweep(s) \/ SweepDies(s)
          PROVE  journey'[j] = journey[j]
        BY <2>4 DEF Sweep, ExpireDue, NotifyExpiry, SweepDies, Due
    <2>5. CASE Tick
        BY <2>5 DEF Tick
    <2>6. QED
        BY <2>1, <2>3, <2>4, <2>5 DEF Next
<1>2. QED
    BY <1>1, Invariance, PTL DEF Spec, EndingIsFinal

=============================================================================
