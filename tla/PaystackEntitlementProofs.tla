---------------------- MODULE PaystackEntitlementProofs ----------------------
(***************************************************************************)
(* Proofs about PaystackEntitlement.  The inductive invariant says what    *)
(* the advisory lock is for: whoever has read up to when its user has paid *)
(* is the only one of that user's calls in the transaction, so what it     *)
(* read is still the latest when it inserts.  No assumption on the number  *)
(* of payments is needed: that a latest row exists is itself kept.         *)
(***************************************************************************)
EXTENDS PaystackEntitlement, TLAPS

IsLatest(table, u, t) ==
    /\ t \in { table[p] : p \in PaymentsOf(u) } \cup {0}
    /\ \A p \in PaymentsOf(u) : table[p] <= t

HasLatest == \A u \in Users : \E t \in Nat : IsLatest(rows, u, t)

Serialised == \A c, d \in Calls : \A u \in Users : HasLock(c, u) /\ HasLock(d, u) => c = d

ReadIsCurrent ==
    \A c \in Calls : At(c, "read") =>
        \A p \in PaymentsOf(CallPayer(c)) : rows[p] <= call[c].base

CallsArePaid == \A c \in Calls : ~At(c, "idle") => charge[call[c].payment] = "service"

IInv == /\ TypeOK
        /\ HasLatest
        /\ Serialised
        /\ ReadIsCurrent
        /\ CallsArePaid
        /\ PeriodsDisjoint
        /\ SettledIsPaid

(* LatestIn finds the latest date whenever there is one. *)
LEMMA LatestFound ==
    ASSUME NEW table \in [Payments -> Nat], NEW u \in Users,
           NEW t \in Nat, IsLatest(table, u, t)
    PROVE  LatestIn(table, u) = t
<1> DEFINE Dates == { table[p] : p \in PaymentsOf(u) } \cup {0}
           Bound(x) == \A p \in PaymentsOf(u) : table[p] <= x
<1>1. t \in Dates /\ Bound(t)
  BY DEF IsLatest
<1>2. ASSUME NEW x \in Dates, Bound(x) PROVE x = t
  <2>1. Dates \subseteq Nat
    BY DEF PaymentsOf
  <2>2. x <= t
    BY <1>1, <2>1 DEF PaymentsOf
  <2>3. t <= x
    BY <1>1, <1>2, <2>1 DEF PaymentsOf
  <2> QED
    BY <2>1, <2>2, <2>3
<1> HIDE DEF Dates, Bound
<1>3. (CHOOSE x \in Dates : Bound(x)) = t
  BY <1>1, <1>2
<1> QED
  BY <1>3 DEF LatestIn, Dates, Bound

LEMMA InitHolds == Init => IInv
<1> SUFFICES ASSUME Init PROVE IInv
  OBVIOUS
<1> USE DEF Init
<1>1. TypeOK
  BY TimeAssumption DEF TypeOK, Idle
<1>2. HasLatest
  <2> SUFFICES ASSUME NEW u \in Users PROVE IsLatest(rows, u, 0)
    BY DEF HasLatest
  <2> QED
    BY DEF IsLatest, PaymentsOf
<1>3. Serialised /\ ReadIsCurrent /\ CallsArePaid
  BY DEF Serialised, HasLock, ReadIsCurrent, CallsArePaid, At, Idle
<1>4. PeriodsDisjoint /\ SettledIsPaid
  BY DEF PeriodsDisjoint, SettledIsPaid
<1> QED
  BY <1>1, <1>2, <1>3, <1>4 DEF IInv

LEMMA TypeStep == TypeOK /\ HasLatest /\ [Next]_vars => TypeOK'
<1> SUFFICES ASSUME TypeOK, HasLatest, [Next]_vars PROVE TypeOK'
  OBVIOUS
<1> USE DEF TypeOK
<1>1. ASSUME NEW p \in Payments, Pay(p) PROVE TypeOK'
  <2>1. PICK kind \in {"service", "other"} : charge' = [charge EXCEPT ![p] = kind]
    BY <1>1 DEF Pay
  <2> QED
    BY <1>1, <2>1 DEF Pay
<1>2. ASSUME NEW c \in Calls, NEW p \in Payments, Webhook(c, p) PROVE TypeOK'
  <2> DEFINE taken == [step |-> "verified", payment |-> p, webhook |-> TRUE, base |-> 0]
  <2>1. CASE call' = [call EXCEPT ![c] = taken] /\ UNCHANGED answered
    <3>1. taken \in [step : {"idle", "verified", "locked", "read"},
                    payment : Payments \cup {"none"},
                    webhook : BOOLEAN,
                    base : Nat]
      OBVIOUS
    <3>2. taken.payment \in Payments
      OBVIOUS
    <3> HIDE DEF taken
    <3> QED
      BY <1>2, <2>1, <3>1, <3>2 DEF Webhook
  <2>2. CASE UNCHANGED call /\ answered' = answered \cup {p}
    BY <1>2, <2>2 DEF Webhook
  <2> QED
    BY <1>2, <2>1, <2>2 DEF Webhook
<1>3. ASSUME NEW c \in Calls, NEW u \in Users, NEW p \in Payments, SyncPayment(c, u, p)
      PROVE  TypeOK'
  BY <1>3, NoPaymentAssumption DEF SyncPayment, Idle
<1>4. ASSUME NEW c \in Calls, TakeLock(c) PROVE TypeOK'
  BY <1>4 DEF TakeLock, At
<1>5. ASSUME NEW c \in Calls, ReadPaidUntil(c) PROVE TypeOK'
  <2>1. CallPayer(c) \in Users
    BY <1>5, PayerAssumption DEF CallPayer, ReadPaidUntil, At
  <2>2. PICK t \in Nat : IsLatest(rows, CallPayer(c), t)
    BY <2>1 DEF HasLatest
  <2>3. Latest(CallPayer(c)) \in Nat
    BY <2>1, <2>2, LatestFound DEF Latest
  <2>4. now \in Nat
    BY TimeAssumption
  <2> QED
    BY <1>5, <2>3, <2>4 DEF ReadPaidUntil, At
<1>6. ASSUME NEW c \in Calls, Insert(c) PROVE TypeOK'
  <2>1. call[c].payment \in Payments /\ call[c].base + Period \in Nat
    BY <1>6, TimeAssumption DEF Insert, At
  <2> QED
    BY <1>6, <2>1 DEF Insert, Idle
<1>7. ASSUME NEW c \in Calls, Fail(c) PROVE TypeOK'
  BY <1>7, TimeAssumption DEF Fail, Idle
<1>8. CASE Tick
  BY <1>8, TimeAssumption DEF Tick
<1>9. CASE UNCHANGED vars
  BY <1>9 DEF vars
<1> QED
  BY <1>1, <1>2, <1>3, <1>4, <1>5, <1>6, <1>7, <1>8, <1>9 DEF Next, Persist

(* Only Insert writes a row: what it does to the rows and the answers.     *)
LEMMA RowsStep ==
    ASSUME TypeOK, [Next]_vars
    PROVE  \/ UNCHANGED rows
           \/ \E c \in Calls :
                  /\ Insert(c)
                  /\ call[c].payment \in Payments
                  /\ rows[call[c].payment] = 0
                  /\ rows' = [rows EXCEPT ![call[c].payment] = call[c].base + Period]
<1>1. ASSUME NEW c \in Calls, Insert(c)
      PROVE  \/ UNCHANGED rows
             \/ /\ call[c].payment \in Payments
                /\ rows[call[c].payment] = 0
                /\ rows' = [rows EXCEPT ![call[c].payment] = call[c].base + Period]
  BY <1>1 DEF Insert, At, TypeOK
<1> QED
  BY <1>1 DEF Next, vars, Pay, Webhook, SyncPayment, Persist, TakeLock, ReadPaidUntil,
              Fail, Tick

(* The row an insert adds is its user's latest.                            *)
LEMMA InsertIsLatest ==
    ASSUME TypeOK, ReadIsCurrent, NEW c \in Calls, Insert(c),
           rows' = [rows EXCEPT ![call[c].payment] = call[c].base + Period]
    PROVE  /\ call[c].base + Period \in Nat
           /\ IsLatest(rows', CallPayer(c), call[c].base + Period)
<1> DEFINE p == call[c].payment
           t == call[c].base + Period
<1>1. p \in Payments /\ t \in Nat /\ call[c].base \in Nat /\ Period \in Nat
  BY TimeAssumption DEF Insert, At, TypeOK
<1>2. p \in PaymentsOf(CallPayer(c))
  BY <1>1 DEF PaymentsOf, CallPayer
<1>3. rows'[p] = t
  BY <1>1 DEF TypeOK
<1>4. ASSUME NEW q \in PaymentsOf(CallPayer(c)) PROVE rows'[q] <= t
  <2>1. q \in Payments /\ rows[q] \in Nat
    BY DEF PaymentsOf, TypeOK
  <2>2. rows[q] <= call[c].base
    BY DEF ReadIsCurrent, Insert
  <2> QED
    BY <1>1, <2>1, <2>2 DEF TypeOK
<1> QED
  BY <1>1, <1>2, <1>3, <1>4 DEF IsLatest

LEMMA LatestStep == TypeOK /\ HasLatest /\ ReadIsCurrent /\ [Next]_vars => HasLatest'
<1> SUFFICES ASSUME TypeOK, HasLatest, ReadIsCurrent, [Next]_vars, NEW u \in Users
             PROVE  \E t \in Nat : IsLatest(rows', u, t)
  BY DEF HasLatest, IsLatest
<1>1. PICK t \in Nat : IsLatest(rows, u, t)
  BY DEF HasLatest
<1>2. CASE UNCHANGED rows
  BY <1>1, <1>2
<1>3. ASSUME NEW c \in Calls, Insert(c), call[c].payment \in Payments,
             rows' = [rows EXCEPT ![call[c].payment] = call[c].base + Period]
      PROVE  \E x \in Nat : IsLatest(rows', u, x)
  <2>1. CASE u = CallPayer(c)
    BY <1>3, <2>1, InsertIsLatest
  <2>2. CASE u # CallPayer(c)
    <3>1. \A q \in PaymentsOf(u) : q \in Payments /\ rows'[q] = rows[q]
      BY <1>3, <2>2 DEF PaymentsOf, CallPayer, TypeOK
    <3>2. IsLatest(rows', u, t)
      BY <1>1, <3>1 DEF IsLatest
    <3> QED
      BY <3>2
  <2> QED
    BY <2>1, <2>2
<1> QED
  BY <1>2, <1>3, RowsStep

LEMMA SerialisedStep == TypeOK /\ Serialised /\ [Next]_vars => Serialised'
<1> SUFFICES ASSUME TypeOK, Serialised, [Next]_vars PROVE Serialised'
  OBVIOUS
<1> USE DEF TypeOK, Serialised, HasLock, CallPayer, At
<1>1. ASSUME NEW c \in Calls, NEW p \in Payments, Webhook(c, p) PROVE Serialised'
  BY <1>1 DEF Webhook
<1>2. ASSUME NEW c \in Calls, NEW u \in Users, NEW p \in Payments, SyncPayment(c, u, p)
      PROVE  Serialised'
  BY <1>2 DEF SyncPayment, Idle
<1>3. ASSUME NEW c \in Calls, TakeLock(c) PROVE Serialised'
  BY <1>3 DEF TakeLock
<1>4. ASSUME NEW c \in Calls, ReadPaidUntil(c) PROVE Serialised'
  BY <1>4 DEF ReadPaidUntil
<1>5. ASSUME NEW c \in Calls, Insert(c) \/ Fail(c) PROVE Serialised'
  BY <1>5 DEF Insert, Fail, Idle
<1>6. CASE UNCHANGED call
  BY <1>6
<1> QED
  BY <1>1, <1>2, <1>3, <1>4, <1>5, <1>6 DEF Next, vars, Pay, Persist, Tick

LEMMA ReadStep == IInv /\ [Next]_vars => ReadIsCurrent'
<1> SUFFICES ASSUME IInv, [Next]_vars,
                    NEW d \in Calls, (At(d, "read"))',
                    NEW q \in Payments, Payer[q] = Payer[call'[d].payment]
             PROVE  rows'[q] <= call'[d].base
  BY DEF ReadIsCurrent, PaymentsOf, CallPayer
<1> USE DEF IInv, TypeOK, At
<1>1. ASSUME NEW c \in Calls, Insert(c) PROVE rows'[q] <= call'[d].base
  <2>1. d # c /\ call'[d] = call[d] /\ At(d, "read")
    BY <1>1 DEF Insert, Idle
  <2>2. call[c].payment \in Payments /\ call[d].payment \in Payments
    BY <1>1, <2>1 DEF Insert
  <2>3. Payer[call[c].payment] # Payer[call[d].payment]
    BY <1>1, <2>1, <2>2, PayerAssumption DEF Insert, Serialised, HasLock, CallPayer
  <2>4. rows'[q] = rows[q]
    BY <1>1, <2>1, <2>2, <2>3 DEF Insert
  <2>5. rows[q] <= call[d].base
    BY <2>1 DEF ReadIsCurrent, PaymentsOf, CallPayer
  <2> QED
    BY <2>1, <2>4, <2>5
<1>2. ASSUME NEW c \in Calls, ReadPaidUntil(c) PROVE rows'[q] <= call'[d].base
  <2>1. CASE d = c
    <3>1. CallPayer(c) \in Users /\ q \in PaymentsOf(CallPayer(c))
      BY <1>2, <2>1, PayerAssumption DEF CallPayer, PaymentsOf, ReadPaidUntil
    <3>2. PICK t \in Nat : IsLatest(rows, CallPayer(c), t)
      BY <3>1 DEF HasLatest
    <3>3. Latest(CallPayer(c)) = t
      BY <3>1, <3>2, LatestFound DEF Latest
    <3>4. rows[q] <= t /\ rows[q] \in Nat /\ now \in Nat
      BY <3>1, <3>2, TimeAssumption DEF IsLatest
    <3> QED
      BY <1>2, <2>1, <3>3, <3>4 DEF ReadPaidUntil
  <2>2. CASE d # c
    <3>1. call'[d] = call[d] /\ rows' = rows
      BY <1>2, <2>2 DEF ReadPaidUntil
    <3> QED
      BY <3>1 DEF ReadIsCurrent, PaymentsOf, CallPayer
  <2> QED
    BY <2>1, <2>2
<1>3. ASSUME rows' = rows, call'[d] = call[d] PROVE rows'[q] <= call'[d].base
  BY <1>3 DEF ReadIsCurrent, PaymentsOf, CallPayer
<1>4. ASSUME NEW c \in Calls, NEW p \in Payments, Webhook(c, p)
      PROVE  rows' = rows /\ call'[d] = call[d]
  BY <1>4 DEF Webhook
<1>5. ASSUME NEW c \in Calls, NEW u \in Users, NEW p \in Payments, SyncPayment(c, u, p)
      PROVE  rows' = rows /\ call'[d] = call[d]
  BY <1>5 DEF SyncPayment, Idle
<1>6. ASSUME NEW c \in Calls, TakeLock(c) \/ Fail(c) PROVE rows' = rows /\ call'[d] = call[d]
  BY <1>6 DEF TakeLock, Fail, Idle
<1> QED
  BY <1>1, <1>2, <1>3, <1>4, <1>5, <1>6 DEF Next, vars, Pay, Persist, Tick

LEMMA PaidStep == TypeOK /\ CallsArePaid /\ [Next]_vars => CallsArePaid'
<1> SUFFICES ASSUME TypeOK, CallsArePaid, [Next]_vars, NEW d \in Calls, ~(At(d, "idle"))'
             PROVE  charge'[call'[d].payment] = "service"
  BY DEF CallsArePaid
<1> USE DEF TypeOK, CallsArePaid, At
<1>1. ASSUME NEW p \in Payments, Pay(p) PROVE charge'[call'[d].payment] = "service"
  <2>1. charge[call[d].payment] = "service" /\ call' = call
    BY <1>1 DEF Pay
  <2>2. call[d].payment # p
    BY <1>1, <2>1 DEF Pay
  <2>3. PICK kind \in {"service", "other"} : charge' = [charge EXCEPT ![p] = kind]
    BY <1>1 DEF Pay
  <2>4. call[d].payment \in Payments
    BY <2>1
  <2> QED
    BY <2>1, <2>2, <2>3, <2>4
<1>2. ASSUME NEW c \in Calls, NEW p \in Payments, Webhook(c, p)
      PROVE  charge'[call'[d].payment] = "service"
  BY <1>2 DEF Webhook
<1>3. ASSUME NEW c \in Calls, NEW u \in Users, NEW p \in Payments, SyncPayment(c, u, p)
      PROVE  charge'[call'[d].payment] = "service"
  BY <1>3 DEF SyncPayment, Idle
<1>4. ASSUME NEW c \in Calls, Persist(c) \/ Fail(c)
      PROVE  charge'[call'[d].payment] = "service"
  BY <1>4 DEF Persist, TakeLock, ReadPaidUntil, Insert, Fail, Idle
<1>5. CASE UNCHANGED << call, charge >>
  BY <1>5
<1> QED
  BY <1>1, <1>2, <1>3, <1>4, <1>5 DEF Next, vars, Tick

(* The new period follows all that the insert's call has read.             *)
LEMMA DisjointStep == IInv /\ [Next]_vars => PeriodsDisjoint'
<1> SUFFICES ASSUME IInv, [Next]_vars PROVE PeriodsDisjoint'
  OBVIOUS
<1>1. CASE UNCHANGED rows
  BY <1>1 DEF IInv, PeriodsDisjoint
<1>2. ASSUME NEW c \in Calls, Insert(c), call[c].payment \in Payments,
             rows[call[c].payment] = 0,
             rows' = [rows EXCEPT ![call[c].payment] = call[c].base + Period]
      PROVE  PeriodsDisjoint'
  <2> DEFINE n == call[c].payment
             base == call[c].base
  <2>1. base \in Nat /\ Period \in Nat \ {0} /\ \A q \in Payments : rows[q] \in Nat
    BY TimeAssumption DEF IInv, TypeOK
  <2>2. \A q \in Payments : Payer[q] = Payer[n] => rows[q] <= base
    BY <1>2 DEF IInv, ReadIsCurrent, Insert, PaymentsOf, CallPayer
  <2>3. \A q \in Payments : rows'[q] = IF q = n THEN base + Period ELSE rows[q]
    BY <1>2 DEF IInv, TypeOK
  <2>4. ASSUME NEW p \in Payments, NEW q \in Payments, p # q, Payer[p] = Payer[q],
               rows'[p] # 0, rows'[q] # 0
        PROVE  rows'[p] >= rows'[q] + Period \/ rows'[q] >= rows'[p] + Period
    <3> HIDE DEF n, base
    <3>1. CASE p = n
      BY <2>1, <2>2, <2>3, <2>4, <3>1
    <3>2. CASE q = n
      BY <2>1, <2>2, <2>3, <2>4, <3>2
    <3>3. CASE p # n /\ q # n
      <4>1. rows'[p] = rows[p] /\ rows'[q] = rows[q]
        BY <2>3, <3>3
      <4> QED
        BY <2>4, <4>1 DEF IInv, PeriodsDisjoint
    <3> QED
      BY <3>1, <3>2, <3>3
  <2> QED
    BY <2>4 DEF PeriodsDisjoint
<1> QED
  BY <1>1, <1>2, RowsStep DEF IInv

LEMMA SettledStep == IInv /\ [Next]_vars => SettledIsPaid'
<1> SUFFICES ASSUME IInv, [Next]_vars PROVE SettledIsPaid'
  OBVIOUS
<1> USE DEF IInv, TypeOK, SettledIsPaid
<1>1. ASSUME NEW p \in Payments, Pay(p) PROVE SettledIsPaid'
  <2>1. PICK kind \in {"service", "other"} : charge' = [charge EXCEPT ![p] = kind]
    BY <1>1 DEF Pay
  <2>2. rows[p] = 0 /\ charge[p] = "none" /\ rows' = rows /\ answered' = answered
    BY <1>1 DEF Pay
  <2>3. p \notin answered
    BY <1>1 DEF Pay
  <2> QED
    BY <2>1, <2>2, <2>3
<1>2. ASSUME NEW c \in Calls, NEW p \in Payments, Webhook(c, p) PROVE SettledIsPaid'
  BY <1>2 DEF Webhook
<1>3. ASSUME NEW c \in Calls, Insert(c) PROVE SettledIsPaid'
  <2>1. call[c].payment \in Payments /\ charge[call[c].payment] = "service"
    BY <1>3 DEF Insert, At, CallsArePaid
  <2>2. call[c].base + Period # 0
    BY TimeAssumption
  <2>3. \A q \in Payments : rows'[q] = rows[q] \/ q = call[c].payment
    BY <1>3 DEF Insert
  <2>4. rows'[call[c].payment] # 0
    BY <1>3, <2>1, <2>2 DEF Insert
  <2>5. \A q \in answered' : q \in answered \/ q = call[c].payment
    BY <1>3 DEF Insert
  <2>6. charge' = charge
    BY <1>3 DEF Insert
  <2> QED
    BY <2>1, <2>3, <2>4, <2>5, <2>6
<1>4. CASE UNCHANGED << charge, answered, rows >>
  BY <1>4
<1> QED
  BY <1>1, <1>2, <1>3, <1>4
  DEF Next, vars, SyncPayment, Persist, TakeLock, ReadPaidUntil, Fail, Tick

(* The inductive invariant holds throughout. *)
THEOREM InvariantHolds == Spec => []IInv
<1>1. IInv /\ [Next]_vars => IInv'
  BY TypeStep, LatestStep, SerialisedStep, ReadStep, PaidStep, DisjointStep, SettledStep
  DEF IInv
<1> QED
  BY <1>1, InitHolds, PTL DEF Spec

(* Type correctness of the rows and of the calls under way.                *)
THEOREM TypeCorrect == Spec => []TypeOK
<1>1. IInv => TypeOK
  BY DEF IInv
<1> QED
  BY <1>1, InvariantHolds, PTL

(* However reports of payments race, their periods never overlap.          *)
THEOREM NoDayLost == Spec => []PeriodsDisjoint
<1>1. IInv => PeriodsDisjoint
  BY DEF IInv
<1> QED
  BY <1>1, InvariantHolds, PTL

(* Only payments for this service count, and an answered one does.         *)
THEOREM SettledArePaid == Spec => []SettledIsPaid
<1>1. IInv => SettledIsPaid
  BY DEF IInv
<1> QED
  BY <1>1, InvariantHolds, PTL

(* A payment reported again changes nothing.                               *)
THEOREM EachBoughtOnce == Spec => BoughtOnce
<1>1. TypeOK /\ [Next]_vars =>
         [\A p \in Payments : rows[p] # 0 => rows'[p] = rows[p]]_vars
  <2> SUFFICES ASSUME TypeOK, [Next]_vars, NEW p \in Payments, rows[p] # 0
               PROVE  rows'[p] = rows[p]
    OBVIOUS
  <2> QED
    BY RowsStep DEF TypeOK
<1> QED
  BY <1>1, TypeCorrect, PTL DEF Spec, BoughtOnce

(* The rows implement the ledger: a step stutters or credits one payment.  *)
THEOREM RefinesLedger == Spec => ImplementsLedger
<1>1. Init => Ledger!LedgerInit
  <2> SUFFICES ASSUME Init PROVE Ledger!LedgerInit
    OBVIOUS
  <2>1. rows \in [Payments -> Nat] /\ \A p \in Payments : rows[p] = 0
    BY DEF Init
  <2>2. ASSUME NEW u \in Users PROVE Latest(u) = 0
    <3>1. IsLatest(rows, u, 0)
      BY <2>1 DEF IsLatest, PaymentsOf
    <3> QED
      BY <2>1, <3>1, LatestFound DEF Latest
  <2> QED
    BY <2>1, <2>2 DEF Ledger!LedgerInit
<1>2. IInv /\ IInv' /\ [Next]_vars => [\E p \in Payments : Ledger!Credit(p)]_(Ledger!ledger)
  <2> SUFFICES ASSUME IInv, IInv', [Next]_vars
               PROVE  [\E p \in Payments : Ledger!Credit(p)]_(Ledger!ledger)
    OBVIOUS
  <2>1. CASE UNCHANGED rows
    BY <2>1 DEF Ledger!ledger, Latest
  <2>2. ASSUME NEW c \in Calls, Insert(c), call[c].payment \in Payments,
               rows[call[c].payment] = 0,
               rows' = [rows EXCEPT ![call[c].payment] = call[c].base + Period]
        PROVE  Ledger!Credit(call[c].payment)
    <3> DEFINE n == call[c].payment
               t == call[c].base + Period
    <3>1. rows \in [Payments -> Nat] /\ rows' \in [Payments -> Nat] /\ Payer[n] \in Users
      BY <2>2, PayerAssumption DEF IInv, TypeOK
    <3>2. t \in Nat /\ call[c].base \in Nat /\ Period \in Nat \ {0}
      BY TimeAssumption DEF IInv, TypeOK
    <3>3. n \notin { p \in Payments : rows[p] # 0 }
      BY <2>2
    <3>4. { p \in Payments : rows'[p] # 0 } = { p \in Payments : rows[p] # 0 } \cup {n}
      BY <2>2, <3>1, <3>2
    <3>5. LatestIn(rows', Payer[n]) = t
      BY <2>2, <3>1, <3>2, InsertIsLatest, LatestFound DEF IInv, CallPayer
    <3>6. LatestIn(rows, Payer[n]) \in Nat /\ LatestIn(rows, Payer[n]) <= call[c].base
      <4>1. PICK x \in Nat : IsLatest(rows, Payer[n], x)
        BY <3>1 DEF IInv, HasLatest
      <4>2. LatestIn(rows, Payer[n]) = x
        BY <3>1, <4>1, LatestFound
      <4>3. \A q \in PaymentsOf(Payer[n]) : rows[q] <= call[c].base
        BY <2>2 DEF IInv, ReadIsCurrent, CallPayer, Insert
      <4> QED
        BY <3>2, <4>1, <4>2, <4>3 DEF IsLatest
    <3>7. ASSUME NEW u \in Users \ {Payer[n]} PROVE LatestIn(rows', u) = LatestIn(rows, u)
      <4>1. PICK x \in Nat : IsLatest(rows, u, x)
        BY DEF IInv, HasLatest
      <4>2. \A q \in PaymentsOf(u) : q \in Payments /\ rows'[q] = rows[q]
        BY <2>2, <3>1 DEF PaymentsOf
      <4>3. IsLatest(rows', u, x)
        BY <4>1, <4>2 DEF IsLatest
      <4> QED
        BY <3>1, <4>1, <4>3, LatestFound
    <3>8. LatestIn(rows', Payer[n]) >= LatestIn(rows, Payer[n]) + Period
      BY <3>2, <3>5, <3>6
    <3> HIDE DEF n, t
    <3> QED
      BY <3>1, <3>3, <3>4, <3>7, <3>8 DEF Ledger!Credit, Latest, n
  <2>3. ASSUME ~UNCHANGED rows PROVE \E p \in Payments : Ledger!Credit(p)
    <3>1. TypeOK
      BY DEF IInv
    <3>2. PICK c \in Calls :
             /\ Insert(c)
             /\ call[c].payment \in Payments
             /\ rows[call[c].payment] = 0
             /\ rows' = [rows EXCEPT ![call[c].payment] = call[c].base + Period]
      BY <2>3, <3>1, RowsStep
    <3>3. Ledger!Credit(call[c].payment)
      BY <2>2, <3>2
    <3> QED
      BY <3>2, <3>3 DEF Ledger!Credit
  <2> QED
    BY <2>1, <2>3
<1> QED
  BY <1>1, <1>2, InvariantHolds, PTL DEF Spec, ImplementsLedger, Ledger!LedgerSpec
=============================================================================
