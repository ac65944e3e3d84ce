------------------------- MODULE PaystackEntitlement -------------------------
(***************************************************************************)
(* How a Paystack payment becomes thirty days of service:                  *)
(* SubscriptionsService.syncPayment, which the client calls with a         *)
(* reference, and handlePaystackWebhook, which Paystack calls until it is  *)
(* answered, both ending in persistSnapshotWithClient.                     *)
(*                                                                         *)
(* Client and webhook report the same payment in any order, at once, and   *)
(* more than once; several payments of one user may be reported together.  *)
(* A call the guards refuse changes nothing and is not an action here.     *)
(***************************************************************************)
EXTENDS Naturals

CONSTANTS Payments,     \* Paystack references
          Users,
          Payer,        \* the metadata.userId of each payment
          Calls,        \* calls the server works on at once
          Period,       \* the 30 days, in ticks
          Horizon,      \* bound on the clock
          MaxFailures   \* bound on the calls that fail once they are under way

ASSUME PayerAssumption == Payer \in [Payments -> Users]
ASSUME TimeAssumption == Period \in Nat \ {0} /\ Horizon \in Nat /\ MaxFailures \in Nat
ASSUME NoPaymentAssumption == "none" \notin Payments

VARIABLES charge,    \* at Paystack: "none", "service" (ours, at our price) or "other"
          answered,  \* the payments whose webhook Paystack has an answer for
          rows,      \* subscriptions rows: the paid_until under each reference, 0 if none
          call,      \* the calls being worked on
          now,       \* the clock
          failures

vars == << charge, answered, rows, call, now, failures >>

Idle == [step |-> "idle", payment |-> "none", webhook |-> FALSE, base |-> 0]

Init ==
    /\ charge = [p \in Payments |-> "none"]
    /\ answered = {}
    /\ rows = [p \in Payments |-> 0]
    /\ call = [c \in Calls |-> Idle]
    /\ now = 0
    /\ failures = 0

PaymentsOf(u) == { p \in Payments : Payer[p] = u }
LatestIn(table, u) ==
    CHOOSE t \in { table[p] : p \in PaymentsOf(u) } \cup {0} :
        \A p \in PaymentsOf(u) : table[p] <= t
Latest(u) == LatestIn(rows, u)

At(c, step) == call[c].step = step
CallPayer(c) == Payer[call[c].payment]
HasLock(c, u) == call[c].step \in {"locked", "read"} /\ CallPayer(c) = u

-----------------------------------------------------------------------------
(* The charge goes through at Paystack, for this service or another one.   *)
Pay(p) ==
    /\ charge[p] = "none"
    /\ \E kind \in {"service", "other"} : charge' = [charge EXCEPT ![p] = kind]
    /\ UNCHANGED << answered, rows, call, now, failures >>

(* Fault: any successful charge of the user will do.                       *)
SyncPaymentAnyCharge(c, u, p) ==
    /\ At(c, "idle")
    /\ charge[p] # "none"
    /\ Payer[p] = u
    /\ call' = [call EXCEPT ![c] = [Idle EXCEPT !.step = "verified", !.payment = p]]
    /\ UNCHANGED << charge, answered, rows, now, failures >>

(* fetchPaystackSnapshot asks Paystack: the charge must have succeeded, be *)
(* the caller's own, and for this service at its price.                    *)
SyncPayment(c, u, p) ==
    /\ At(c, "idle")
    /\ charge[p] = "service"
    /\ Payer[p] = u
    /\ call' = [call EXCEPT ![c] = [Idle EXCEPT !.step = "verified", !.payment = p]]
    /\ UNCHANGED << charge, answered, rows, now, failures >>

(* Fault: the webhook answers before the payment is stored.                *)
WebhookAnswersFirst(c, p) ==
    /\ At(c, "idle")
    /\ charge[p] # "none"
    /\ p \notin answered
    /\ answered' = answered \cup {p}
    /\ IF charge[p] = "service"
          THEN call' = [call EXCEPT ![c] = [Idle EXCEPT !.step = "verified", !.payment = p]]
          ELSE UNCHANGED call
    /\ UNCHANGED << charge, rows, now, failures >>

(* Fault: a charge without a reference is taken up.                        *)
WebhookUnreferenced(c, p) ==
    /\ At(c, "idle")
    /\ charge[p] # "none"
    /\ p \notin answered
    /\ call' = [call EXCEPT ![c] = [Idle EXCEPT !.step = "verified", !.webhook = TRUE]]
    /\ UNCHANGED << charge, answered, rows, now, failures >>

(* charge.success: a charge that is not for this service is answered and   *)
(* left alone.                                                             *)
Webhook(c, p) ==
    /\ At(c, "idle")
    /\ charge[p] # "none"
    /\ p \notin answered
    /\ \/ /\ charge[p] = "service"
          /\ call' = [call EXCEPT ![c] = [step |-> "verified", payment |-> p,
                                          webhook |-> TRUE, base |-> 0]]
          /\ UNCHANGED answered
       \/ /\ charge[p] = "other"
          /\ answered' = answered \cup {p}
          /\ UNCHANGED call
    /\ UNCHANGED << charge, rows, now, failures >>

-----------------------------------------------------------------------------
(* persistSnapshotWithClient, one transaction. *)

(* Fault: nothing serialises the payments of one user.                     *)
TakeLockTogether(c) ==
    /\ At(c, "verified")
    /\ call' = [call EXCEPT ![c].step = "locked"]
    /\ UNCHANGED << charge, answered, rows, now, failures >>

(* pg_advisory_xact_lock on the user, held to the end of the transaction.  *)
TakeLock(c) ==
    /\ At(c, "verified")
    /\ \A d \in Calls : ~HasLock(d, CallPayer(c))
    /\ call' = [call EXCEPT ![c].step = "locked"]
    /\ UNCHANGED << charge, answered, rows, now, failures >>

(* Fault: the new period starts today, whatever has been paid for.         *)
ReadPaidUntilIgnored(c) ==
    /\ At(c, "locked")
    /\ call' = [call EXCEPT ![c].step = "read", ![c].base = now]
    /\ UNCHANGED << charge, answered, rows, now, failures >>

(* The new period follows the paid one, or starts now if that is over.     *)
ReadPaidUntil(c) ==
    LET paid == Latest(CallPayer(c))
    IN  /\ At(c, "locked")
        /\ call' = [call EXCEPT ![c].step = "read", ![c].base = IF paid > now THEN paid ELSE now]
        /\ UNCHANGED << charge, answered, rows, now, failures >>

(* INSERT ... ON CONFLICT (provider, provider_ref) DO NOTHING, the commit, *)
(* and the answer, which Paystack may not get.                             *)
Insert(c) ==
    LET p == call[c].payment
    IN  /\ At(c, "read")
        /\ rows' = IF rows[p] = 0 THEN [rows EXCEPT ![p] = call[c].base + Period] ELSE rows
        /\ \/ call[c].webhook /\ answered' = answered \cup {p}
           \/ UNCHANGED answered
        /\ call' = [call EXCEPT ![c] = Idle]
        /\ UNCHANGED << charge, now, failures >>

(* A failing query or a crash: the transaction is rolled back.             *)
Fail(c) ==
    /\ call[c].step # "idle"
    /\ failures < MaxFailures
    /\ failures' = failures + 1
    /\ call' = [call EXCEPT ![c] = Idle]
    /\ UNCHANGED << charge, answered, rows, now >>

Tick ==
    /\ now < Horizon
    /\ now' = now + 1
    /\ UNCHANGED << charge, answered, rows, call, failures >>

-----------------------------------------------------------------------------
Persist(c) == TakeLock(c) \/ ReadPaidUntil(c) \/ Insert(c)

Next ==
    \/ \E p \in Payments : Pay(p)
    \/ \E c \in Calls :
          \/ \E p \in Payments : Webhook(c, p) \/ \E u \in Users : SyncPayment(c, u, p)
          \/ Persist(c)
          \/ Fail(c)
    \/ Tick

Spec == Init /\ [][Next]_vars

(* PostgreSQL grants the lock in turn, every call goes on, and Paystack    *)
(* repeats a webhook until it has an answer.  The client need not report.  *)
FairSpec ==
    /\ Spec
    /\ \A c \in Calls : SF_vars(TakeLock(c)) /\ WF_vars(ReadPaidUntil(c)) /\ WF_vars(Insert(c))
    /\ \A p \in Payments : SF_vars(\E c \in Calls : Webhook(c, p))

-----------------------------------------------------------------------------
(* The type invariant of the rows and of the calls under way.              *)
TypeOK ==
    /\ charge \in [Payments -> {"none", "service", "other"}]
    /\ answered \subseteq Payments
    /\ rows \in [Payments -> Nat]
    /\ call \in [Calls -> [step : {"idle", "verified", "locked", "read"},
                           payment : Payments \cup {"none"},
                           webhook : BOOLEAN,
                           base : Nat]]
    /\ \A c \in Calls : call[c].step # "idle" => call[c].payment \in Payments
    /\ now \in 0..Horizon
    /\ failures \in 0..MaxFailures

(* No paid day is lost and none is counted twice: the periods the payments *)
(* of a user bought do not overlap, however their reports race.            *)
PeriodsDisjoint ==
    \A p, q \in Payments :
        p # q /\ Payer[p] = Payer[q] /\ rows[p] # 0 /\ rows[q] # 0 =>
            rows[p] >= rows[q] + Period \/ rows[q] >= rows[p] + Period

(* Service is given for payments of this service only, and Paystack is not *)
(* told that one is settled while it is not.                               *)
SettledIsPaid ==
    \A p \in Payments :
        /\ rows[p] # 0 => charge[p] = "service"
        /\ p \in answered => charge[p] = "other" \/ rows[p] # 0

(* A payment reported again changes nothing: what it bought is fixed.      *)
BoughtOnce == [][\A p \in Payments : rows[p] # 0 => rows'[p] = rows[p]]_vars

(* Whoever paid is served, even if the client never reports the payment    *)
(* and calls fail.                                                         *)
PaidIsServed == \A p \in Payments : charge[p] = "service" ~> rows[p] # 0

(* The rows are what a user may rely on: every report of a payment but the *)
(* first is void, and that one adds a whole period.                        *)
Ledger == INSTANCE Entitlement WITH
    credited <- { p \in Payments : rows[p] # 0 },
    paidUntil <- [u \in Users |-> Latest(u)]

ImplementsLedger == Ledger!LedgerSpec
=============================================================================
