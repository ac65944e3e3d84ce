----------------------------- MODULE Entitlement -----------------------------
(***************************************************************************)
(* What a paying user may rely on: every payment counts once, and each one *)
(* adds a full period after everything paid for so far.                    *)
(***************************************************************************)
EXTENDS Naturals

CONSTANTS Payments, Users, Payer, Period

VARIABLES credited,    \* the payments that count
          paidUntil    \* up to when each user has paid

ledger == << credited, paidUntil >>

Credit(p) ==
    /\ p \notin credited
    /\ credited' = credited \cup {p}
    /\ paidUntil'[Payer[p]] >= paidUntil[Payer[p]] + Period
    /\ \A u \in Users \ {Payer[p]} : paidUntil'[u] = paidUntil[u]

LedgerInit == credited = {} /\ paidUntil = [u \in Users |-> 0]

LedgerSpec == LedgerInit /\ [][\E p \in Payments : Credit(p)]_ledger
==============================================================================
