\* Two payments of one user and three calls: a payment reported twice while another is.
SPECIFICATION FairSpec
CONSTANTS
    p1 = p1
    p2 = p2
    ada = ada
    Payments = {p1, p2}
    Users = {ada}
    Payer <- BothAda
    Calls = {c1, c2, c3}
    Period = 2
    Horizon = 2
    MaxFailures = 1
INVARIANTS
    TypeOK
    PeriodsDisjoint
    SettledIsPaid
PROPERTIES
    ImplementsLedger
    PaidIsServed
CHECK_DEADLOCK FALSE
