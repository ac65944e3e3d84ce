\* Two devices, a session on each and one rotation, or one device and two rotations; resets
\* at any time.
CONSTANTS
    Phones = {p1, p2}
    Tokens = {t1, t2, t3}
    NoToken = NoToken
    MaxLost = 1
SPECIFICATION FairSpec
INVARIANTS
    PhoneHoldsLive
PROPERTIES
    ResetEndsAll
    ImplementsBook
    RefreshEnds
CHECK_DEADLOCK FALSE
