\* Two journeys that may be due at once or one after the other, two sweeps that overlap,
\* one of which may die.
SPECIFICATION FairSpec
CONSTANTS
    Journeys = {j1, j2}
    Owner = owner
    Recipients = {p1, p2}
    Sweeps = {s1, s2}
    Durations = {3}
    Window = 2
    Horizon = 4
    MaxFixes = 3
    MaxCheckIns = 1
    MaxFailures = 1
INVARIANTS
    TypeOK
    ArrivalToldOnce
    ExpiryToldOnce
    
PROPERTIES
    ExpiryIsTold
    NoJourneyForgotten
CHECK_DEADLOCK FALSE
