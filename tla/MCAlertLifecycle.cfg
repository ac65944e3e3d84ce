\* As many ids as requests: two requests may act on one alert while a third opens or
\* ends another.
SPECIFICATION FairSpec
CONSTANTS
    Alerts = {a1, a2, a3}
    Requests = {r1, r2, r3}
    RequestedStages = {"monitoring", "soft_alert", "high_alert"}
    MaxCrashes = 1
INVARIANTS
    TypeOK
    SessionFollowsAlert
    
    OneEnding
    AnnouncedIsCommitted
PROPERTIES
    ImplementsBook
    EveryRequestEnds
CHECK_DEADLOCK FALSE
