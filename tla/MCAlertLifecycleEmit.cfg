SPECIFICATION FairSpec
CONSTANTS
    Alerts = {a1}
    Requests = {r1, r2}
    RequestedStages = {"monitoring", "high_alert"}
    MaxCrashes = 0
PROPERTIES
    CancelIsEmitted
CHECK_DEADLOCK FALSE
