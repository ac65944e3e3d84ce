SPECIFICATION Spec
CONSTANTS
    Alerts = {a1}
    Requests = {r1, r2, r3}
    RequestedStages = {"monitoring", "soft_alert", "high_alert"}
    MaxCrashes = 0
PROPERTIES
    StageNeverFalls
CHECK_DEADLOCK FALSE
