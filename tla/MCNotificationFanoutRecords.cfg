SPECIFICATION Spec
CONSTANTS
    Jobs = {started}
    Plan <- OneContact
    Configured = {"sms", "email"}
    LosesAnswers = FALSE
    Attempts = 3
    MaxStalled = 1
INVARIANTS
    OutcomesRecorded
CHECK_DEADLOCK FALSE
