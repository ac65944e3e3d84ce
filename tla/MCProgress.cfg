\* Two contacts with two channels each, of which e-mail is not configured; two sessions
\* with a buffer of two, uploads that fail; three broadcasts with two dedupe keys on a
\* pool of four.
CONSTANTS
    Jobs = {started}
    Plan <- TwoContacts
    Configured = {"sms"}
    LosesAnswers = TRUE
    Attempts = 3
    MaxStalled = 1
    NumSessions = 2
    MaxFixes = 4
    MaxUploadFailures = 2
    MaxBuffer = 2
    MaxBatches = 3
    Calls = {c1, c2, c3}
    Keys = {k1, k2}
    Members = {m1, m2}
    PoolSize = 4
    MaxFailures = 1
SPECIFICATION ProgressSpec
INVARIANTS
    ProgressTypes
    ReachedOncePerAttempt
    NobodyPassedOver
    RecordsNeverOverstate
    NothingIsLost
PROPERTIES
    JobsSettle
    FailedIsRetried
    BroadcastEnds
CHECK_DEADLOCK FALSE
