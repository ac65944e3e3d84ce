\* One journey callback at a time, as the system queues the calls of its background
\* task; two alerts and one fault; two places, one in a critical zone, and three checks;
\* three calls and two codes; five reports of no quality or of the best and half a year's
\* silence; each threshold of the audience decision with a value below and one above it;
\* two overlapping transactions over two reports.
CONSTANTS
    Callbacks = {c1}
    NumJourneys = 2
    MaxFixes = 4
    Poor = {2}
    MaxPending = 2
    Alerts = {a1, a2}
    None = None
    MaxFaults = 1
    Places = {p1, p2}
    Zoned = {p1}
    Interval = 2
    MaxRuns = 3
    MaxTime = 3
    OtpCalls = {c1, c2, c3}
    MaxCodes = 2
    MaxAttempts = 2
    MaxReports = 5
    StandingQualities = {0, 100}
    Given = {"action_taken"}
    Silences = {6}
    Confidences = {0, 75, 85}
    SpreadQualities = {0, 70}
    MaxConfirmations = 2
    MaxRecent = 4
    ReviewReports = {a1, a2}
    ReviewCalls = {r1, r2}
    Others = 1
    NoReport = NoReport
SYMMETRY Interchangeable
SPECIFICATION SafetySpec
INVARIANTS
    SafetyTypes
    
    CodesStaySpent
PROPERTIES
    ScreenHearsItsAlert
    AlarmIsDue
    
    
    VerdictIsHeeded
CHECK_DEADLOCK FALSE
