\* Two wrong answers to one challenge that should stand no more than two.
CONSTANTS
    Calls = {c1, c2}
    MaxCodes = 1
    MaxAttempts = 2
SPECIFICATION Spec
INVARIANTS
    AttemptsCount
CHECK_DEADLOCK FALSE
