CONSTANTS
    r1 = r1
    r2 = r2
    Request <- MCRequest
    Password = {pa, pb}
    Recovery = {c1}
    Wrong = wrong
    Threshold <- MCThreshold
    MaxCodeTries = 2
    LockNoShorter = TRUE
    MaxClock = 1
    MaxChallenges = 1
    MaxRequests = 5
    MaxTicks = 2
SPECIFICATION Spec
INVARIANTS GuessesBounded LockoutReportedOnce UsedOnce
SYMMETRY Requests
CHECK_DEADLOCK FALSE
