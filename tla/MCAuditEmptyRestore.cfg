SPECIFICATION Spec
CONSTANTS
    Handler = {h1}
    Clerk = {c1}
    NoWriter = NoWriter
    Backends = {"sqlite"}
    Journals = {TRUE}
    RestoreFloor = 0
    MaxRow = 3
    MaxUnit = 2
    MaxEpoch = 1
    MaxDumps = 1
    MaxFaults = 1
INVARIANT NoFalseAlarm
CHECK_DEADLOCK FALSE
