SPECIFICATION Spec
CONSTANTS
    Handler = {h1}
    Clerk = {c1}
    NoWriter = NoWriter
    Backends = {"sqlite", "postgres"}
    Journals = {TRUE}
    RestoreFloor = 1
    MaxRow = 3
    MaxUnit = 2
    MaxEpoch = 1
    MaxDumps = 2
    MaxFaults = 1
INVARIANT ChangeHasRecord
CHECK_DEADLOCK FALSE
