SPECIFICATION Spec
CONSTANTS
    Handler = {h1}
    Clerk = {c1}
    NoWriter = NoWriter
    Backends = {"sqlite", "postgres"}
    Journals = {TRUE, FALSE}
    RestoreFloor = 1
    MaxRow = 4
    MaxUnit = 2
    MaxEpoch = 1
    MaxDumps = 2
    MaxFaults = 1
INVARIANTS
    ChainNeverForks
    UnitIsAtomic
    VerdictIsSound
    NoFalseAlarm
    CurrentIsComplete
    CheckpointsInOrder
PROPERTY AppendsExtendAnchored
CHECK_DEADLOCK FALSE
