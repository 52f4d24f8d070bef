SPECIFICATION Spec
CONSTANTS
    parent = parent
    child = child
    e1 = e1
    e2 = e2
    Proc = {parent, child}
    Event = {e1, e2}
    Unserial = {e2}
    First = parent
    Spooling = TRUE
    QueueMax = 2
    SpoolMax = 1
    MaxRetries = 1
    MaxOutages = 1
    MaxCrashes = 1
INVARIANTS
    SentByOne
CHECK_DEADLOCK FALSE
