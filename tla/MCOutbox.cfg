CONSTANTS
    loop1 = loop1
    request1 = request1
    loop2 = loop2
    p1 = p1
    p2 = p2
    approved = approved
    lapsed = lapsed
    ann = ann
    hook = hook
    Thread <- MCThread
    Requests <- MCRequests
    ProcOf <- MCProcOf
    Transition = {approved, lapsed}
    User = {ann}
    Hook = {hook}
    ToUsers <- MCToUsers
    Subscribed <- MCSubscribed
    SmtpSet = TRUE
    Limit = 1
    MaxAttempts = 3
    MaxRows = 1
    MaxKills = 1
    MaxDowntimes = 1
SPECIFICATION OutboxSpec
INVARIANTS OutcomeIsTrue
PROPERTIES EventuallySettled
CHECK_DEADLOCK FALSE
