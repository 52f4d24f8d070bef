SPECIFICATION Spec
CONSTANTS
    sam = sam
    ann = ann
    cat = cat
    reviewer = reviewer
    riskowner = riskowner
    Person = {sam, ann, cat}
    Nobody = nobody
    Role = {reviewer, riskowner}
    Assigned <- AssignedTo
    Grants <- GrantsOf
    Policy = {1, 2}
    Authored = {2}
    TierStages <- StagesOf
    TierMode <- ModeOf
    RecertifyAfter <- RecertifyOf
    QueueRole = reviewer
    DueDays = 0
    EscalationDays = 1
    Holders <- HoldersOf
    Answers <- AnswersGiven
    Submitter = {sam}
    Decider = {sam, ann, cat}
    Acceptor = {cat}
    Manager = {ann}
    Suspendable = {ann}
    MaxDecisions = 2
    MaxDay = 2
INVARIANTS
    ApprovedByStageRole
CHECK_DEADLOCK FALSE
