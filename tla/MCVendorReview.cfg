SPECIFICATION Spec
CONSTANTS
    ann = ann
    bob = bob
    cat = cat
    reviewer = reviewer
    riskowner = riskowner
    narrow = narrow
    wide = wide
    dpa = dpa
    Person = {ann, bob, cat}
    Nobody = nobody
    Role = {reviewer, riskowner}
    Assigned <- AssignedTo
    Grants <- GrantsOf
    Policy = {1, 2}
    VendorStages <- StagesOf
    RecertifyAfter <- RecertifyOf
    Configurer = {ann}
    Manager = {ann}
    Surface = {narrow, wide}
    Uncovered = {wide}
    Kind = {dpa}
    NoticeDays = 1
    MaxRound = 2
    MaxDay = 2
INVARIANTS
    ApprovalCoversVendor
    ApprovedWithoutExpiredEvidence
PROPERTIES
    LapseIsNoticed
CHECK_DEADLOCK FALSE
