SPECIFICATION Spec
CONSTANTS
    e1 = e1
    e2 = e2
    t1 = t1
    Event = {e1, e2}
    Tenant = {t1}
    TenantOf <- OneTenant
    Request = {r1}
    Sweeper = sweeper
    NoWorker = nobody
    Serialized = FALSE
    ClaimLimit = 2
    MaxAttempts = 2
    PoisonPlan <- NoPoisonPlan
    MaxFaults = 0
    EvidenceCap = 1
INVARIANT
    InventoryExactlyOnce
