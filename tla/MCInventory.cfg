CONSTANTS
    f1 = f1
    f2 = f2
    Fold <- MCFold
    None = None
    Workload <- MCWorkload
    SampleCap = 1
    Heavy = 1
    Registration <- MCRegistration
    UseCases <- MCUseCases
    MaxFailures = 1
    MaxRegistry = 1
SPECIFICATION InventorySpec
INVARIANTS InventoryIsExact OpenIncidentAnnounced ToolUseIsJudged
SYMMETRY Folds
CHECK_DEADLOCK FALSE
