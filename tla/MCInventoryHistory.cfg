CONSTANTS
    f1 = f1
    f2 = f2
    Fold = {f1}
    None = None
    Workload <- MCWorkload
    SampleCap = 1
    Heavy = 1
    Registration <- MCRegistration
    UseCases <- MCUseCases
    MaxFailures = 0
    MaxRegistry = 0
SPECIFICATION InventorySpec
INVARIANTS FingerprintIsHistory
CHECK_DEADLOCK FALSE
