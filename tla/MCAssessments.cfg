CONSTANTS
    f1 = f1
    f2 = f2
    Fold <- MCFold
    Workload <- MCWorkload
    Control = {"data", "guardrail", "eval", "health"}
    Own = {"own"}
    Requests <- MCRequests
    Definitions <- MCDefinitions
    UseCases = {"claims"}
    None = None
    WindowDays = 0
    StaleDays = 0
    MinCoverage = 800
    MaxDay = 2
    MaxChanges = 1
    MaxFaults = 1
SPECIFICATION Spec
INVARIANTS NothingLeftToRaise CoverageIsExact
SYMMETRY Folds
CHECK_DEADLOCK FALSE
