SPECIFICATION Spec
CONSTANTS
    Files <- MCFiles
    KindOf <- MCKindOf
    Inputs <- MCReopenInputs
    NumCPUs = 1
    MaxCalls = 2
    AllocMayFail = TRUE
    PBARMULTIPLE = 2
INVARIANTS
    CounterExact
