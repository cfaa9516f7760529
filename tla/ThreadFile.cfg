SPECIFICATION FairSpec
CONSTANTS
    Files <- MCFiles
    KindOf <- MCKindOf
    Inputs <- MCInputs
    NumCPUs = 1
    MaxCalls = 1
    AllocMayFail = FALSE
    PBARMULTIPLE = 2
INVARIANTS
    TypeOK
    EveryFileHandedOut
    OneReader
    CompleteUnlessEarly
    SideListsComplete
PROPERTIES
    ImplementsPool
