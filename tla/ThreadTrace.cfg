SPECIFICATION FairSpec
CONSTANTS
    Group0 <- MCGroup
    Unreadable <- MCBad
    NoTrace = "none"
    NumCPUs = 2
    MaxCalls = 1
    AllocMayFail = FALSE
INVARIANTS
    SingleReader
    ReadBeforeReport
    RemovedForGood
PROPERTIES
    ImplementsPool
