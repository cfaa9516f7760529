SPECIFICATION PlotFairSpec
CONSTANTS
    Group0 <- MCGroup
    Unreadable <- MCBad
    NoTrace = "none"
    NumCPUs = 2
    MaxCalls = 3
    AllocMayFail = FALSE
    MaxOpens = 4
    Hasty <- MCNone
INVARIANTS
    PlotTypeOK
    DrawnIsRead
    
    HeadersReadOnce
PROPERTIES
    Displayed
