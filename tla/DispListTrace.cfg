SPECIFICATION Spec
CONSTANTS
    Trcs <- MCTrcs
    Epochs <- MCEpochs
    SortKeys <- MCSortKeys
    Criteria <- MCCriteria
    PlotCounts = {2, 3}
    Spread = 2
    Loads <- MCLoadsFew
    MaxStart = 4
    MaxPrev = 3
    Features = {"jump", "shiftClick", "resize", "select", "remove", "sort", "sortFile", "replace", "shots"}
INVARIANTS
    TypeOK
    
    DrawnHasData
    HeldIsShown
