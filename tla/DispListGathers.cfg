SPECIFICATION Spec
CONSTANTS
    Trcs <- MCTrcs
    Epochs <- MCEpochs
    SortKeys <- MCOneKey
    Criteria <- MCCriteria
    PlotCounts = {2}
    Spread = 2
    Loads <- MCLoadsAll
    MaxStart = 4
    MaxPrev = 3
    Features = {"gather", "select", "remove", "replace"}
INVARIANTS
    GathersTile
    NoDangling
CHECK_DEADLOCK FALSE
