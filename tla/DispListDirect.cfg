SPECIFICATION Spec
CONSTANTS
    Trcs <- MCTrcs
    Epochs <- MCEpochs
    SortKeys <- MCOneKey
    Criteria <- MCOneCriterion
    PlotCounts = {2}
    Spread = 2
    Loads <- MCLoadsAll
    MaxStart = 4
    MaxPrev = 3
    Features = {"gather"}
INVARIANTS
    GatherSorts
CHECK_DEADLOCK FALSE
