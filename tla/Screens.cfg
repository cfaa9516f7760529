SPECIFICATION Spec
CONSTANTS
    Windows = {w1, w2}
    Combos <- MCCombos
    MaxNest = 1
    MaxOps = 5
SYMMETRY MCSymmetry
INVARIANTS
    TypeOK MagFresh  TraceFresh Alive
CHECK_DEADLOCK FALSE
