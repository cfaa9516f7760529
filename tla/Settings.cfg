SPECIFICATION Spec
CONSTANTS
    FilterNames = {1, 2}
    Desc <- MCDesc
    Tags <- MCTags
    Uses <- MCUses
INVARIANTS
    TypeOK
    SavedIsRead
    CriteriaValid
    AppliedIsChosen
PROPERTIES
    PanelApplies
    DeletesPicked
CHECK_DEADLOCK FALSE
