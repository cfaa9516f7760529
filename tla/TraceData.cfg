SPECIFICATION Spec
CONSTANTS
    One = 2
    ShotLen = 4
    Uses <- MCUses
INVARIANTS
    TypeOK
    
    
    NothingLost
    GapsExact
    LogInOrder
PROPERTIES
    Demux
CHECK_DEADLOCK FALSE
