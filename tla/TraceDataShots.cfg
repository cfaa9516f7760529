SPECIFICATION Spec
CONSTANTS
    One = 2
    ShotLen = 4
    Uses <- MCShots
INVARIANTS
    CutAtShot
CHECK_DEADLOCK FALSE
