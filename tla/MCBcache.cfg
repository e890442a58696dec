CHECK_DEADLOCK FALSE
SPECIFICATION Spec
CONSTANTS
    Process = {p1, p2, p3}
    Sector = {s1, s2, s3}
    NoSector = NoSector
    Value = {0, 1}
    NoBuf = NoBuf
    NBUF = 2
INVARIANTS
    HeldAlone
    SleepersWaitForHolders
    PanicsOnlyWhenFull
PROPERTY
    OnlyHoldersChangeBlocks
SYMMETRY
    Symmetry
