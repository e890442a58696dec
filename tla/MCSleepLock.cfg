SPECIFICATION FairSpec
CONSTANTS
    Process = {p1, p2, p3, p4}
    Nobody = Nobody
INVARIANTS
    NoLostWakeup
PROPERTY
    ImplementsLock
    SleepersWake
