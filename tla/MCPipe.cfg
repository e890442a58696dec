SPECIFICATION FairSpec
CONSTANTS
    Reader = {r1}
    Writer = {w1, w2}
    Nobody = Nobody
    Byte = {0, 1}
    PIPESIZE = 2
    UintMod = 4
    MaxCount = 2
INVARIANTS
    SleepersHaveReason
PROPERTIES
    ImplementsByteQueue
    SleepersWake
