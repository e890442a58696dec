SPECIFICATION FairSpec
CONSTANTS
    Sector = {s1, s2, s3}
    Value = {0, 1}
    NoBuf = NoBuf
    LOGSIZE = 3
    nlog = 3
    MaxCrash = 2
INVARIANTS
    CacheCoherent
PROPERTY
    ImplementsAtomicDisk
    TransactionsEnd
