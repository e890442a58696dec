SPECIFICATION FairSpec
CONSTANTS
    Cpu = {c1, c2}
    Lock <- MCLock
    Rank <- MCRank
    ptable = "ptable.lock"
    NoCpu = NoCpu
    NoLock = NoLock
INVARIANTS
    HandlerNeverOverHolder
    SystemCallsMasked
PROPERTY
    ImplementsAtomicLock
    WaitersWake
