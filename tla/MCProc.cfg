SPECIFICATION FairSpec
CONSTANTS
    NPROC = 3
    Cpu = {c1, c2}
    NoCpu = NoCpu
    OtherChan = {9}
    KillArg = {2}
    MaxPid = 3
INVARIANTS
    OneCoreEach
    StackInUse
    NoMissedExit
PROPERTY
    ZombiesReaped
