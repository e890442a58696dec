SPECIFICATION MCSpec
CONSTANTS
    MaxCalls = 7
    MAX_ORD = 2
    MarkBits = 4
    NPAGE = 7
    ADDRS = 128
    start_heap = 80
    end = 64
    kernmap = 72
    Links = 16
    NPROC = 2
    NPIPE = 1
    PT_ORDER = 0
    PIPE_SZ = 1
    PTE_SZ = 2
    UintMod = 16
    NUM_PTE = 2
    NUM_UPDE = 2
    Increment <- Sizes
    Program <- Programs
    ArgBytes = {1, 3}
INVARIANTS
    KnownPanicsOnly
    MemoryPartitioned
    FreeListsExact
    SizeIsMapped
