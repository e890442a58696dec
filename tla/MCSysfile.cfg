SPECIFICATION Spec
CONSTANTS
    NBLOCKS = 6
    NINODES = 4
    NINODE = 4
    BSIZE = 4
    NDIRECT = 1
    NINDIRECT = 1
    IPB = 2
    LOGSIZE = 7
    nlog = 8
    NPROC = 2
    Files <- ImageFiles
    Image <- ImageNames
    Calls <- CallSet
    MaxCalls = 4
    Data <- Writes
INVARIANTS
    
    LinksExact
    RefsExact
    CacheCoherent
    HeldNotFreed
    
