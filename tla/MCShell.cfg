CHECK_DEADLOCK FALSE
SPECIFICATION FairSpec
CONSTANTS
    NPROC = 5
    NOFILE = 5
    NFILE = 4
    NPIPE = 1
    OtherCalls = 3
    PIPESIZE = 1
    MAXARGS = 4
    Scripts <- ScriptSet
    Disk <- Boot
    AllLines <- ShortLines
INVARIANTS FileRefsExact PipeEndsExact StandardDescriptors OutputAsMeant ParserCorrect
PROPERTY PromptReturns
