SPECIFICATION Spec
CONSTANTS
    Threads = {t1}
    Images <- MCImages
    Addresses <- MCAddresses
    ScopeIssues = {}
    MaxCalls = 2
    MaxImages = 1
    MaxTicks = 1
    QueueCapacity = 1
    ModuleCapacity = 2
    ChunkTarget = 2
    DictCapacity = 1
    Outcomes <- MCOutcomes
    Disks <- MCDisks
    CounterSource = TRUE
INVARIANTS TraceReadable CompleteMeansComplete FinalPathMeansNormalEnd
CHECK_DEADLOCK FALSE
