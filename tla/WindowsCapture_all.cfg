SPECIFICATION Spec
CONSTANTS
    Threads = {t1, t2}
    Runs <- MCRuns
    Heaps = {1}
    Addresses = {1, 2}
    Pages = 2
    Images <- MCImages
    MaxImages = 2
    MaxTicks = 1
    QueueCapacity = 2
    ModuleCapacity = 1
    ScopeIssues = {}
    PreexistingUnknown = TRUE
    ChunkTarget = 2
    DictCapacity = 1
SYMMETRY ThreadSymmetry
INVARIANTS CountersReconcile WindowsAnalyzerAgrees WindowsLiveExact
