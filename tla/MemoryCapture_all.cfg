SPECIFICATION Spec
CONSTANTS
    Threads = {t1, t2}
    Pages = 3
    Chunks = {c1, c2}
    Minimums = {1, 2}
    Sizes = {0, 1}
    MaxCalls = 3
    Capacity = 1
    PreexistingUnknown = TRUE
SYMMETRY Symmetries
INVARIANTS AnalyzerAgrees LivePagesAreMapped LiveChunksAreAllocated RecordsReconcile
CHECK_DEADLOCK FALSE
