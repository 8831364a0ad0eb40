\* One thread that nests and a coordinator whose deadlines may pass. The safety
\* property is proved for any number of threads (ReplacementLifecycleProofs).
SPECIFICATION FairSpec
CONSTANTS
    Threads = {t1}
    MaxDepth = 1
    MayExpire = TRUE
INVARIANTS WaitPromises
PROPERTIES WaitsEnd ParkedReleased
