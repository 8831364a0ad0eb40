\* linux-native: both families on one backend and one queue, nested calls and
\* every failure; only the control thread is fair.
SPECIFICATION FairSpec
CONSTANTS
    Channels <- NativeVm
    Threads = {t1}
    MaxDepth = 2
    Slices = {s1, s2, s3}
    None = None
    MayMiss = TRUE
INVARIANTS RoutesComplete TrampolinesIntact
PROPERTIES ControlEnds
CHECK_DEADLOCK FALSE
