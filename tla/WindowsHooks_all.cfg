SPECIFICATION Spec
CONSTANTS
    RtlHooks <- MCRtl
    VmChannels <- MCVm
    Points <- MCPoints
    Threads = {t1}
    Slices = {s1, s2, s3, s4, s5}
    None = None
INVARIANTS RoutesHold OriginalsUsable FinalizedLeavesNothing
SYMMETRY SliceSymmetry
CHECK_DEADLOCK FALSE
