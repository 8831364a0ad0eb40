SPECIFICATION FairSpec
CONSTANTS
    Threads = {t1, t2}
    First = {t1}
    MaxSteps = 2
    Modes = {"launch", "attach"}
    Targets <- MCTargets
    MaxMoves = 1
    NoThread = NoThread
INVARIANTS OwnRegisters ResumesOutsidePatches
PROPERTIES NeverTeleported FreezeEnds
CHECK_DEADLOCK FALSE
