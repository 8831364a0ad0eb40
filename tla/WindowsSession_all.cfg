SPECIFICATION MCSpec
CONSTANTS
    Threads = {t1, t2}
    Main = t1
    Flows <- MCFlows
    MaxMoves = 2
    MaxCalls = 2
    Stops = {"session", "standalone"}
    NoThread = NoThread
PROPERTIES StartsSettle
INVARIANTS StubPagesLive FrozenHoldNoLock StopLeavesNothing
CHECK_DEADLOCK FALSE
