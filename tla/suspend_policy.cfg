SPECIFICATION Spec
CONSTANTS
    t1 = t1
    t2 = t2
    m1 = m1
    r1 = r1
    r2 = r2
    ToolCalls = {t1, t2}
    ModelCalls = {m1}
    Reqs = {r1, r2}
    Overlap = FALSE
    BlockedAfter = 1
    IdleAfter = 2
    Cooldown = 2
    ResumeGap = 2
    Arrival = 1
    IncludeModel = TRUE
    ClockFreezes = TRUE
    FetchFails = TRUE
    RpcFails = TRUE
    Windows = {}
SYMMETRY Symmetry
INVARIANT TypeOK
INVARIANT SuspendedOnce
INVARIANT SuspendedHasWaker
INVARIANT WakingRequestSafe
CHECK_DEADLOCK FALSE
