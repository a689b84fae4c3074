SPECIFICATION FairSpec
CONSTANTS
    t1 = t1
    t2 = t2
    m1 = m1
    r1 = r1
    ToolCalls = {t1, t2}
    ModelCalls = {m1}
    Reqs = {r1}
    Overlap = FALSE
    BlockedAfter = 1
    IdleAfter = 2
    Cooldown = 2
    ResumeGap = 2
    Arrival = 1
    IncludeModel = TRUE
    ClockFreezes = FALSE
    FetchFails = FALSE
    RpcFails = FALSE
    Windows = {}
PROPERTY BlockedSuspends
CHECK_DEADLOCK FALSE
