SPECIFICATION Spec
CONSTANTS
    ReqLen = 1
    RespLen = 2
    Rounds = 1
    Housekeeping = 0
    UpCap = 2
    DownCap = 2
    ReadMax = 2
    MaxPayload = 2
    MaxTunnels = 2
    MaxDials = 1
    MaxFaults = 1
    DialFails = FALSE
    ServerCloses = FALSE
    AgentCloses = FALSE
    PoliteSuspend = TRUE
    LongWatchdog = TRUE
    Preempt = {}
INVARIANT NotStranded
CHECK_DEADLOCK FALSE
