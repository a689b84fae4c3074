SPECIFICATION FairSpec
CONSTANTS
    ReqLen = 1
    RespLen = 1
    Rounds = 1
    Housekeeping = 0
    UpCap = 2
    DownCap = 2
    ReadMax = 2
    MaxPayload = 2
    MaxTunnels = 2
    MaxDials = 1
    MaxFaults = 2
    DialFails = FALSE
    ServerCloses = FALSE
    AgentCloses = FALSE
    PoliteSuspend = TRUE
    LongWatchdog = FALSE
    Preempt <- SidecarPreemption
INVARIANT NotStranded
PROPERTY ResponseDelivered
CHECK_DEADLOCK FALSE
