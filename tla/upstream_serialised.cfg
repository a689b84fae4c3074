SPECIFICATION Spec
CONSTANTS
    ReqLen = 2
    RespLen = 1
    Rounds = 1
    Housekeeping = 1
    UpCap = 2
    DownCap = 2
    ReadMax = 2
    MaxPayload = 2
    MaxTunnels = 2
    MaxDials = 1
    MaxFaults = 1
    DialFails = FALSE
    ServerCloses = TRUE
    AgentCloses = FALSE
    PoliteSuspend = FALSE
    LongWatchdog = FALSE
    Preempt <- SidecarPreemption
INVARIANT UpstreamInOrder
INVARIANT UnwrittenRetained
PROPERTY QuiescentNoWake
PROPERTY ImplementsPipe
CHECK_DEADLOCK FALSE
