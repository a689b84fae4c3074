SPECIFICATION Spec
CONSTANTS
    ReqLen = 1
    RespLen = 1
    Rounds = 1
    Housekeeping = 0
    UpCap = 2
    DownCap = 2
    ReadMax = 2
    MaxPayload = 2
    MaxTunnels = 2
    MaxDials = 1
    MaxFaults = 0
    DialFails = FALSE
    ServerCloses = FALSE
    AgentCloses = FALSE
    PoliteSuspend = FALSE
    LongWatchdog = FALSE
    Preempt = {"dial"}
INVARIANT UpstreamInOrder
CHECK_DEADLOCK FALSE
