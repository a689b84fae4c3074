SPECIFICATION Spec
CONSTANTS
    ReqLen = 1
    RespLen = 2
    Rounds = 1
    Housekeeping = 0
    UpCap = 2
    DownCap = 2
    ReadMax = 1
    MaxPayload = 1
    MaxTunnels = 2
    MaxDials = 2
    MaxFaults = 1
    DialFails = TRUE
    ServerCloses = TRUE
    AgentCloses = TRUE
    PoliteSuspend = FALSE
    LongWatchdog = FALSE
    Preempt = {"onAttach", "dial", "onData"}
INVARIANT TypeOK
INVARIANT AgentInOrder
INVARIANT AgentOneStream
INVARIANT UndeliveredRetained
CHECK_DEADLOCK FALSE
