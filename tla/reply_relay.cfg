SPECIFICATION FairSpec
CONSTANTS
    r1 = r1
    Reqs = {r1}
    ForwardAttempts = 4
    DeliverAttempts = 4
    MaxCalls = 1
    MaxFaults = 1
    MaxSuspends = 2
    Cancels = TRUE
    PartialBodies = FALSE
INVARIANT TypeOK
INVARIANT AcknowledgedReplyHeld
INVARIANT RunsBounded
PROPERTY ClientAnswered
CHECK_DEADLOCK FALSE
