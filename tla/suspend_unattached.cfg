SPECIFICATION EgressSpec
CONSTANTS
    r1 = r1
    Own = Own
    Golden = Golden
    Reqs = {r1}
    ForwardAttempts = 2
    DeliverAttempts = 1
    MaxCalls = 1
    MaxFaults = 1
    MaxSuspends = 2
    MaxErrs = 1
    Cancels = FALSE
    PartialBodies = FALSE
    Races = {"attach"}
INVARIANT SuspendedHasWakeUp
CHECK_DEADLOCK FALSE
