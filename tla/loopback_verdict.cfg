SPECIFICATION FairSpec
CONSTANTS
    MaxSeq = 6
    MaxRestores = 2
    AckQueue = 2
    Damages = {"drop", "dup", "alter", "dropAck", "dupAck", "break"}
INVARIANT TypeOK
INVARIANT AckVouches
PROPERTY DamageDetected
CHECK_DEADLOCK FALSE
