SPECIFICATION IdempotencySpec
CONSTANTS
    Requests = {r1, r2, r3}
    Keys = {k1}
    Bodies = {b1, b2}
    None = None
    LostAcks = FALSE
    MaxCrashes = 2
CHECK_DEADLOCK FALSE
PROPERTY RetryIsReplayed
