SPECIFICATION ProgressSpec
CONSTANTS
    NUsers = 1
    Requests = {r1, r2, r3}
    Unsent = r3
    None = None
    Amounts = {1}
    OpeningBalance <- MCOpeningBalance
    OpeningTxns <- ProgressTxns
    PoolSize = 2
    Callers = {0, 1}
    Names <- MCNames
    Calls <- ProgressCalls
    LostAcks = FALSE
    MaxCrashes = 1
CHECK_DEADLOCK FALSE
INVARIANT PoolNeverWedged
PROPERTIES Served EveryCallAnswered
