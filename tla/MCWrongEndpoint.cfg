SPECIFICATION ApiSpec
CONSTANTS
    NUsers = 1
    Requests = {r1, r2}
    None = None
    Amounts = {1}
    OpeningBalance <- MCOpeningBalance
    OpeningTxns <- MCOpeningTxns
    Callers = {0, 1}
    Names <- MCNames
    Calls <- WrongEndpoint
    LostAcks = FALSE
    MaxCrashes = 0
CHECK_DEADLOCK FALSE
INVARIANT Escrow
