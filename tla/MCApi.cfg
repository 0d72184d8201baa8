SPECIFICATION ApiSpec
CONSTANTS
    NUsers = 1
    Requests = {r1, r2, r3}
    None = None
    Amounts = {1}
    OpeningBalance <- MCOpeningBalance
    OpeningTxns <- MCOpeningTxns
    Callers = {0, 1}
    Names <- MCNames
    Calls <- GatewayCalls
    LostAcks = FALSE
    MaxCrashes = 1
SYMMETRY Symmetry
CHECK_DEADLOCK FALSE
INVARIANTS Escrow ConfirmedOnce FailedIffReversed AnswersTrue
PROPERTY StatusFinal
