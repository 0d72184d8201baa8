SPECIFICATION Spec
CONSTANTS
    NUsers = 2
    Requests = {r1, r2}
    None = None
    Amounts = {1}
    OpeningBalance <- MCOpeningBalance
    OpeningTxns <- MCOpeningTxns
SYMMETRY Symmetry
CHECK_DEADLOCK FALSE
PROPERTY AuditTrail
