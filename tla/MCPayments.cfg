SPECIFICATION Spec
CONSTANTS
    NUsers = 2
    Requests = {r1, r2, r3}
    None = None
    Amounts = {1, 2}
    OpeningBalance <- MCOpeningBalance
    OpeningTxns <- MCOpeningTxns
SYMMETRY Symmetry
CHECK_DEADLOCK FALSE
INVARIANTS TypeOK MainNeverOverdrawn LockDiscipline OnlyReversalsDeadlock Conservation LedgerReplay
PROPERTIES LockedAuditTrail ImplementsBank
