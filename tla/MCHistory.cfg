SPECIFICATION HistorySpec
CONSTANTS
    NUsers = 2
    Requests = {r1, r2}
    Readers = {g1}
    Searches <- MCSearches
    None = None
    Amounts = {1}
    OpeningBalance <- MCOpeningBalance
    OpeningTxns <- MCOpeningTxns
SYMMETRY Symmetry
CHECK_DEADLOCK FALSE
INVARIANTS DetailsFollow HonestHistory TotalBracketed
