SPECIFICATION MCSpec
CONSTANTS
    Requests = {r1, r2, r3}
    Third = r3
    e1 = e1
    e2 = e2
    p1 = p1
    Emails = {e1, e2}
    Phones = {p1}
    Volatile = {e1}
    Forms <- MCForms
    None = None
CHECK_DEADLOCK FALSE
INVARIANTS TypeOK Consistency OneAccount EveryUserHasWallet Compliance HoldersServed RegistrationTrue
PROPERTY RequestAnswered
