SPECIFICATION EdgesSpec
CONSTANTS
    Bodies = {4, 6, 10, 14, 996, 12340}
    Opening = 100
    MaxRows = 3
    Table <- MCTable
    Callers = {1, 2}
    Queries <- MCQueries
    None = None
    Clients = {c1}
    Users = {u1, u2}
    GlobalLimit = 3
    GlobalWindow = 2
    RouteLimit = 1
    RouteWindow = 3
    MaxRestarts = 1
CHECK_DEADLOCK FALSE
INVARIANTS BalanceAsTold RoundedFairly AnswerMeant PageIsNewest WindowBound RefusedForCause
PROPERTY ShutOutEnds
