------------------------------ MODULE MCEdges -------------------------------
(* Three components that share no state: amounts, queries of the history and  *)
(* the rate limiter.  A behaviour runs one of them, the others stay put.      *)
EXTENDS Amounts, TransactionQuery, RateLimiter

VARIABLE running

edgeVars == <<running, amountVars, queryVars, limiterVars>>

\* Eight rows of two users, some of one moment and some older than a row with a
\* smaller id.
TableRow(user, type, status, amount, at) ==
    [user |-> user, type |-> type, status |-> status, amount |-> amount, at |-> at]

MCTable == <<
    TableRow(1, "FUNDING", "SUCCESSFUL", 2, 1),
    TableRow(1, "WITHDRAWAL", "FAILED", 1, 1),
    TableRow(1, "WITHDRAWAL", "PENDING", 2, 3),
    TableRow(2, "FUNDING", "SUCCESSFUL", 1, 2),
    TableRow(1, "REVERSAL", "SUCCESSFUL", 1, 2),
    TableRow(1, "TRANSFER", "SUCCESSFUL", 0, 2),
    TableRow(2, "WITHDRAWAL", "PENDING", 3, 3),
    TableRow(1, "FUNDING", "PENDING", 3, 3) >>

MCQueries ==
    [type : {None, "FUNDING", "WITHDRAWAL", "GIFT"}, status : {None, "SUCCESSFUL"},
     min : {None, -10, 4, 14, 20}, max : {None, 0, 4, 10, 26},
     from : {None, 2}, to : {None, 2}, limit : {None, 0, 1, 3}, page : {None, 1, 2}]

\* No request for the history: what the others see of its variables.
NoQuery == CHOOSE q \in MCQueries : ~Valid(q)

EdgesInit ==
    /\ running \in {"amounts", "query", "limiter"}
    /\ AmountsInit /\ LimiterInit
    /\ IF running = "query" THEN QueryInit
       ELSE caller = 1 /\ query = NoQuery /\ answer = None

EdgesNext ==
    /\ UNCHANGED running
    /\ \/ running = "amounts" /\ AmountsNext /\ UNCHANGED <<queryVars, limiterVars>>
       \/ running = "query" /\ QueryNext /\ UNCHANGED <<amountVars, limiterVars>>
       \/ running = "limiter" /\ LimiterNext /\ UNCHANGED <<amountVars, queryVars>>

EdgesSpec ==
    /\ EdgesInit /\ [][EdgesNext]_edgeVars
    /\ WF_limiterVars(running = "limiter" /\ Tick)

=============================================================================
