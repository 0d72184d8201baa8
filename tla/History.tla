------------------------------ MODULE History -------------------------------
(***************************************************************************)
(* The transaction history, read while the services of Payments run:       *)
(* GET /transactions/:id and GET /transactions (transaction.service.ts,    *)
(* transaction.repo.ts).  Both views are put together from several plain   *)
(* SELECTs outside any transaction, so each of them reads what happens to  *)
(* be committed when it runs.  What the query string means and the exact   *)
(* page of a table at rest are the subject of TransactionQuery.            *)
(***************************************************************************)
EXTENDS Payments

CONSTANTS
    Readers,    \* the GET requests that may ever be made
    Searches    \* what a request for the history asks for

\* The filters and the limit; the controller passes no page, so the offset is 0.
\* The bounds on amount and date compare columns that never change, as the type
\* does, and are left out.
ASSUME SearchesAssumption ==
    Searches \subseteq [type : Types \union {None}, status : Statuses \union {None}, limit : Nat \ {0}]

ASSUME ReadersAssumption ==
    /\ None \notin Searches
    /\ None \notin [user : Users, txn : TxnIds \union {None}, search : Searches \union {None}]

VARIABLES
    query,   \* what a reader asked for
    left,    \* the statements it has still to run
    got,     \* what the others returned
    always,  \* the rows that its query selected at every moment so far
    ever     \* the rows that it selected at some moment

views == <<query, left, got, always, ever>>
historyVars == <<vars, views>>

RowsOf(u) == {t \in TxnIds : txns[t] # None /\ txns[t].user = u}

\* The WHERE clause of findWithFilters.
Selects(q, row) ==
    /\ row.user = q.user
    /\ q.search.type \in {None, row.type}
    /\ q.search.status \in {None, row.status}

Selection(q, table) == {t \in TxnIds : table[t] # None /\ Selects(q, table[t])}

HistoryInit ==
    /\ Init
    /\ query = [v \in Readers |-> None]
    /\ left = [v \in Readers |-> {}]
    /\ got = [v \in Readers |-> [row |-> None, details |-> None, count |-> None, page |-> None]]
    /\ always = [v \in Readers |-> {}]
    /\ ever = [v \in Readers |-> {}]

\* GET /transactions/:id
Ask(v, u, t) ==
    /\ query[v] = None
    /\ query' = [query EXCEPT ![v] = [user |-> u, txn |-> t, search |-> None]]
    /\ left' = [left EXCEPT ![v] = {"row", "details"}]
    /\ UNCHANGED <<got, always, ever, vars>>

\* GET /transactions
Search(v, u, s) ==
    LET q == [user |-> u, txn |-> None, search |-> s]
    IN  /\ query[v] = None
        /\ query' = [query EXCEPT ![v] = q]
        /\ left' = [left EXCEPT ![v] = {"count", "page"}]
        /\ always' = [always EXCEPT ![v] = Selection(q, txns)]
        /\ ever' = [ever EXCEPT ![v] = Selection(q, txns)]
        /\ UNCHANGED <<got, vars>>

\* Mutant: the row and its details are read side by side.
MayReadAny(v, x) == x \in left[v]

\* findWithFilters sends both its statements at once, getTransactionById
\* awaits the row before it asks for the details.
MayRead(v, x) == x \in left[v] /\ (x = "details" => "row" \notin left[v])

Returns(v, x, data, rest) ==
    /\ MayRead(v, x)
    /\ got' = [got EXCEPT ![v][x] = data]
    /\ left' = [left EXCEPT ![v] = rest]
    /\ UNCHANGED <<query, always, ever, vars>>

\* A row that is missing or of another user ends the request (404, 403).
ReadRow(v) ==
    LET t == query[v].txn
    IN  Returns(v, "row", txns[t],
          IF t \in RowsOf(query[v].user) THEN left[v] \ {"row"} ELSE {})

\* The table that has the details of each type, and none for a REVERSAL.
TableOf(type) ==
    CASE type = "FUNDING" -> "fundings"
      [] type = "WITHDRAWAL" -> "withdrawals"
      [] type = "TRANSFER" -> "transfers"
      [] OTHER -> "none"

\* The rows that the details of t are made from; null is the empty set.  The
\* type of a transaction and the parent of a REVERSAL never change.
DetailsOf(t) ==
    IF txns[t].type = "REVERSAL"
    THEN {p \in TxnIds : p = txns[t].parent /\ txns[p] # None}
    ELSE {d \in details : d.txn = t /\ d.table = TableOf(txns[t].type)}

ReadDetails(v) ==
    LET t == query[v].txn
    IN  /\ MayRead(v, "details") /\ txns[t] # None
        /\ Returns(v, "details", DetailsOf(t), left[v] \ {"details"})

\* Mutant: the count is taken without the filter by status.
CountOfAnyStatus(q) == Cardinality(Selection([q EXCEPT !.search.status = None], txns))
CountOf(q) == Cardinality(Selection(q, txns))

ReadCount(v) ==
    Returns(v, "count", CountOf(query[v]), left[v] \ {"count"})

\* ORDER BY created_at DESC, id DESC.  A row is given its time and its id when it
\* is inserted, not when it commits, so of two rows either may be the newer, but
\* a row is newer than the one it refers to, and than those of the opening state.
Newer(s, t) ==
    \/ txns[s].parent = t
    \/ t \in DOMAIN OpeningTxns /\ s \notin DOMAIN OpeningTxns

\* Mutant: a page in any order.
IsPageUnordered(P, S, limit) ==
    P \in SUBSET S /\ (P = S \/ Cardinality(P) = limit) /\ Cardinality(P) <= limit

\* LIMIT n of the rows S, the newest first.
IsPage(P, S, limit) ==
    /\ P \in SUBSET S
    /\ Cardinality(P) <= limit
    /\ P = S \/ Cardinality(P) = limit
    /\ \A t \in P, s \in S : Newer(s, t) => s \in P

ReadPage(v) ==
    LET S == Selection(query[v], txns)
    IN  /\ "page" \in left[v]
        /\ \E P \in SUBSET S :
             /\ IsPage(P, S, query[v].search.limit)
             /\ Returns(v, "page", [t \in P |-> txns[t]], left[v] \ {"page"})

Read(v) == ReadRow(v) \/ ReadDetails(v) \/ ReadCount(v) \/ ReadPage(v)

Searching(v) == query[v] # None /\ query[v].search # None /\ left[v] # {}

\* What a step of the services does to the rows that a search in progress selects.
Watch ==
    /\ always' = [v \in Readers |->
          IF Searching(v) THEN always[v] \intersect Selection(query[v], txns') ELSE always[v]]
    /\ ever' = [v \in Readers |->
          IF Searching(v) THEN ever[v] \union Selection(query[v], txns') ELSE ever[v]]

HistoryNext ==
    \/ Next /\ Watch /\ UNCHANGED <<query, left, got>>
    \/ \E v \in Readers :
         \/ \E u \in Users, t \in TxnIds : Ask(v, u, t)
         \/ \E u \in Users, s \in Searches : Search(v, u, s)
         \/ Read(v)

HistorySpec == HistoryInit /\ [][HistoryNext]_historyVars

-----------------------------------------------------------------------------
(* Properties *)

Unfiltered(search) == search.type = None /\ search.status = None
Answered(v) == query[v] # None /\ left[v] = {}

\* The rows that the services write together with their details: not the
\* receiver's leg of a transfer, nor a deposit that was confirmed as if it
\* were a withdrawal.
HasDetails(t, row) ==
    \/ row.type = "REVERSAL"
    \/ t \in Requests \X {"WD", "TRF-WD"}
    \/ /\ row.type = "FUNDING" /\ row.status = "SUCCESSFUL"
       /\ \E r \in Requests : job[r] # None /\ job[r].op = "confirmDeposit" /\ job[r].txn = t
       /\ \A r \in Requests : job[r] # None /\ job[r].txn = t => job[r].op = "confirmDeposit"

\* The row and the details of GET /transactions/:id are read at different
\* moments, and still no view shows money as moved without the funding,
\* withdrawal, transfer or reversed transaction that says how.
DetailsFollow ==
    \A v \in Readers :
        /\ Answered(v) /\ got[v].details # None
        /\ HasDetails(query[v].txn, got[v].row)
        => got[v].details # {}

\* A history without filters that shows a withdrawal as FAILED shows the REVERSAL
\* that gave the money back (README, 7), on every page however short: the reversal
\* is newer, and cannot fall between the statement and the page's end.
HonestHistory ==
    \A v \in Readers : got[v].page # None /\ Unfiltered(query[v].search) =>
        \A t \in DOMAIN got[v].page :
            got[v].page[t].type = "WITHDRAWAL" /\ got[v].page[t].status = "FAILED" =>
                \E s \in DOMAIN got[v].page :
                    got[v].page[s].type = "REVERSAL" /\ got[v].page[s].parent = t

\* The total and the page of one answer are read at different moments and may
\* disagree, but the total misses no row that matched throughout the request and
\* counts none that never did; every row of the page matched at some moment, and
\* one that matched throughout is left out only of a full page.
TotalBracketed ==
    \A v \in Readers : Answered(v) /\ query[v].search # None =>
        /\ Cardinality(always[v]) <= got[v].count
        /\ got[v].count <= Cardinality(ever[v])
        /\ DOMAIN got[v].page \subseteq ever[v]
        /\ Cardinality(DOMAIN got[v].page) <= query[v].search.limit
        /\ always[v] \ DOMAIN got[v].page # {} =>
             Cardinality(DOMAIN got[v].page) = query[v].search.limit

=============================================================================
