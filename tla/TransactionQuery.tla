-------------------------- MODULE TransactionQuery --------------------------
(***************************************************************************)
(* GET /transactions on a table that does not change meanwhile: what the   *)
(* controller makes of the query string, what the repository selects with  *)
(* it, and the page of it that is answered.                                *)
(***************************************************************************)
EXTENDS Naira, Sequences, FiniteSetsExt

CONSTANTS
    Table,      \* the rows of transactions; a row's id is its position
    Callers,    \* who asks
    Queries,    \* query strings, after zod has coerced them
    None        \* a parameter that was not given, and no answer yet

Ids == DOMAIN Table

ASSUME TableAssumption ==
    /\ Ids = 1 .. Len(Table) /\ Len(Table) \in Nat
    /\ \A i \in Ids : /\ Table[i].user \in Nat \ {0}
                      /\ Table[i].amount \in Nat /\ Table[i].at \in Nat

\* What zod leaves of the bounds in a query: numbers, or nothing.
ASSUME QueriesAssumption ==
    \A q \in Queries : q.min \in Int \union {None} /\ q.max \in Int \union {None}

ASSUME NothingAssumption == None \notin Int

VARIABLES caller, query, answer

queryVars == <<caller, query, answer>>

QueryInit == caller \in Callers /\ query \in Queries /\ answer = None

Types    == {"FUNDING", "TRANSFER", "WITHDRAWAL", "REVERSAL"}
Statuses == {"PENDING", "SUCCESSFUL", "FAILED"}

\* The controller's checks, and zod's; amounts are in thousandths.
Valid(q) ==
    /\ q.type \in Types \union {None}
    /\ q.status \in Statuses \union {None}
    /\ q.min # None => q.min >= 0
    /\ q.max # None => q.max >= 0
    /\ q.limit # None => q.limit \in 1 .. 100

InKobo(x) == IF x = None THEN None ELSE Kobo(x)

Filters(u, q) ==
    [user |-> u, type |-> q.type, status |-> q.status,
     min |-> InKobo(q.min), max |-> InKobo(q.max), from |-> q.from, to |-> q.to]

\* "if (filters.amount_max)": undefined and 0 are both false.
Given(x) == x # None /\ x # 0

\* Mutant: the dates are compared the other way round.
SelectedBackwards(f, row) ==
    /\ row.user = f.user
    /\ f.type # None => row.type = f.type
    /\ f.status # None => row.status = f.status
    /\ Given(f.min) => row.amount >= f.min
    /\ Given(f.max) => row.amount <= f.max
    /\ f.from # None => row.at <= f.from
    /\ f.to # None => row.at >= f.to

Selected(f, row) ==
    /\ row.user = f.user
    /\ f.type # None => row.type = f.type
    /\ f.status # None => row.status = f.status
    /\ Given(f.min) => row.amount >= f.min
    /\ Given(f.max) => row.amount <= f.max
    /\ f.from # None => row.at >= f.from
    /\ f.to # None => row.at <= f.to

\* Mutant: the newest by id.
NewerById(i, j) == i > j

\* ORDER BY created_at DESC, id DESC
Newer(i, j) ==
    \/ Table[i].at > Table[j].at
    \/ Table[i].at = Table[j].at /\ i > j

\* The k-th row is the one that k - 1 others are newer than.
Ordered(S) ==
    [k \in 1 .. Cardinality(S) |->
       CHOOSE i \in S : Cardinality({j \in S : Newer(j, i)}) = k - 1]

PageSize(pagination) == IF pagination.limit = None THEN 20 ELSE pagination.limit
Page(pagination)  == IF pagination.page = None THEN 1 ELSE pagination.page

\* findWithFilters: the count and the page of one WHERE clause.
FindWithFilters(f, pagination) ==
    LET all    == Ordered({i \in Ids : Selected(f, Table[i])})
        offset == (Page(pagination) - 1) * PageSize(pagination)
    IN  [code |-> 200, total |-> Len(all), page |-> Page(pagination),
         ids |-> SubSeq(all, offset + 1, Min({Len(all), offset + PageSize(pagination)}))]

\* The controller takes everything from the query but the page.
Pagination(q) == [limit |-> q.limit, page |-> None]

GetTransactions ==
    /\ answer = None
    /\ Valid(query)
    /\ answer' = FindWithFilters(Filters(caller, query), Pagination(query))
    /\ UNCHANGED <<caller, query>>

RefuseQuery ==
    /\ answer = None
    /\ ~Valid(query)
    /\ answer' = [code |-> 400]
    /\ UNCHANGED <<caller, query>>

QueryNext == GetTransactions \/ RefuseQuery

QuerySpec == QueryInit /\ [][QueryNext]_queryVars

-----------------------------------------------------------------------------
(* Properties *)

Served == answer # None /\ answer.code = 200
Between(x, low, high) == (low = None \/ x >= low) /\ (high = None \/ x <= high)

\* What the caller means by the query; amounts as they are shown to the caller,
\* with the half kobo that a bound may be rounded by.
Meant(row, slack) ==
    /\ row.user = caller
    /\ query.type \in {None, row.type}
    /\ query.status \in {None, row.status}
    /\ query.min = None \/ 10 * row.amount >= query.min - slack
    /\ query.max = None \/ 10 * row.amount <= query.max + slack
    /\ Between(row.at, query.from, query.to)

\* A maximum that is less than half a kobo is no filter at all.
MaxCounts == query.max # None => Kobo(query.max) # 0

\* The rows shown are what the query means, and the total counts them and those
\* that did not fit: nothing that is meant is missing from it.
AnswerMeant ==
    Served /\ MaxCounts =>
        /\ \A k \in DOMAIN answer.ids : Meant(Table[answer.ids[k]], 5)
        /\ Cardinality({i \in Ids : Meant(Table[i], -5)}) <= answer.total
        /\ answer.total <= Cardinality({i \in Ids : Meant(Table[i], 5)})

\* The first page is the newest of what it is a page of, without a gap or a
\* duplicate, also among rows of one moment: whoever reads it may stop at any row.
\* Nothing is said of the answer to page=2: the controller drops the parameter.
PageIsNewest ==
    Served /\ query.page \in {None, 1} =>
        /\ Len(answer.ids) = Min({answer.total, PageSize(query)})
        /\ \A k, l \in DOMAIN answer.ids : k < l => Newer(answer.ids[k], answer.ids[l])
        /\ \A i \in Ids :
             /\ Meant(Table[i], -5)
             /\ \E k \in DOMAIN answer.ids : Table[i].at > Table[answer.ids[k]].at
             => \E k \in DOMAIN answer.ids : answer.ids[k] = i

=============================================================================
