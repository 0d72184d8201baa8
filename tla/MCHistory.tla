----------------------------- MODULE MCHistory ------------------------------
(* One reader beside two calls of the services, on the opening state of      *)
(* MCPayments.                                                               *)
EXTENDS History, TLC

MCOpeningBalance == <<2, 1, 1, -4>>

Pending(type, user) ==
    [type |-> type, status |-> "PENDING", user |-> user, amount |-> 1, parent |-> None]

Opening(name) == <<"opening", name>>

MCOpeningTxns ==
    Opening("DEP") :> Pending("FUNDING", 2) @@ Opening("WD") :> Pending("WITHDRAWAL", 1)

\* Every row on a short and on a long page, one type, and two statuses that rows
\* leave and enter while they are read.
Searched(type, status, limit) == [type |-> type, status |-> status, limit |-> limit]

MCSearches == {
    Searched(None, None, 1), Searched(None, None, 2), Searched(None, None, 20),
    Searched("WITHDRAWAL", None, 1), Searched("WITHDRAWAL", "FAILED", 20),
    Searched(None, "PENDING", 2)}

Symmetry == Permutations(Requests)

=============================================================================
