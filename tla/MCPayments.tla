----------------------------- MODULE MCPayments -----------------------------
(* Two users, a deposit and a withdrawal already pending.  The opening       *)
(* balances are those of deposits settled before: 3 + 1 kobo were paid in by *)
(* SYSTEM, and 1 kobo of user 1 is in HOLDING for the pending withdrawal.    *)
EXTENDS Bookkeeping, TLC

MCOpeningBalance == <<2, 1, 1, -4>>

Pending(type, user, a) ==
    [type |-> type, status |-> "PENDING", user |-> user, amount |-> a, parent |-> None]

Opening(name) == <<"opening", name>>

MCOpeningTxns ==
    Opening("DEP") :> Pending("FUNDING", 2, 1) @@ Opening("WD") :> Pending("WITHDRAWAL", 1, 1)

\* One user with a withdrawal pending, for the run on progress.
OneUserBalance == <<2, 1, -3>>
OneUserTxns == Opening("WD") :> Pending("WITHDRAWAL", 1, 1)

Symmetry == Permutations(Requests)

=============================================================================
