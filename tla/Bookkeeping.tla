---------------------------- MODULE Bookkeeping -----------------------------
(***************************************************************************)
(* The books the services keep: what the rows of ledger_entries add up to, *)
(* and the bank that the services implement.                               *)
(***************************************************************************)
EXTENDS Payments, FiniteSetsExt

Entries(type, w) == {e \in ledger : e.type = type /\ e.wallet = w}
Total(entries) == MapThenSumSet(LAMBDA e : e.amount, entries)

\* "Wallet balances can be independently verified against the ledger sum at
\* any point in time" (README, 3): what has been credited to a wallet since the
\* opening state, less what has been debited, is the change of its balance.
LedgerReplay ==
    \A w \in Wallets :
        balance[w] = OpeningBalance[w] + Total(Entries("CREDIT", w)) - Total(Entries("DEBIT", w))

\* No request, finished, refused or rolled back at any statement, creates or
\* destroys money: "every kobo is accounted for" (README, 3).
Conservation ==
    MapThenSumSet(LAMBDA w : balance[w], Wallets) =
        MapThenSumSet(LAMBDA w : OpeningBalance[w], Wallets)

\* A CREDIT and a DEBIT that one request wrote for one transaction.
Pairs ==
    {p \in ledger \X ledger :
        /\ p[1].type = "CREDIT" /\ p[2].type = "DEBIT"
        /\ p[1].by = p[2].by /\ p[1].txn = p[2].txn}

Postings ==
    {[cause |-> <<p[1].by, p[1].txn>>, from |-> p[2].wallet, to |-> p[1].wallet,
      amount |-> p[1].amount] : p \in Pairs}

Bank == INSTANCE Bank WITH
    House <- {HOLDING, SYSTEM}, Causes <- Requests \X TxnIds,
    Opening <- OpeningBalance, postings <- Postings

\* The services implement the bank: seen from its balances and its paired
\* ledger entries, every commit is one covered movement, or two that pass
\* through HOLDING, and every other step changes nothing.
ImplementsBank == Bank!BankSpec

=============================================================================
