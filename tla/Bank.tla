-------------------------------- MODULE Bank --------------------------------
(***************************************************************************)
(* What the wallet platform promises its customers and its auditors, with  *)
(* no requests, locks, snapshots or statements: money only ever moves from *)
(* one wallet to another, every movement is recorded once and for ever,    *)
(* and a movement out of a user's wallet is covered by its balance.        *)
(***************************************************************************)
EXTENDS Integers

CONSTANTS
    Users,     \* the owners of the MAIN wallets, which are named by them
    House,     \* the wallets of the platform, which may be overdrawn
    Amounts,   \* what may be moved at once
    Causes,    \* what a movement is recorded for
    Opening    \* the balances to begin with

VARIABLES balance, postings

bankVars == <<balance, postings>>

BankWallets == Users \union House

Posting == [cause : Causes, from : BankWallets, to : BankWallets, amount : Amounts]

BankInit == balance = Opening /\ postings = {}

Transferred(b, from, to, a) == [b EXCEPT ![from] = @ - a, ![to] = @ + a]
CoveredBy(b, p) == p.from \in Users => b[p.from] >= p.amount

\* One movement.
Post(p) ==
    /\ p \in Posting
    /\ CoveredBy(balance, p)
    /\ postings' = postings \union {p}
    /\ balance' = Transferred(balance, p.from, p.to, p.amount)

\* A movement through a third wallet: two postings, and both or neither.
PostThrough(p, q) ==
    /\ p \in Posting /\ q \in Posting
    /\ p # q /\ p.to = q.from /\ p.amount = q.amount
    /\ CoveredBy(balance, p)
    /\ postings' = postings \union {p, q}
    /\ balance' = Transferred(balance, p.from, q.to, p.amount)

\* A posting is made once: only what is new is posted.
BankNext ==
    LET new == postings' \ postings
    IN  \/ \E p \in new : Post(p)
        \/ \E p, q \in new : PostThrough(p, q)

BankSpec == BankInit /\ [][BankNext]_bankVars

=============================================================================
