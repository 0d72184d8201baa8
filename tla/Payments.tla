------------------------------ MODULE Payments ------------------------------
(***************************************************************************)
(* The money-moving services: deposit.service.ts, withdrawal.service.ts    *)
(* and transfer.service.ts, each run as one MySQL (InnoDB) transaction per *)
(* request, with the wallet, transaction and ledger repositories they call.*)
(*                                                                         *)
(* One request is one call of a service.  Its statements are separate      *)
(* steps, because other requests run between them: the service awaits each *)
(* one.  What InnoDB does at REPEATABLE READ is modelled as follows.       *)
(*  - An UPDATE and a SELECT ... FOR UPDATE lock the row exclusively, wait *)
(*    for the other holders, and see the committed row.  The lock is held  *)
(*    until COMMIT or ROLLBACK.                                            *)
(*  - A plain SELECT never waits and reads the snapshot that the first     *)
(*    plain SELECT of the transaction established.                         *)
(*  - Inserting a row with a foreign key share-locks the row referred to.  *)
(*  - A cycle of waiting transactions is broken by rolling one back.       *)
(* The rows a transaction writes are locked until it commits, so its       *)
(* writes are published by its commit step.  An UPDATE of a row already    *)
(* locked by the same transaction cannot wait and is no step of its own.   *)
(***************************************************************************)
EXTENDS Integers, Sequences, FiniteSets

CONSTANTS
    NUsers,          \* users 1 .. NUsers are registered, each with a MAIN wallet
    Requests,        \* the calls of a service that may ever be made
    None,            \* SQL NULL, and "no row"
    Amounts,         \* amounts in kobo, after Math.round(amount * 100)
    OpeningBalance,  \* wallets.balance when the model starts
    OpeningTxns      \* the rows of transactions when the model starts

Users   == 1 .. NUsers
HOLDING == NUsers + 1
SYSTEM  == NUsers + 2
\* A user's MAIN wallet is named by the user: wallets.user_id is unique.
Wallets == 1 .. (NUsers + 2)
\* A receiver_id that no user has.
Stranger == 0

Statuses == {"PENDING", "SUCCESSFUL", "FAILED"}
Types    == {"FUNDING", "TRANSFER", "WITHDRAWAL", "REVERSAL"}

\* A row inserted by request r is named by r and by the prefix the service
\* gives generateReference: references are taken to be unique.
Legs   == {"DEP", "WD", "TRF-WD", "TRF-FD", "REV"}
TxnIds == DOMAIN OpeningTxns \union (Requests \X Legs)

Row == [type : Types, status : Statuses, user : Users, amount : Amounts,
        parent : TxnIds \union {None}]

Entry == [by : Requests, txn : TxnIds, wallet : Wallets,
          type : {"CREDIT", "DEBIT"}, amount : Amounts, before : Int, after : Int]

\* A row of fundings, withdrawals or transfers.
Detail == [table : {"fundings", "withdrawals", "transfers"},
           by : Requests, txn : TxnIds, wallet : Users]

\* settle and reverse are confirmWithdrawal with success true and false.
Ops == {"withdraw", "transfer", "confirmDeposit", "settle", "reverse"}
Job == [op : Ops, user : Users, peer : Users \union {Stranger},
        amount : Amounts, txn : TxnIds \union {None}]

ASSUME UsersAssumption   == NUsers \in Nat /\ NUsers > 0
ASSUME AmountsAssumption == Amounts \subseteq Nat
ASSUME BalanceAssumption ==
    /\ OpeningBalance \in [Wallets -> Int]
    /\ \A u \in Users : OpeningBalance[u] >= 0
ASSUME OpeningAssumption ==
    /\ IsFiniteSet(DOMAIN OpeningTxns)
    /\ \A t \in DOMAIN OpeningTxns :
         /\ OpeningTxns[t] \in Row
         /\ OpeningTxns[t].parent \in DOMAIN OpeningTxns \union {None}
         /\ OpeningTxns[t].type = "REVERSAL" => OpeningTxns[t].parent # None
    /\ DOMAIN OpeningTxns \intersect (Requests \X Legs) = {}
\* The services have failed a withdrawal only together with its refund.
ASSUME RefundsAssumption ==
    \A t \in DOMAIN OpeningTxns :
        OpeningTxns[t].type = "WITHDRAWAL" /\ OpeningTxns[t].status = "FAILED" =>
            \E s \in DOMAIN OpeningTxns :
                /\ OpeningTxns[s].type = "REVERSAL" /\ OpeningTxns[s].parent = t
                /\ OpeningTxns[s].user = OpeningTxns[t].user
ASSUME NullAssumption == None \notin Row \union Job \union TxnIds

VARIABLES
    balance,   \* committed wallets.balance
    txns,      \* committed rows of transactions
    ledger,    \* ledger_entries written since the opening state
    details,   \* fundings, withdrawals and transfers written since then
    pc,        \* the statement a request is about to run, or its answer
    job,       \* what the request asked for, joined with the row it confirms
    seen,      \* the balance a request has read of a wallet
    todo,      \* the wallet rows it has still to lock in this phase
    held,      \* the wallet rows it has locked exclusively
    txnLock    \* its lock on the row of transactions it confirms

db    == <<balance, txns, ledger, details>>
local == <<job, seen, todo, held, txnLock>>
vars  == <<db, pc, local>>

Waiting == {"lock", "shareTxn", "updateTxn", "updateWallet"}
Answers == {"ok", "rejected", "error"}
Active(r) == pc[r] \in Waiting \union {"check", "commit"}

TypeOK ==
    /\ balance \in [Wallets -> Int]
    /\ txns \in [TxnIds -> Row \union {None}]
    /\ ledger \subseteq Entry
    /\ details \subseteq Detail
    /\ pc \in [Requests -> Waiting \union Answers \union {"new", "check", "commit"}]
    /\ job \in [Requests -> Job \union {None}]
    /\ seen \in [Requests -> [Wallets -> Int]]
    /\ todo \in [Requests -> Seq(Wallets)]
    /\ held \in [Requests -> SUBSET Wallets]
    /\ txnLock \in [Requests -> {"none", "S", "X"}]

Unread == [w \in Wallets |-> 0]

Init ==
    /\ balance = OpeningBalance
    /\ txns = [t \in TxnIds |->
                 IF t \in DOMAIN OpeningTxns THEN OpeningTxns[t] ELSE None]
    /\ ledger = {}
    /\ details = {}
    /\ pc = [r \in Requests |-> "new"]
    /\ job = [r \in Requests |-> None]
    /\ seen = [r \in Requests |-> Unread]
    /\ todo = [r \in Requests |-> << >>]
    /\ held = [r \in Requests |-> {}]
    /\ txnLock = [r \in Requests |-> "none"]

-----------------------------------------------------------------------------
(* Row locks *)

\* Mutant: the sender first, whichever user id is the lower.
ForUpdateUnsorted(j) ==
    IF j.op = "transfer" /\ j.peer \in Users THEN <<j.user, j.peer>> ELSE <<j.user>>

\* The rows SELECT ... FOR UPDATE locks: the user's wallet, or the wallets of
\* both parties that exist, in ascending user_id.
ForUpdate(j) ==
    CASE j.op = "transfer" /\ j.peer \in Users /\ j.user < j.peer -> <<j.user, j.peer>>
      [] j.op = "transfer" /\ j.peer \in Users /\ j.peer < j.user -> <<j.peer, j.user>>
      [] OTHER -> <<j.user>>

\* The wallets the service updates that it has not locked before, in order.
Updates(j) ==
    CASE j.op \in {"withdraw", "transfer"} -> <<HOLDING>>
      [] j.op = "confirmDeposit" -> <<j.user, SYSTEM>>
      [] j.op = "settle"  -> <<HOLDING, SYSTEM>>
      [] j.op = "reverse" -> <<HOLDING, j.user>>

Others(r) == Requests \ {r}
SameTxn(q, r) == job[q].txn = job[r].txn

\* The transactions whose locks the next statement of r must wait for.
WalletBlockers(r) == {q \in Others(r) : Head(todo[r]) \in held[q]}
TxnBlockers(r, modes) == {q \in Others(r) : txnLock[q] \in modes /\ SameTxn(q, r)}

Blockers(r) ==
    CASE pc[r] \in {"lock", "updateWallet"} -> WalletBlockers(r)
      [] pc[r] = "shareTxn"  -> TxnBlockers(r, {"X"})
      [] pc[r] = "updateTxn" -> TxnBlockers(r, {"S", "X"})
      [] OTHER -> {}

\* Mutant: findByUserId without its lock flag.
GrantedUnlocked(r) == pc[r] = "lock" \/ Blockers(r) = {}
Granted(r) == Blockers(r) = {}

\* S waits in a circle: each waits for another of S, and no smaller set does.
Stuck(S) == S # {} /\ \A r \in S : Blockers(r) \intersect S # {}
Circle(S) == Stuck(S) /\ \A T \in SUBSET S : Stuck(T) => T = S

\* Mutant: the connection goes back to the pool with its transaction open.
FinishKeepingLocks(r, answer) ==
    /\ pc' = [pc EXCEPT ![r] = answer]
    /\ UNCHANGED local

\* COMMIT or ROLLBACK: the locks are released and the request is answered.
Finish(r, answer) ==
    /\ pc' = [pc EXCEPT ![r] = answer]
    /\ held' = [held EXCEPT ![r] = {}]
    /\ txnLock' = [txnLock EXCEPT ![r] = "none"]
    /\ todo' = [todo EXCEPT ![r] = << >>]
    /\ seen' = [seen EXCEPT ![r] = Unread]
    /\ UNCHANGED job

Rollback(r, answer) == Finish(r, answer) /\ UNCHANGED db

-----------------------------------------------------------------------------
(* Rows written at commit *)

\* Mutant: the increment is forgotten.
MoveOneSided(b, from, to, a) == [b EXCEPT ![from] = @ - a]
Move(b, from, to, a) == [b EXCEPT ![from] = @ - a, ![to] = @ + a]

\* Mutants: the sides swapped, and the second insert forgotten.
DoubleEntrySwapped(r, t, a, credit, creditBefore, debit, debitBefore) ==
    {[by |-> r, txn |-> t, wallet |-> debit, type |-> "CREDIT", amount |-> a,
      before |-> debitBefore, after |-> debitBefore + a],
     [by |-> r, txn |-> t, wallet |-> credit, type |-> "DEBIT", amount |-> a,
      before |-> creditBefore, after |-> creditBefore - a]}
SingleEntry(r, t, a, credit, creditBefore, debit, debitBefore) ==
    {[by |-> r, txn |-> t, wallet |-> credit, type |-> "CREDIT", amount |-> a,
      before |-> creditBefore, after |-> creditBefore + a]}

\* ledgerService.createDoubleEntry: one CREDIT and one DEBIT of the same amount.
DoubleEntry(r, t, a, credit, creditBefore, debit, debitBefore) ==
    {[by |-> r, txn |-> t, wallet |-> credit, type |-> "CREDIT", amount |-> a,
      before |-> creditBefore, after |-> creditBefore + a],
     [by |-> r, txn |-> t, wallet |-> debit, type |-> "DEBIT", amount |-> a,
      before |-> debitBefore, after |-> debitBefore - a]}

\* Mutants: the owner and the parent swapped, and a reversal filed as funding.
NewTxnAsFunding(type, status, user, a, parent) ==
    [type |-> IF type = "REVERSAL" THEN "FUNDING" ELSE type,
     status |-> status, user |-> user, amount |-> a, parent |-> parent]
NewTxnMisfiled(type, status, user, a, parent) ==
    [type |-> type, status |-> status, user |-> parent, amount |-> a, parent |-> user]

\* transactionService.createTransaction
NewTxn(type, status, user, a, parent) ==
    [type |-> type, status |-> status, user |-> user, amount |-> a, parent |-> parent]

Filed(table, r, t, w) == {[table |-> table, by |-> r, txn |-> t, wallet |-> w]}

-----------------------------------------------------------------------------
(* Requests arrive *)

NewJob(op, user, peer, a, t) ==
    [op |-> op, user |-> user, peer |-> peer, amount |-> a, txn |-> t]

\* initiateDeposit: one transaction that inserts one row, which nobody can see or
\* wait for before its commit, so its statements are one step.  One that fails
\* leaves nothing behind, as if the call had not been made.
InitiateDeposit(r, u, a) ==
    /\ pc[r] = "new"
    /\ txns' = [txns EXCEPT ![<<r, "DEP">>] = NewTxn("FUNDING", "PENDING", u, a, None)]
    /\ pc' = [pc EXCEPT ![r] = "ok"]
    /\ UNCHANGED <<balance, ledger, details, local>>

\* The first statement is a locking read, so no snapshot is established yet.
BeginLocking(r, j) ==
    /\ pc[r] = "new"
    /\ job' = [job EXCEPT ![r] = j]
    /\ todo' = [todo EXCEPT ![r] = ForUpdate(j)]
    /\ pc' = [pc EXCEPT ![r] = "lock"]
    /\ UNCHANGED <<db, seen, held, txnLock>>

InitiateWithdrawal(r, u, a) == BeginLocking(r, NewJob("withdraw", u, Stranger, a, None))

InitiateTransfer(r, u, p, a) ==
    /\ u # p
    /\ BeginLocking(r, NewJob("transfer", u, p, a, None))

RefuseSelfTransfer(r) == pc[r] = "new" /\ Rollback(r, "rejected")

\* Mutant: the test of the status is dropped.
ConfirmableAgain(t) == txns[t] # None

\* The first statement of confirmDeposit and confirmWithdrawal is a plain
\* SELECT: the row it finds and every balance read later are of this moment.
\* Neither service asks for the type of the row or for its owner.
Confirmable(t) == txns[t] # None /\ txns[t].status = "PENDING"

BeginConfirming(r, op, t, next) ==
    /\ pc[r] = "new"
    /\ Confirmable(t)
    /\ job' = [job EXCEPT ![r] = NewJob(op, txns[t].user, Stranger, txns[t].amount, t)]
    /\ seen' = [seen EXCEPT ![r] = balance]
    /\ pc' = [pc EXCEPT ![r] = next]
    /\ UNCHANGED <<db, todo, held, txnLock>>

ConfirmDeposit(r, t) == BeginConfirming(r, "confirmDeposit", t, "updateTxn")
Settle(r, t)         == BeginConfirming(r, "settle", t, "updateTxn")
\* The REVERSAL row refers to its parent, which share-locks the parent's row.
Reverse(r, t)        == BeginConfirming(r, "reverse", t, "shareTxn")

RefuseConfirmation(r, t) ==
    /\ pc[r] = "new"
    /\ ~Confirmable(t)
    /\ Rollback(r, "rejected")

-----------------------------------------------------------------------------
(* Statements of a transaction *)

\* Row by row, SELECT ... FOR UPDATE locks and returns the committed wallets.
TakeWallet(r) ==
    /\ Granted(r)
    /\ held' = [held EXCEPT ![r] = @ \union {Head(todo[r])}]
    /\ todo' = [todo EXCEPT ![r] = Tail(@)]

LockWallet(r) ==
    /\ pc[r] = "lock"
    /\ TakeWallet(r)
    /\ seen' = [seen EXCEPT ![r][Head(todo[r])] = balance[Head(todo[r])]]
    /\ pc' = [pc EXCEPT ![r] = IF Len(todo[r]) > 1 THEN "lock" ELSE "check"]
    /\ UNCHANGED <<db, job, txnLock>>

\* The guards after the locking read.
Covered(r) == seen[r][job[r].user] >= job[r].amount
Accepted(r) ==
    /\ job[r].op = "transfer" => job[r].peer \in Users
    /\ Covered(r)

\* findSystemWallet(HOLDING) is the first plain SELECT, and never waits.
ReadHolding(r) ==
    /\ pc[r] = "check"
    /\ Accepted(r)
    /\ seen' = [seen EXCEPT ![r][HOLDING] = balance[HOLDING]]
    /\ todo' = [todo EXCEPT ![r] = Updates(job[r])]
    /\ pc' = [pc EXCEPT ![r] = "updateWallet"]
    /\ UNCHANGED <<db, job, held, txnLock>>

Refuse(r) ==
    /\ pc[r] = "check"
    /\ ~Accepted(r)
    /\ Rollback(r, "rejected")

\* The foreign key of the REVERSAL row.
ShareTxn(r) ==
    /\ pc[r] = "shareTxn"
    /\ Granted(r)
    /\ txnLock' = [txnLock EXCEPT ![r] = "S"]
    /\ pc' = [pc EXCEPT ![r] = "updateTxn"]
    /\ UNCHANGED <<db, job, seen, todo, held>>

\* updateTransactionStatus writes whatever the status has become meanwhile.
UpdateTxn(r) ==
    /\ pc[r] = "updateTxn"
    /\ Granted(r)
    /\ txnLock' = [txnLock EXCEPT ![r] = "X"]
    /\ todo' = [todo EXCEPT ![r] = Updates(job[r])]
    /\ pc' = [pc EXCEPT ![r] = "updateWallet"]
    /\ UNCHANGED <<db, job, seen, held>>

\* incrementBalance or decrementBalance on a wallet not locked before.
UpdateWallet(r) ==
    /\ pc[r] = "updateWallet"
    /\ TakeWallet(r)
    /\ pc' = [pc EXCEPT ![r] = IF Len(todo[r]) > 1 THEN "updateWallet" ELSE "commit"]
    /\ UNCHANGED <<db, job, seen, txnLock>>

-----------------------------------------------------------------------------
(* Commits: what the whole service wrote becomes visible *)

Commits(r, ops) ==
    /\ pc[r] = "commit"
    /\ job[r].op \in ops
    /\ Finish(r, "ok")

CommitWithdrawal(r) ==
    LET j == job[r]
        t == <<r, "WD">>
    IN  /\ Commits(r, {"withdraw"})
        /\ balance' = Move(balance, j.user, HOLDING, j.amount)
        /\ txns' = [txns EXCEPT ![t] = NewTxn("WITHDRAWAL", "PENDING", j.user, j.amount, None)]
        /\ ledger' = ledger \union
             DoubleEntry(r, t, j.amount, HOLDING, seen[r][HOLDING], j.user, seen[r][j.user])
        /\ details' = details \union Filed("withdrawals", r, t, j.user)

\* Sender to HOLDING to receiver, in one transaction.
CommitTransfer(r) ==
    LET j   == job[r]
        out == <<r, "TRF-WD">>
        in  == <<r, "TRF-FD">>
        h   == seen[r][HOLDING]
    IN  /\ Commits(r, {"transfer"})
        /\ balance' = Move(Move(balance, j.user, HOLDING, j.amount), HOLDING, j.peer, j.amount)
        /\ txns' = [txns EXCEPT
             ![out] = NewTxn("TRANSFER", "SUCCESSFUL", j.user, j.amount, None),
             ![in]  = NewTxn("FUNDING", "SUCCESSFUL", j.peer, j.amount, None)]
        /\ ledger' = ledger \union
             DoubleEntry(r, out, j.amount, HOLDING, h, j.user, seen[r][j.user]) \union
             DoubleEntry(r, in, j.amount, j.peer, seen[r][j.peer], HOLDING, h + j.amount)
        /\ details' = details \union Filed("transfers", r, out, j.user)

CommitDeposit(r) ==
    LET j == job[r]
    IN  /\ Commits(r, {"confirmDeposit"})
        /\ balance' = Move(balance, SYSTEM, j.user, j.amount)
        /\ txns' = [txns EXCEPT ![j.txn].status = "SUCCESSFUL"]
        /\ ledger' = ledger \union
             DoubleEntry(r, j.txn, j.amount, j.user, seen[r][j.user], SYSTEM, seen[r][SYSTEM])
        /\ details' = details \union Filed("fundings", r, j.txn, j.user)

CommitSettlement(r) ==
    LET j == job[r]
    IN  /\ Commits(r, {"settle"})
        /\ balance' = Move(balance, HOLDING, SYSTEM, j.amount)
        /\ txns' = [txns EXCEPT ![j.txn].status = "SUCCESSFUL"]
        /\ ledger' = ledger \union
             DoubleEntry(r, j.txn, j.amount, SYSTEM, seen[r][SYSTEM], HOLDING, seen[r][HOLDING])
        /\ UNCHANGED details

CommitReversal(r) ==
    LET j == job[r]
        t == <<r, "REV">>
    IN  /\ Commits(r, {"reverse"})
        /\ balance' = Move(balance, HOLDING, j.user, j.amount)
        /\ txns' = [txns EXCEPT
             ![j.txn].status = "FAILED",
             ![t] = NewTxn("REVERSAL", "SUCCESSFUL", j.user, j.amount, j.txn)]
        /\ ledger' = ledger \union
             DoubleEntry(r, t, j.amount, j.user, seen[r][j.user], HOLDING, seen[r][HOLDING])
        /\ UNCHANGED details

Commit(r) ==
    \/ CommitWithdrawal(r) \/ CommitTransfer(r)
    \/ CommitDeposit(r) \/ CommitSettlement(r) \/ CommitReversal(r)

-----------------------------------------------------------------------------
(* Rollbacks *)

\* InnoDB rolls back one transaction of a circle; the caller sees a 500.
Victim(r) ==
    /\ \E S \in SUBSET Requests : r \in S /\ Circle(S)
    /\ Rollback(r, "error")

\* Any statement may fail: lost connection, lock wait timeout, server crash.
Abort(r) == Active(r) /\ Rollback(r, "error")

-----------------------------------------------------------------------------
\* A service opens its database transaction.
Open(r) ==
    \/ \E u \in Users, a \in Amounts :
         \/ InitiateDeposit(r, u, a)
         \/ InitiateWithdrawal(r, u, a)
         \/ \E p \in Users \union {Stranger} : InitiateTransfer(r, u, p, a)
    \/ \E t \in TxnIds :
         \/ ConfirmDeposit(r, t) \/ Settle(r, t) \/ Reverse(r, t)
         \/ RefuseConfirmation(r, t)

Arrive(r) == Open(r) \/ RefuseSelfTransfer(r)

Statement(r) ==
    \/ LockWallet(r) \/ ReadHolding(r) \/ Refuse(r)
    \/ ShareTxn(r) \/ UpdateTxn(r) \/ UpdateWallet(r)

Proceed(r) == Statement(r) \/ Commit(r)

Next == \E r \in Requests : Arrive(r) \/ Proceed(r) \/ Victim(r) \/ Abort(r)

Spec == Init /\ [][Next]_vars

\* Node runs every continuation and MySQL grants every lock that is free and
\* breaks every deadlock.  Nothing obliges a request to arrive or to fail.
FairSpec ==
    /\ Spec
    /\ \A r \in Requests : WF_vars(Proceed(r)) /\ WF_vars(Victim(r))

-----------------------------------------------------------------------------
(* Properties *)

\* No user's wallet is ever debited below zero, however many withdrawals and
\* transfers race for the same balance (README, 5: "two concurrent requests
\* read the same balance and both proceed against an insufficient balance").
MainNeverOverdrawn == \A u \in Users : balance[u] >= 0

\* Withdrawals and transfers read the wallets of users under a row lock, so
\* their ledger entries on those wallets say exactly what the commit changed,
\* whatever was committed by others since the request arrived.
LockedAuditTrail ==
    [][\A e \in ledger' \ ledger :
         e.wallet \in Users /\ job[e.by].op \in {"withdraw", "transfer"} =>
            e.before = balance[e.wallet] /\ e.after = balance'[e.wallet]]_vars

\* Requests that wait for each other in a circle include a failed withdrawal
\* being reversed: the sorted locks of transfer.service.ts:34 rule out every
\* deadlock between transfers, withdrawals, deposits and settlements.
OnlyReversalsDeadlock ==
    \A S \in SUBSET Requests : Circle(S) => \E r \in S : job[r].op = "reverse"

\* Every call that got as far as the database is answered.
Served == \A r \in Requests : Active(r) ~> pc[r] \in Answers

-----------------------------------------------------------------------------
(* Why no wallet is overdrawn and no circle is closed: what a request has   *)
(* locked, and what it knows, at each of its statements.                    *)

Locking    == {"withdraw", "transfer"}
Confirming == {"confirmDeposit", "settle", "reverse"}

Parties(j) == {j.user, j.peer} \intersect Users
\* Locked before the first UPDATE of a wallet, and when the last has run.
Before(j) == IF j.op \in Locking THEN Parties(j) ELSE {}
Touched(j) ==
    CASE j.op \in Locking -> Parties(j) \union {HOLDING}
      [] j.op = "confirmDeposit" -> {j.user, SYSTEM}
      [] j.op = "settle"  -> {HOLDING, SYSTEM}
      [] j.op = "reverse" -> {HOLDING, j.user}

\* r has locked start and some of the rows s, and has the rest of s to do.
Partway(r, s, start) ==
    \/ todo[r] = s /\ held[r] = start
    \/ \E v, w \in Wallets : s = <<v, w>> /\ todo[r] = <<w>> /\ held[r] = start \union {v}

\* The job of a running request, and the row it confirms.
JobKnown(r) ==
    Active(r) =>
        /\ job[r] \in Job
        /\ job[r].op = "transfer" => job[r].user # job[r].peer
        /\ job[r].op = "withdraw" => job[r].peer = Stranger
        /\ job[r].op \in Confirming => job[r].txn \in TxnIds /\ txns[job[r].txn] \in Row

\* The locks r holds are those its service has asked for so far, in order.
OnPlan(r) ==
    /\ ~Active(r) => held[r] = {} /\ txnLock[r] = "none"
    /\ pc[r] = "lock" => job[r].op \in Locking /\ Partway(r, ForUpdate(job[r]), {})
    /\ pc[r] = "check" => job[r].op \in Locking /\ held[r] = Parties(job[r])
    /\ pc[r] = "shareTxn" => job[r].op = "reverse" /\ held[r] = {} /\ txnLock[r] = "none"
    /\ pc[r] = "updateTxn" =>
         /\ job[r].op \in Confirming /\ held[r] = {}
         /\ txnLock[r] = IF job[r].op = "reverse" THEN "S" ELSE "none"
    /\ pc[r] = "updateWallet" => Partway(r, Updates(job[r]), Before(job[r]))
    /\ pc[r] = "commit" => held[r] = Touched(job[r])
    /\ pc[r] \in {"updateWallet", "commit"} =>
         txnLock[r] = IF job[r].op \in Confirming THEN "X" ELSE "none"
    /\ pc[r] \in {"lock", "check"} => txnLock[r] = "none"

\* A withdrawal or transfer that passed its checks still passes them.
StillAccepted(r) ==
    Active(r) /\ job[r].op \in Locking =>
        /\ \A w \in held[r] \intersect Users : seen[r][w] = balance[w]
        /\ pc[r] \in {"updateWallet", "commit"} => Accepted(r)

Exclusive == \A q, r \in Requests : q # r => held[q] \intersect held[r] = {}

\* Locks are exclusive and taken in the order of each service, and what a
\* withdrawal or transfer has read of a user's wallet under its lock is still
\* true at its commit, however many requests run in between.
LockDiscipline ==
    /\ Exclusive
    /\ \A r \in Requests : JobKnown(r) /\ OnPlan(r) /\ StillAccepted(r)

-----------------------------------------------------------------------------
\* README, 5: "All balance-mutating operations acquire a row-level lock via
\* SELECT ... FOR UPDATE before reading the balance."  Then every ledger entry
\* on a user's wallet would start from the balance the wallet had.
AuditTrail ==
    [][\A e \in ledger' \ ledger : e.wallet \in Users => e.before = balance[e.wallet]]_vars

=============================================================================
