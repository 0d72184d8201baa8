--------------------------- MODULE PaymentsProofs ---------------------------
(***************************************************************************)
(* Proofs about Payments for any number of users, requests and amounts.    *)
(* The inductive invariant is the typing of the state together with the    *)
(* lock discipline; that no user is overdrawn follows at every commit,     *)
(* because the balance it was checked against is still the balance.        *)
(***************************************************************************)
EXTENDS Payments, FiniteSetTheorems, TLAPS

IInv == TypeOK /\ LockDiscipline /\ MainNeverOverdrawn

-----------------------------------------------------------------------------
(* The sets *)

\* A user's wallet is none of the platform's.
LEMMA WalletFacts ==
    /\ Users \subseteq Wallets /\ HOLDING \in Wallets /\ SYSTEM \in Wallets
    /\ HOLDING # SYSTEM /\ HOLDING \notin Users /\ SYSTEM \notin Users
    /\ Stranger \notin Users
  BY UsersAssumption DEF Users, Wallets, HOLDING, SYSTEM, Stranger

LEMMA ShortSeqs ==
    /\ << >> \in Seq(Wallets)
    /\ \A w \in Wallets : <<w>> \in Seq(Wallets)
    /\ \A v, w \in Wallets : <<v, w>> \in Seq(Wallets)
  OBVIOUS

\* SELECT ... FOR UPDATE locks the wallets of the parties, one or two of them.
LEMMA ForUpdateShape ==
    ASSUME NEW j \in Job, j.op \in Locking,
           j.op = "transfer" => j.user # j.peer,
           j.op = "withdraw" => j.peer = Stranger
    PROVE  \/ \E w \in Wallets : ForUpdate(j) = <<w>> /\ Parties(j) = {w}
           \/ \E v, w \in Wallets : ForUpdate(j) = <<v, w>> /\ Parties(j) = {v, w}
<1> USE WalletFacts
<1>1. j.user \in Users /\ j.user \in Wallets /\ j.peer \in Users \union {Stranger}
  BY DEF Job
<1>2. CASE j.op = "transfer" /\ j.peer \in Users
  <2>1. j.user < j.peer \/ j.peer < j.user
    BY <1>1, <1>2, UsersAssumption DEF Users
  <2>2. Parties(j) = {j.user, j.peer} /\ j.peer \in Wallets
    BY <1>1, <1>2 DEF Parties
  <2>3. CASE j.user < j.peer
    BY <1>1, <1>2, <2>2, <2>3 DEF ForUpdate
  <2>4. CASE j.peer < j.user
    <3>1. ~(j.user < j.peer)
      BY <1>1, <1>2, <2>4 DEF Users
    <3>2. ForUpdate(j) = <<j.peer, j.user>>
      BY <1>2, <2>4, <3>1 DEF ForUpdate
    <3> QED  BY <1>1, <2>2, <3>2
  <2> QED  BY <2>1, <2>3, <2>4
<1>3. CASE ~(j.op = "transfer" /\ j.peer \in Users)
  <2>1. j.peer \notin Users
    BY <1>1, <1>3 DEF Locking
  <2>2. Parties(j) = {j.user}
    BY <1>1, <2>1 DEF Parties
  <2>3. ForUpdate(j) = <<j.user>>
    BY <1>3 DEF ForUpdate
  <2> QED  BY <1>1, <2>2, <2>3
<1> QED  BY <1>2, <1>3

\* The UPDATEs of a service lock what it touches and has not locked before.
LEMMA UpdatesShape ==
    ASSUME NEW j \in Job
    PROVE  \/ \E w \in Wallets : Updates(j) = <<w>> /\ Touched(j) = Before(j) \union {w}
           \/ \E v, w \in Wallets :
                Updates(j) = <<v, w>> /\ Touched(j) = Before(j) \union {v, w}
<1> USE WalletFacts
<1>1. j.user \in Wallets /\ j.op \in Ops
  BY DEF Job
<1>2. CASE j.op \in Locking
  BY <1>2 DEF Updates, Touched, Before, Locking
<1>3. CASE j.op = "confirmDeposit"
  BY <1>1, <1>3 DEF Updates, Touched, Before, Locking
<1>4. CASE j.op = "settle"
  BY <1>1, <1>4 DEF Updates, Touched, Before, Locking
<1>5. CASE j.op = "reverse"
  BY <1>1, <1>5 DEF Updates, Touched, Before, Locking
<1> QED  BY <1>1, <1>2, <1>3, <1>4, <1>5 DEF Ops, Locking

-----------------------------------------------------------------------------
(* Steps *)

\* Only what belongs to request r has changed of the state of requests.
Alone(r) ==
    \A q \in Others(r) :
        /\ pc'[q] = pc[q] /\ job'[q] = job[q] /\ seen'[q] = seen[q]
        /\ todo'[q] = todo[q] /\ held'[q] = held[q] /\ txnLock'[q] = txnLock[q]

\* A step of r keeps the discipline of all if it keeps that of r, takes no
\* lock another holds and changes no wallet that r has not locked.
LEMMA Frame ==
    ASSUME LockDiscipline, TypeOK, NEW r \in Requests, Alone(r),
           \A t \in TxnIds : txns[t] \in Row => txns'[t] \in Row,
           \A w \in Wallets \ held[r] : balance'[w] = balance[w],
           \A q \in Others(r) : held[q] \intersect held'[r] = {},
           JobKnown(r)', OnPlan(r)', StillAccepted(r)'
    PROVE  LockDiscipline'
<1>1. Exclusive'
  BY DEF LockDiscipline, Exclusive, Alone, Others
<1>2. ASSUME NEW q \in Others(r)
      PROVE  JobKnown(q)' /\ OnPlan(q)' /\ StillAccepted(q)'
  <2>1. q \in Requests /\ q # r
    BY DEF Others
  <2>2. JobKnown(q) /\ OnPlan(q) /\ StillAccepted(q)
    BY <2>1 DEF LockDiscipline
  <2>3. /\ pc'[q] = pc[q] /\ job'[q] = job[q] /\ seen'[q] = seen[q]
        /\ todo'[q] = todo[q] /\ held'[q] = held[q] /\ txnLock'[q] = txnLock[q]
    BY DEF Alone
  <2>4. JobKnown(q)'
    BY <2>2, <2>3 DEF JobKnown, Active
  <2>5. OnPlan(q)'
    BY <2>2, <2>3 DEF OnPlan, Active, Partway
  <2>6. StillAccepted(q)'
    <3>1. \A w \in held[q] \intersect Users : balance'[w] = balance[w]
      BY <2>1, WalletFacts DEF LockDiscipline, Exclusive
    <3>2. Accepted(q) => Accepted(q)'
      BY <2>3 DEF Accepted, Covered
    <3> QED  BY <2>2, <2>3, <3>1, <3>2 DEF StillAccepted, Active
  <2> QED  BY <2>4, <2>5, <2>6
<1>3. ASSUME NEW q \in Requests
      PROVE  JobKnown(q)' /\ OnPlan(q)' /\ StillAccepted(q)'
  BY <1>2 DEF Others
<1> QED  BY <1>1, <1>3 DEF LockDiscipline

\* A request that has been answered keeps no lock, and its locks are all that
\* its last step gives up.
LEMMA Finished ==
    ASSUME LockDiscipline, TypeOK, NEW r \in Requests, NEW a \in Answers, Finish(r, a),
           \A t \in TxnIds : txns[t] \in Row => txns'[t] \in Row,
           \A w \in Wallets \ held[r] : balance'[w] = balance[w]
    PROVE  /\ LockDiscipline'
           /\ pc' \in [Requests -> Waiting \union Answers \union {"new", "check", "commit"}]
           /\ job' \in [Requests -> Job \union {None}]
           /\ seen' \in [Requests -> [Wallets -> Int]]
           /\ todo' \in [Requests -> Seq(Wallets)]
           /\ held' \in [Requests -> SUBSET Wallets]
           /\ txnLock' \in [Requests -> {"none", "S", "X"}]
<1>1. /\ pc'[r] = a /\ held'[r] = {} /\ txnLock'[r] = "none"
      /\ Alone(r)
  BY DEF Finish, TypeOK, Alone, Others
<1>2. ~Active(r)'
  BY <1>1 DEF Active, Answers, Waiting
<1>3. JobKnown(r)' /\ StillAccepted(r)'
  BY <1>2 DEF JobKnown, StillAccepted
<1>4. OnPlan(r)'
  BY <1>1 DEF OnPlan, Answers, Active
<1>5. LockDiscipline'
  BY <1>1, <1>3, <1>4, Frame
<1>6. Unread \in [Wallets -> Int] /\ << >> \in Seq(Wallets)
  BY DEF Unread
<1> QED  BY <1>5, <1>6 DEF Finish, TypeOK

LEMMA RollbackKeeps ==
    ASSUME IInv, NEW r \in Requests, NEW a \in Answers, Rollback(r, a)
    PROVE  IInv'
<1>1. Finish(r, a) /\ UNCHANGED <<balance, txns, ledger, details>>
  BY DEF Rollback, db
<1>2. LockDiscipline'
  BY <1>1, Finished DEF IInv
<1>3. TypeOK'
  BY <1>1, Finished DEF IInv, TypeOK
<1> QED  BY <1>1, <1>2, <1>3 DEF IInv, MainNeverOverdrawn

-----------------------------------------------------------------------------
(* The initial states *)

LEMMA InitKeeps == Init => IInv
<1> SUFFICES ASSUME Init PROVE IInv
  OBVIOUS
<1>1. Unread \in [Wallets -> Int] /\ << >> \in Seq(Wallets)
  BY DEF Unread
<1>2. TypeOK
  BY <1>1, BalanceAssumption, OpeningAssumption DEF Init, TypeOK, TxnIds
<1>3. \A r \in Requests : ~Active(r)
  BY DEF Init, Active, Waiting
<1>4. LockDiscipline
  BY <1>3 DEF Init, LockDiscipline, Exclusive, JobKnown, OnPlan, StillAccepted
<1>5. MainNeverOverdrawn
  BY BalanceAssumption DEF Init, MainNeverOverdrawn
<1> QED  BY <1>2, <1>4, <1>5 DEF IInv

-----------------------------------------------------------------------------
(* Arrivals *)

LEMMA InitiateDepositKeeps ==
    ASSUME IInv, NEW r \in Requests, NEW u \in Users, NEW a \in Amounts,
           InitiateDeposit(r, u, a)
    PROVE  IInv'
<1>1. /\ pc[r] = "new" /\ pc' = [pc EXCEPT ![r] = "ok"]
      /\ UNCHANGED <<balance, ledger, details, job, seen, todo, held, txnLock>>
      /\ txns' = [txns EXCEPT ![<<r, "DEP">>] = NewTxn("FUNDING", "PENDING", u, a, None)]
  BY DEF InitiateDeposit, local
<1>2. NewTxn("FUNDING", "PENDING", u, a, None) \in Row
  BY DEF NewTxn, Row, Types, Statuses
<1>3. TypeOK'
  BY <1>1, <1>2 DEF IInv, TypeOK, Answers
<1>4. \A t \in TxnIds : txns[t] \in Row => txns'[t] \in Row
  BY <1>1, <1>2 DEF IInv, TypeOK
<1>5. pc'[r] = "ok" /\ ~Active(r)'
  BY <1>1 DEF IInv, TypeOK, Active, Waiting
<1>6. held[r] = {} /\ txnLock[r] = "none"
  BY <1>1 DEF IInv, LockDiscipline, OnPlan, Active, Waiting
<1>7. JobKnown(r)' /\ StillAccepted(r)'
  BY <1>5 DEF JobKnown, StillAccepted
<1>8. OnPlan(r)'
  BY <1>1, <1>5, <1>6 DEF OnPlan
<1>9. LockDiscipline'
  <2>1. Alone(r)
    BY <1>1 DEF IInv, TypeOK, Alone, Others
  <2>2. \A q \in Others(r) : held[q] \intersect held'[r] = {}
    BY <1>1, <1>6
  <2> QED  BY <1>1, <1>4, <1>7, <1>8, <2>1, <2>2, Frame DEF IInv
<1> QED  BY <1>1, <1>3, <1>9 DEF IInv, MainNeverOverdrawn

\* Withdrawals and transfers arrive holding nothing, with their wallets to lock.
LEMMA BeginLockingKeeps ==
    ASSUME IInv, NEW r \in Requests, NEW j \in Job, BeginLocking(r, j), j.op \in Locking,
           j.op = "transfer" => j.user # j.peer,
           j.op = "withdraw" => j.peer = Stranger
    PROVE  IInv'
<1>1. /\ pc[r] = "new" /\ pc' = [pc EXCEPT ![r] = "lock"]
      /\ job' = [job EXCEPT ![r] = j] /\ todo' = [todo EXCEPT ![r] = ForUpdate(j)]
      /\ UNCHANGED <<balance, txns, ledger, details, seen, held, txnLock>>
  BY DEF BeginLocking, db
<1>2. ForUpdate(j) \in Seq(Wallets)
  <2>1. \/ \E w \in Wallets : ForUpdate(j) = <<w>>
        \/ \E v, w \in Wallets : ForUpdate(j) = <<v, w>>
    BY ForUpdateShape
  <2> QED  BY <2>1, ShortSeqs
<1>3. TypeOK'
  BY <1>1, <1>2 DEF IInv, TypeOK, Waiting
<1>4. held[r] = {} /\ txnLock[r] = "none"
  BY <1>1 DEF IInv, LockDiscipline, OnPlan, Active, Waiting
<1>5. /\ pc'[r] = "lock" /\ job'[r] = j /\ todo'[r] = ForUpdate(j)
      /\ held'[r] = {} /\ txnLock'[r] = "none"
  BY <1>1, <1>4 DEF IInv, TypeOK
<1>6. JobKnown(r)'
  BY <1>5 DEF JobKnown, Locking, Confirming
<1>7. OnPlan(r)'
  <2>1. Partway(r, ForUpdate(job[r]), {})'
    BY <1>5 DEF Partway
  <2> QED  BY <1>5, <2>1 DEF OnPlan, Active, Waiting
<1>8. StillAccepted(r)'
  BY <1>5 DEF StillAccepted
<1>9. LockDiscipline'
  <2>1. Alone(r)
    BY <1>1 DEF IInv, TypeOK, Alone, Others
  <2>2. \A q \in Others(r) : held[q] \intersect held'[r] = {}
    BY <1>5
  <2> QED  BY <1>1, <1>6, <1>7, <1>8, <2>1, <2>2, Frame DEF IInv
<1> QED  BY <1>1, <1>3, <1>9 DEF IInv, MainNeverOverdrawn

LEMMA InitiateWithdrawalKeeps ==
    ASSUME IInv, NEW r \in Requests, NEW u \in Users, NEW a \in Amounts,
           InitiateWithdrawal(r, u, a)
    PROVE  IInv'
<1> DEFINE j == NewJob("withdraw", u, Stranger, a, None)
<1>1. j \in Job /\ j.op = "withdraw" /\ j.peer = Stranger
  BY DEF NewJob, Job, Ops
<1> QED  BY <1>1, BeginLockingKeeps DEF InitiateWithdrawal, Locking

LEMMA InitiateTransferKeeps ==
    ASSUME IInv, NEW r \in Requests, NEW u \in Users, NEW a \in Amounts,
           NEW p \in Users \union {Stranger}, InitiateTransfer(r, u, p, a)
    PROVE  IInv'
<1> DEFINE j == NewJob("transfer", u, p, a, None)
<1>1. j \in Job /\ j.op = "transfer" /\ j.user = u /\ j.peer = p
  BY DEF NewJob, Job, Ops
<1> QED  BY <1>1, BeginLockingKeeps DEF InitiateTransfer, Locking

\* Confirmations arrive with the row of a pending transaction.
LEMMA BeginConfirmingKeeps ==
    ASSUME IInv, NEW r \in Requests, NEW t \in TxnIds, NEW op \in Confirming, NEW next,
           BeginConfirming(r, op, t, next),
           next = IF op = "reverse" THEN "shareTxn" ELSE "updateTxn"
    PROVE  IInv'
<1> DEFINE j == NewJob(op, txns[t].user, Stranger, txns[t].amount, t)
<1>1. /\ pc[r] = "new" /\ pc' = [pc EXCEPT ![r] = next]
      /\ job' = [job EXCEPT ![r] = j] /\ seen' = [seen EXCEPT ![r] = balance]
      /\ UNCHANGED <<balance, txns, ledger, details, todo, held, txnLock>>
      /\ txns[t] # None
  BY DEF BeginConfirming, Confirmable, db
<1>2. txns[t] \in Row
  BY <1>1 DEF IInv, TypeOK
<1>3. j \in Job /\ j.op = op /\ j.txn = t
  BY <1>2 DEF NewJob, Job, Row, Ops, Confirming
<1>4. TypeOK'
  BY <1>1, <1>3 DEF IInv, TypeOK, Waiting
<1>5. held[r] = {} /\ txnLock[r] = "none"
  BY <1>1 DEF IInv, LockDiscipline, OnPlan, Active, Waiting
<1>6. pc'[r] = next /\ job'[r] = j /\ held'[r] = {} /\ txnLock'[r] = "none" /\ txns' = txns
  BY <1>1, <1>5 DEF IInv, TypeOK
<1>7. JobKnown(r)'
  BY <1>2, <1>3, <1>6 DEF JobKnown, Confirming
<1>8. OnPlan(r)'
  BY <1>3, <1>6 DEF OnPlan, Active, Waiting, Confirming
<1>9. StillAccepted(r)'
  BY <1>3, <1>6 DEF StillAccepted, Locking, Confirming
<1>10. LockDiscipline'
  <2>1. Alone(r)
    BY <1>1 DEF IInv, TypeOK, Alone, Others
  <2>2. \A q \in Others(r) : held[q] \intersect held'[r] = {}
    BY <1>6
  <2> QED  BY <1>1, <1>7, <1>8, <1>9, <2>1, <2>2, Frame DEF IInv
<1> QED  BY <1>1, <1>4, <1>10 DEF IInv, MainNeverOverdrawn

LEMMA ArriveKeeps == ASSUME IInv, NEW r \in Requests, Arrive(r) PROVE IInv'
<1>1. CASE \E u \in Users, a \in Amounts : InitiateDeposit(r, u, a)
  BY <1>1, InitiateDepositKeeps
<1>2. CASE \E u \in Users, a \in Amounts : InitiateWithdrawal(r, u, a)
  BY <1>2, InitiateWithdrawalKeeps
<1>3. CASE \E u \in Users, a \in Amounts, p \in Users \union {Stranger} : InitiateTransfer(r, u, p, a)
  BY <1>3, InitiateTransferKeeps
<1>4. CASE RefuseSelfTransfer(r)
  BY <1>4, RollbackKeeps DEF RefuseSelfTransfer, Answers
<1>5. CASE \E t \in TxnIds : ConfirmDeposit(r, t)
  BY <1>5, BeginConfirmingKeeps DEF ConfirmDeposit, Confirming
<1>6. CASE \E t \in TxnIds : Settle(r, t)
  BY <1>6, BeginConfirmingKeeps DEF Settle, Confirming
<1>7. CASE \E t \in TxnIds : Reverse(r, t)
  BY <1>7, BeginConfirmingKeeps DEF Reverse, Confirming
<1>8. CASE \E t \in TxnIds : RefuseConfirmation(r, t)
  BY <1>8, RollbackKeeps DEF RefuseConfirmation, Answers
<1> QED  BY <1>1, <1>2, <1>3, <1>4, <1>5, <1>6, <1>7, <1>8 DEF Arrive, Open

-----------------------------------------------------------------------------
(* Statements *)

\* The row a locking statement has been granted is locked by no one else.
LEMMA GrantedRow ==
    ASSUME NEW r \in Requests, pc[r] \in {"lock", "updateWallet"}, Granted(r)
    PROVE  \A q \in Others(r) : Head(todo[r]) \notin held[q]
  BY DEF Granted, Blockers, WalletBlockers

\* What is left of a list of one or two rows, of which some have been locked.
LEMMA PartwayStep ==
    ASSUME NEW r \in Requests, NEW start,
           NEW s, \/ \E w \in Wallets : s = <<w>>
                  \/ \E v, w \in Wallets : s = <<v, w>>,
           Partway(r, s, start)
    PROVE  \/ \E w \in Wallets :
                /\ todo[r] = <<w>> /\ Head(todo[r]) = w /\ Tail(todo[r]) = << >> /\ Len(todo[r]) = 1
                /\ \/ s = <<w>> /\ held[r] = start
                   \/ \E v \in Wallets : s = <<v, w>> /\ held[r] = start \union {v}
           \/ \E v, w \in Wallets :
                /\ todo[r] = <<v, w>> /\ Head(todo[r]) = v /\ Tail(todo[r]) = <<w>> /\ Len(todo[r]) = 2
                /\ s = <<v, w>> /\ held[r] = start
<1>1. CASE todo[r] = s /\ held[r] = start
  <2>1. CASE \E w \in Wallets : s = <<w>>
    BY <1>1, <2>1
  <2>2. CASE \E v, w \in Wallets : s = <<v, w>>
    BY <1>1, <2>2
  <2> QED  BY <2>1, <2>2
<1>2. CASE \E v, w \in Wallets : s = <<v, w>> /\ todo[r] = <<w>> /\ held[r] = start \union {v}
  BY <1>2
<1> QED  BY <1>1, <1>2 DEF Partway

LEMMA LockWalletKeeps == ASSUME IInv, NEW r \in Requests, LockWallet(r) PROVE IInv'
<1> DEFINE h == Head(todo[r])
<1>1. /\ pc[r] = "lock" /\ Granted(r)
      /\ held' = [held EXCEPT ![r] = @ \union {h}]
      /\ todo' = [todo EXCEPT ![r] = Tail(@)]
      /\ seen' = [seen EXCEPT ![r][h] = balance[h]]
      /\ pc' = [pc EXCEPT ![r] = IF Len(todo[r]) > 1 THEN "lock" ELSE "check"]
      /\ UNCHANGED <<balance, txns, ledger, details, job, txnLock>>
  BY DEF LockWallet, TakeWallet, db
<1>2. TypeOK /\ JobKnown(r) /\ OnPlan(r) /\ StillAccepted(r) /\ Active(r)
  BY <1>1 DEF IInv, LockDiscipline, Active, Waiting
<1>3. /\ job[r] \in Job /\ job[r].op \in Locking /\ Partway(r, ForUpdate(job[r]), {})
      /\ job[r].op = "transfer" => job[r].user # job[r].peer
      /\ job[r].op = "withdraw" => job[r].peer = Stranger
      /\ txnLock[r] = "none"
  BY <1>1, <1>2 DEF JobKnown, OnPlan
<1>4. \/ \E w \in Wallets :
           /\ h = w /\ Tail(todo[r]) = << >> /\ Len(todo[r]) = 1
           /\ held[r] \union {w} = Parties(job[r])
      \/ \E v, w \in Wallets :
           /\ h = v /\ Tail(todo[r]) = <<w>> /\ Len(todo[r]) = 2
           /\ ForUpdate(job[r]) = <<v, w>> /\ held[r] = {}
  <2>1. PICK s : s = ForUpdate(job[r])
    OBVIOUS
  <2>2. \/ \E w \in Wallets : s = <<w>> /\ Parties(job[r]) = {w}
        \/ \E v, w \in Wallets : s = <<v, w>> /\ Parties(job[r]) = {v, w}
    BY <1>3, <2>1, ForUpdateShape
  <2>3. \/ \E w \in Wallets :
             /\ todo[r] = <<w>> /\ Head(todo[r]) = w /\ Tail(todo[r]) = << >> /\ Len(todo[r]) = 1
             /\ \/ s = <<w>> /\ held[r] = {}
                \/ \E v \in Wallets : s = <<v, w>> /\ held[r] = {} \union {v}
        \/ \E v, w \in Wallets :
             /\ todo[r] = <<v, w>> /\ Head(todo[r]) = v /\ Tail(todo[r]) = <<w>> /\ Len(todo[r]) = 2
             /\ s = <<v, w>> /\ held[r] = {}
    BY <1>3, <2>1, <2>2, PartwayStep
  <2> QED  BY <2>1, <2>2, <2>3
<1>5. h \in Wallets /\ Tail(todo[r]) \in Seq(Wallets)
  BY <1>4, ShortSeqs
<1>6. TypeOK'
  BY <1>1, <1>2, <1>5 DEF TypeOK, Waiting
<1>7. /\ held'[r] = held[r] \union {h} /\ todo'[r] = Tail(todo[r]) /\ job'[r] = job[r]
      /\ txnLock'[r] = "none" /\ seen'[r] = [seen[r] EXCEPT ![h] = balance[h]]
      /\ pc'[r] = IF Len(todo[r]) > 1 THEN "lock" ELSE "check"
      /\ pc'[r] \in {"lock", "check"} /\ Active(r)'
  BY <1>1, <1>2, <1>3 DEF TypeOK, Active, Waiting
<1>8. JobKnown(r)'
  BY <1>1, <1>2, <1>7 DEF JobKnown
<1>9. OnPlan(r)'
  <2>1. pc'[r] = "lock" => Partway(r, ForUpdate(job[r]), {})'
    <3>1. SUFFICES ASSUME pc'[r] = "lock" PROVE Partway(r, ForUpdate(job[r]), {})'
      OBVIOUS
    <3>2. ~(Len(todo[r]) = 1)
      <4>1. Len(todo[r]) = 1 => pc'[r] = "check"
        BY <1>1, <1>2 DEF TypeOK
      <4> QED  BY <3>1, <4>1
    <3>3. PICK v, w \in Wallets :
             /\ h = v /\ Tail(todo[r]) = <<w>>
             /\ ForUpdate(job[r]) = <<v, w>> /\ held[r] = {}
      BY <1>4, <3>2
    <3> QED  BY <1>7, <3>3 DEF Partway
  <2>2. pc'[r] = "check" => held'[r] = Parties(job[r])
    <3>1. SUFFICES ASSUME pc'[r] = "check" PROVE held[r] \union {h} = Parties(job[r])
      BY <1>7
    <3>2. ~(Len(todo[r]) = 2)
      BY <1>7, <3>1
    <3> QED  BY <1>4, <3>2
  <2>3. Parties(job'[r]) = Parties(job[r])
    BY <1>7
  <2> QED  BY <1>3, <1>7, <2>1, <2>2, <2>3 DEF OnPlan
<1>10. StillAccepted(r)'
  <2>1. \A w \in held'[r] \intersect Users : seen'[r][w] = balance'[w]
    BY <1>1, <1>2, <1>3, <1>7, WalletFacts DEF StillAccepted, TypeOK
  <2> QED  BY <1>7, <2>1 DEF StillAccepted
<1>11. LockDiscipline'
  <2>1. Alone(r)
    BY <1>1, <1>2 DEF TypeOK, Alone, Others
  <2>2. \A q \in Others(r) : held[q] \intersect held'[r] = {}
    BY <1>1, <1>7, GrantedRow DEF IInv, LockDiscipline, Exclusive, Others
  <2> QED  BY <1>1, <1>2, <1>8, <1>9, <1>10, <2>1, <2>2, Frame DEF IInv
<1> QED  BY <1>1, <1>6, <1>11 DEF IInv, MainNeverOverdrawn

\* The balance of HOLDING is read without a lock, and no promise rests on it.
LEMMA ReadHoldingKeeps == ASSUME IInv, NEW r \in Requests, ReadHolding(r) PROVE IInv'
<1>1. /\ pc[r] = "check" /\ Accepted(r)
      /\ seen' = [seen EXCEPT ![r][HOLDING] = balance[HOLDING]]
      /\ todo' = [todo EXCEPT ![r] = Updates(job[r])]
      /\ pc' = [pc EXCEPT ![r] = "updateWallet"]
      /\ UNCHANGED <<balance, txns, ledger, details, job, held, txnLock>>
  BY DEF ReadHolding, db
<1>2. TypeOK /\ JobKnown(r) /\ OnPlan(r) /\ StillAccepted(r) /\ Active(r)
  BY <1>1 DEF IInv, LockDiscipline, Active, Waiting
<1>3. /\ job[r] \in Job /\ job[r].op \in Locking /\ held[r] = Parties(job[r])
      /\ txnLock[r] = "none"
  BY <1>1, <1>2 DEF JobKnown, OnPlan
<1>4. Updates(job[r]) \in Seq(Wallets)
  <2>1. \/ \E w \in Wallets : Updates(job[r]) = <<w>>
        \/ \E v, w \in Wallets : Updates(job[r]) = <<v, w>>
    BY <1>3, UpdatesShape
  <2> QED  BY <2>1, ShortSeqs
<1>5. TypeOK'
  BY <1>1, <1>2, <1>4, WalletFacts DEF TypeOK, Waiting
<1>6. /\ held'[r] = held[r] /\ todo'[r] = Updates(job[r]) /\ job'[r] = job[r]
      /\ txnLock'[r] = "none" /\ seen'[r] = [seen[r] EXCEPT ![HOLDING] = balance[HOLDING]]
      /\ pc'[r] = "updateWallet" /\ Active(r)'
  BY <1>1, <1>2, <1>3 DEF TypeOK, Active, Waiting
<1>7. JobKnown(r)'
  BY <1>1, <1>2, <1>6 DEF JobKnown
<1>8. OnPlan(r)'
  <2>1. Partway(r, Updates(job[r]), Before(job[r]))'
    BY <1>3, <1>6 DEF Partway, Before
  <2> QED  BY <1>3, <1>6, <2>1 DEF OnPlan, Locking, Confirming
<1>9. StillAccepted(r)'
  <2>1. \A w \in Users : seen'[r][w] = seen[r][w]
    BY <1>2, <1>6, WalletFacts DEF TypeOK
  <2>2. Accepted(r)'
    BY <1>1, <1>3, <1>6, <2>1 DEF Accepted, Covered, Job
  <2> QED  BY <1>1, <1>2, <1>3, <1>6, <2>1, <2>2 DEF StillAccepted
<1>10. LockDiscipline'
  <2>1. Alone(r)
    BY <1>1, <1>2 DEF TypeOK, Alone, Others
  <2>2. \A q \in Others(r) : held[q] \intersect held'[r] = {}
    BY <1>1, <1>6 DEF IInv, LockDiscipline, Exclusive, Others
  <2> QED  BY <1>1, <1>2, <1>7, <1>8, <1>9, <2>1, <2>2, Frame DEF IInv
<1> QED  BY <1>1, <1>5, <1>10 DEF IInv, MainNeverOverdrawn

LEMMA ShareTxnKeeps == ASSUME IInv, NEW r \in Requests, ShareTxn(r) PROVE IInv'
<1>1. /\ pc[r] = "shareTxn" /\ pc' = [pc EXCEPT ![r] = "updateTxn"]
      /\ txnLock' = [txnLock EXCEPT ![r] = "S"]
      /\ UNCHANGED <<balance, txns, ledger, details, job, seen, todo, held>>
  BY DEF ShareTxn, db
<1>2. TypeOK /\ JobKnown(r) /\ OnPlan(r) /\ Active(r)
  BY <1>1 DEF IInv, LockDiscipline, Active, Waiting
<1>3. TypeOK'
  BY <1>1, <1>2 DEF TypeOK, Waiting
<1>4. /\ pc'[r] = "updateTxn" /\ txnLock'[r] = "S" /\ job'[r] = job[r]
      /\ held'[r] = {} /\ job[r].op = "reverse" /\ Active(r)'
  BY <1>1, <1>2 DEF TypeOK, OnPlan, Active, Waiting
<1>5. JobKnown(r)'
  BY <1>1, <1>2, <1>4 DEF JobKnown
<1>6. OnPlan(r)' /\ StillAccepted(r)'
  BY <1>4 DEF OnPlan, StillAccepted, Confirming, Locking
<1>7. LockDiscipline'
  <2>1. Alone(r)
    BY <1>1, <1>2 DEF TypeOK, Alone, Others
  <2>2. \A q \in Others(r) : held[q] \intersect held'[r] = {}
    BY <1>4
  <2> QED  BY <1>1, <1>2, <1>5, <1>6, <2>1, <2>2, Frame DEF IInv
<1> QED  BY <1>1, <1>3, <1>7 DEF IInv, MainNeverOverdrawn

LEMMA UpdateTxnKeeps == ASSUME IInv, NEW r \in Requests, UpdateTxn(r) PROVE IInv'
<1>1. /\ pc[r] = "updateTxn" /\ pc' = [pc EXCEPT ![r] = "updateWallet"]
      /\ txnLock' = [txnLock EXCEPT ![r] = "X"]
      /\ todo' = [todo EXCEPT ![r] = Updates(job[r])]
      /\ UNCHANGED <<balance, txns, ledger, details, job, seen, held>>
  BY DEF UpdateTxn, db
<1>2. TypeOK /\ JobKnown(r) /\ OnPlan(r) /\ Active(r)
  BY <1>1 DEF IInv, LockDiscipline, Active, Waiting
<1>3. job[r] \in Job /\ job[r].op \in Confirming /\ held[r] = {}
  BY <1>1, <1>2 DEF JobKnown, OnPlan
<1>4. Updates(job[r]) \in Seq(Wallets)
  <2>1. \/ \E w \in Wallets : Updates(job[r]) = <<w>>
        \/ \E v, w \in Wallets : Updates(job[r]) = <<v, w>>
    BY <1>3, UpdatesShape
  <2> QED  BY <2>1, ShortSeqs
<1>5. TypeOK'
  BY <1>1, <1>2, <1>4 DEF TypeOK, Waiting
<1>6. /\ pc'[r] = "updateWallet" /\ txnLock'[r] = "X" /\ job'[r] = job[r]
      /\ held'[r] = {} /\ todo'[r] = Updates(job[r]) /\ Active(r)'
  BY <1>1, <1>2, <1>3 DEF TypeOK, Active, Waiting
<1>7. JobKnown(r)'
  BY <1>1, <1>2, <1>6 DEF JobKnown
<1>8. Partway(r, Updates(job[r]), Before(job[r]))'
  BY <1>3, <1>6 DEF Partway, Before, Locking, Confirming
<1>9. OnPlan(r)'
  BY <1>3, <1>6, <1>8 DEF OnPlan
<1>10. StillAccepted(r)'
  BY <1>3, <1>6 DEF StillAccepted, Confirming, Locking
<1>11. LockDiscipline'
  <2>1. Alone(r)
    BY <1>1, <1>2 DEF TypeOK, Alone, Others
  <2>2. \A q \in Others(r) : held[q] \intersect held'[r] = {}
    BY <1>6
  <2> QED  BY <1>1, <1>2, <1>7, <1>9, <1>10, <2>1, <2>2, Frame DEF IInv
<1> QED  BY <1>1, <1>5, <1>11 DEF IInv, MainNeverOverdrawn

LEMMA UpdateWalletKeeps == ASSUME IInv, NEW r \in Requests, UpdateWallet(r) PROVE IInv'
<1> DEFINE h == Head(todo[r])
           before == Before(job[r])
<1>1. /\ pc[r] = "updateWallet" /\ Granted(r)
      /\ held' = [held EXCEPT ![r] = @ \union {h}]
      /\ todo' = [todo EXCEPT ![r] = Tail(@)]
      /\ pc' = [pc EXCEPT ![r] = IF Len(todo[r]) > 1 THEN "updateWallet" ELSE "commit"]
      /\ UNCHANGED <<balance, txns, ledger, details, job, seen, txnLock>>
  BY DEF UpdateWallet, TakeWallet, db
<1>2. TypeOK /\ JobKnown(r) /\ OnPlan(r) /\ StillAccepted(r) /\ Active(r)
  BY <1>1 DEF IInv, LockDiscipline, Active, Waiting
<1>3. /\ job[r] \in Job /\ Partway(r, Updates(job[r]), before)
      /\ txnLock[r] = IF job[r].op \in Confirming THEN "X" ELSE "none"
  BY <1>1, <1>2 DEF JobKnown, OnPlan
<1>4. \/ \E w \in Wallets :
           /\ h = w /\ Tail(todo[r]) = << >> /\ Len(todo[r]) = 1
           /\ held[r] \union {w} = Touched(job[r])
      \/ \E v, w \in Wallets :
           /\ h = v /\ Tail(todo[r]) = <<w>> /\ Len(todo[r]) = 2
           /\ Updates(job[r]) = <<v, w>> /\ held[r] = before
  <2>1. PICK s : s = Updates(job[r])
    OBVIOUS
  <2>2. \/ \E w \in Wallets : s = <<w>> /\ Touched(job[r]) = before \union {w}
        \/ \E v, w \in Wallets : s = <<v, w>> /\ Touched(job[r]) = before \union {v, w}
    BY <1>3, <2>1, UpdatesShape
  <2>3. \/ \E w \in Wallets :
             /\ todo[r] = <<w>> /\ Head(todo[r]) = w /\ Tail(todo[r]) = << >> /\ Len(todo[r]) = 1
             /\ \/ s = <<w>> /\ held[r] = before
                \/ \E v \in Wallets : s = <<v, w>> /\ held[r] = before \union {v}
        \/ \E v, w \in Wallets :
             /\ todo[r] = <<v, w>> /\ Head(todo[r]) = v /\ Tail(todo[r]) = <<w>> /\ Len(todo[r]) = 2
             /\ s = <<v, w>> /\ held[r] = before
    BY <1>3, <2>1, <2>2, PartwayStep
  <2> QED  BY <2>1, <2>2, <2>3
<1>5. h \in Wallets /\ Tail(todo[r]) \in Seq(Wallets)
  BY <1>4, ShortSeqs
<1>6. TypeOK'
  BY <1>1, <1>2, <1>5 DEF TypeOK, Waiting
<1>7. /\ held'[r] = held[r] \union {h} /\ todo'[r] = Tail(todo[r]) /\ job'[r] = job[r]
      /\ txnLock'[r] = txnLock[r] /\ seen'[r] = seen[r]
      /\ pc'[r] = IF Len(todo[r]) > 1 THEN "updateWallet" ELSE "commit"
      /\ pc'[r] \in {"updateWallet", "commit"} /\ Active(r)'
  BY <1>1, <1>2 DEF TypeOK, Active, Waiting
<1>8. JobKnown(r)'
  BY <1>1, <1>2, <1>7 DEF JobKnown
<1>9. OnPlan(r)'
  <2>1. pc'[r] = "updateWallet" => Partway(r, Updates(job[r]), Before(job[r]))'
    <3>1. SUFFICES ASSUME pc'[r] = "updateWallet"
                   PROVE  Partway(r, Updates(job[r]), Before(job[r]))'
      OBVIOUS
    <3>2. ~(Len(todo[r]) = 1)
      <4>1. Len(todo[r]) = 1 => pc'[r] = "commit"
        BY <1>1, <1>2 DEF TypeOK
      <4> QED  BY <3>1, <4>1
    <3>3. PICK v, w \in Wallets :
             /\ h = v /\ Tail(todo[r]) = <<w>>
             /\ Updates(job[r]) = <<v, w>> /\ held[r] = before
      BY <1>4, <3>2
    <3> QED  BY <1>7, <3>3 DEF Partway
  <2>2. pc'[r] = "commit" => held'[r] = Touched(job[r])
    <3>1. SUFFICES ASSUME pc'[r] = "commit" PROVE held[r] \union {h} = Touched(job[r])
      BY <1>7
    <3>2. ~(Len(todo[r]) = 2)
      <4>1. Len(todo[r]) = 2 => pc'[r] = "updateWallet"
        BY <1>1, <1>2 DEF TypeOK
      <4> QED  BY <3>1, <4>1
    <3> QED  BY <1>4, <3>2
  <2>3. Touched(job'[r]) = Touched(job[r])
    BY <1>7
  <2> QED  BY <1>3, <1>7, <2>1, <2>2, <2>3 DEF OnPlan
<1>10. StillAccepted(r)'
  <2>1. SUFFICES ASSUME job[r].op \in Locking
                 PROVE  /\ \A w \in held'[r] \intersect Users : seen'[r][w] = balance'[w]
                        /\ Accepted(r)'
    BY <1>7 DEF StillAccepted
  <2>2. h = HOLDING
    BY <1>3, <1>4, <2>1 DEF Partway, Updates, Locking
  <2>3. \A w \in held'[r] \intersect Users : seen'[r][w] = balance'[w]
    BY <1>1, <1>2, <1>7, <2>1, <2>2, WalletFacts DEF StillAccepted
  <2>4. Accepted(r)'
    BY <1>1, <1>2, <1>7, <2>1 DEF StillAccepted, Accepted, Covered
  <2> QED  BY <2>3, <2>4
<1>11. LockDiscipline'
  <2>1. Alone(r)
    BY <1>1, <1>2 DEF TypeOK, Alone, Others
  <2>2. \A q \in Others(r) : held[q] \intersect held'[r] = {}
    BY <1>1, <1>7, GrantedRow DEF IInv, LockDiscipline, Exclusive, Others
  <2> QED  BY <1>1, <1>2, <1>8, <1>9, <1>10, <2>1, <2>2, Frame DEF IInv
<1> QED  BY <1>1, <1>6, <1>11 DEF IInv, MainNeverOverdrawn

-----------------------------------------------------------------------------
(* Commits *)

\* Money moves between two wallets; the others keep theirs.
LEMMA MoveFacts ==
    \A b \in [Wallets -> Int], from, to \in Wallets, a \in Amounts :
        from # to =>
           /\ Move(b, from, to, a) \in [Wallets -> Int]
           /\ Move(b, from, to, a)[from] = b[from] - a
           /\ Move(b, from, to, a)[to] = b[to] + a
           /\ \A w \in Wallets \ {from, to} : Move(b, from, to, a)[w] = b[w]
  BY AmountsAssumption DEF Move

LEMMA DoubleEntryType ==
    ASSUME NEW r \in Requests, NEW t \in TxnIds, NEW a \in Amounts,
           NEW c \in Wallets, NEW d \in Wallets, NEW cb \in Int, NEW bd \in Int
    PROVE  DoubleEntry(r, t, a, c, cb, d, bd) \subseteq Entry
<1>1. cb + a \in Int /\ bd - a \in Int
  BY AmountsAssumption
<1> QED  BY <1>1 DEF DoubleEntry, Entry

LEMMA NewIds == \A r \in Requests, leg \in Legs : <<r, leg>> \in TxnIds
  BY DEF TxnIds

\* What is known of a request about to commit.
LEMMA Committing ==
    ASSUME IInv, NEW r \in Requests, NEW ops \in SUBSET Ops, Commits(r, ops)
    PROVE  /\ TypeOK /\ LockDiscipline /\ Finish(r, "ok") /\ "ok" \in Answers
           /\ job[r] \in Job /\ job[r].op \in ops
           /\ job[r].user \in Users /\ job[r].user \in Wallets /\ job[r].amount \in Amounts
           /\ held[r] = Touched(job[r])
           /\ \A w \in Wallets : seen[r][w] \in Int
           /\ job[r].op \in Confirming => job[r].txn \in TxnIds /\ txns[job[r].txn] \in Row
           /\ job[r].op \in Locking =>
                /\ Accepted(r)
                /\ \A w \in held[r] \intersect Users : seen[r][w] = balance[w]
           /\ job[r].op = "transfer" => job[r].user # job[r].peer
<1>1. /\ pc[r] = "commit" /\ job[r].op \in ops /\ Finish(r, "ok")
  BY DEF Commits
<1>2. TypeOK /\ LockDiscipline /\ JobKnown(r) /\ OnPlan(r) /\ StillAccepted(r) /\ Active(r)
  BY <1>1 DEF IInv, LockDiscipline, Active, Waiting
<1>3. job[r] \in Job
  BY <1>2 DEF JobKnown
<1>4. job[r].user \in Users /\ job[r].user \in Wallets /\ job[r].amount \in Amounts
  BY <1>3, WalletFacts DEF Job
<1>5. \A w \in Wallets : seen[r][w] \in Int
  BY <1>2 DEF TypeOK
<1> QED  BY <1>1, <1>2, <1>3, <1>4, <1>5 DEF JobKnown, OnPlan, StillAccepted, Answers

LEMMA CommitWithdrawalKeeps == ASSUME IInv, NEW r \in Requests, CommitWithdrawal(r) PROVE IInv'
<1> DEFINE j == job[r]
           t == <<r, "WD">>
           row == NewTxn("WITHDRAWAL", "PENDING", j.user, j.amount, None)
           new == DoubleEntry(r, t, j.amount, HOLDING, seen[r][HOLDING], j.user, seen[r][j.user])
<1>1. /\ Commits(r, {"withdraw"})
      /\ balance' = Move(balance, j.user, HOLDING, j.amount)
      /\ txns' = [txns EXCEPT ![t] = row]
      /\ ledger' = ledger \union new
      /\ details' = details \union Filed("withdrawals", r, t, j.user)
  BY DEF CommitWithdrawal
<1>2. /\ TypeOK /\ LockDiscipline /\ Finish(r, "ok") /\ "ok" \in Answers
      /\ j.op = "withdraw" /\ j.user \in Users /\ j.user \in Wallets /\ j.amount \in Amounts
      /\ held[r] = Touched(j) /\ \A w \in Wallets : seen[r][w] \in Int
      /\ Accepted(r) /\ \A w \in held[r] \intersect Users : seen[r][w] = balance[w]
  BY <1>1, Committing DEF Ops, Locking
<1>3. j.user \in held[r] /\ HOLDING \in held[r] /\ j.user # HOLDING
  BY <1>2, WalletFacts DEF Touched, Parties, Locking
<1>4. /\ balance' \in [Wallets -> Int] /\ balance'[j.user] = balance[j.user] - j.amount
      /\ balance'[HOLDING] = balance[HOLDING] + j.amount
      /\ \A w \in Wallets \ {j.user, HOLDING} : balance'[w] = balance[w]
  <2>1. balance \in [Wallets -> Int]
    BY <1>2 DEF TypeOK
  <2> HIDE DEF j
  <2> QED  BY <1>1, <1>2, <1>3, <2>1, MoveFacts, WalletFacts
<1>5. t \in TxnIds /\ row \in Row
  BY <1>2, NewIds DEF Legs, NewTxn, Row, Types, Statuses
<1>6. txns' \in [TxnIds -> Row \union {None}] /\ \A s \in TxnIds : txns[s] \in Row => txns'[s] \in Row
  BY <1>1, <1>2, <1>5 DEF TypeOK
<1>7. new \subseteq Entry
  BY <1>2, <1>5, DoubleEntryType, WalletFacts
<1>8. Filed("withdrawals", r, t, j.user) \subseteq Detail
  BY <1>2, <1>5 DEF Filed, Detail
<1>9. LockDiscipline' /\ TypeOK'
  BY <1>1, <1>2, <1>3, <1>4, <1>6, <1>7, <1>8, Finished DEF TypeOK
<1>10. MainNeverOverdrawn'
  <2>1. balance[j.user] >= j.amount
    BY <1>2, <1>3 DEF Accepted, Covered
  <2>2. \A u \in Users : balance'[u] >= 0
    <3>1. SUFFICES ASSUME NEW u \in Users PROVE balance'[u] >= 0
      OBVIOUS
    <3>2. balance[u] \in Int /\ balance[u] >= 0 /\ u \in Wallets /\ u # HOLDING /\ j.amount \in Nat
      BY <1>2, WalletFacts, AmountsAssumption DEF IInv, MainNeverOverdrawn, TypeOK
    <3>3. u = j.user \/ balance'[u] = balance[u]
      BY <1>4, <3>2
    <3> HIDE DEF j
    <3> QED  BY <1>4, <2>1, <3>2, <3>3
  <2> QED  BY <2>2 DEF MainNeverOverdrawn
<1> QED  BY <1>9, <1>10 DEF IInv

LEMMA CommitTransferKeeps == ASSUME IInv, NEW r \in Requests, CommitTransfer(r) PROVE IInv'
<1> DEFINE j == job[r]
           out == <<r, "TRF-WD">>
           in == <<r, "TRF-FD">>
           h == seen[r][HOLDING]
           rowOut == NewTxn("TRANSFER", "SUCCESSFUL", j.user, j.amount, None)
           rowIn == NewTxn("FUNDING", "SUCCESSFUL", j.peer, j.amount, None)
           one == DoubleEntry(r, out, j.amount, HOLDING, h, j.user, seen[r][j.user])
           two == DoubleEntry(r, in, j.amount, j.peer, seen[r][j.peer], HOLDING, h + j.amount)
           mid == Move(balance, j.user, HOLDING, j.amount)
<1>1. /\ Commits(r, {"transfer"})
      /\ balance' = Move(mid, HOLDING, j.peer, j.amount)
      /\ txns' = [txns EXCEPT ![out] = rowOut, ![in] = rowIn]
      /\ ledger' = ledger \union one \union two
      /\ details' = details \union Filed("transfers", r, out, j.user)
  BY DEF CommitTransfer
<1>2. /\ TypeOK /\ LockDiscipline /\ Finish(r, "ok") /\ "ok" \in Answers
      /\ j.op = "transfer" /\ j.user \in Users /\ j.user \in Wallets /\ j.amount \in Amounts
      /\ held[r] = Touched(j) /\ \A w \in Wallets : seen[r][w] \in Int
      /\ Accepted(r) /\ \A w \in held[r] \intersect Users : seen[r][w] = balance[w]
      /\ j.user # j.peer
  BY <1>1, Committing DEF Ops, Locking
<1>3. j.peer \in Users /\ j.peer \in Wallets
  BY <1>2, WalletFacts DEF Accepted
<1>4. /\ j.user \in held[r] /\ j.peer \in held[r] /\ HOLDING \in held[r]
      /\ j.user # HOLDING /\ j.peer # HOLDING
  BY <1>2, <1>3, WalletFacts DEF Touched, Parties, Locking
<1>5. /\ mid \in [Wallets -> Int] /\ mid[j.user] = balance[j.user] - j.amount
      /\ \A w \in Wallets \ {j.user, HOLDING} : mid[w] = balance[w]
  <2>1. balance \in [Wallets -> Int]
    BY <1>2 DEF TypeOK
  <2> HIDE DEF j
  <2> QED  BY <1>2, <1>4, <2>1, MoveFacts, WalletFacts DEF mid
<1>6. /\ balance' \in [Wallets -> Int] /\ balance'[j.peer] = mid[j.peer] + j.amount
      /\ \A w \in Wallets \ {j.peer, HOLDING} : balance'[w] = mid[w]
  <2> HIDE DEF mid
  <2> QED  BY <1>1, <1>2, <1>3, <1>4, <1>5, MoveFacts, WalletFacts
<1>7. /\ balance'[j.user] = balance[j.user] - j.amount
      /\ balance'[j.peer] = balance[j.peer] + j.amount
      /\ \A w \in Wallets \ {j.user, j.peer, HOLDING} : balance'[w] = balance[w]
  <2> HIDE DEF mid
  <2> QED  BY <1>2, <1>3, <1>4, <1>5, <1>6
<1>8. out \in TxnIds /\ in \in TxnIds /\ rowOut \in Row /\ rowIn \in Row
  BY <1>2, <1>3, NewIds DEF Legs, NewTxn, Row, Types, Statuses
<1>9. txns' \in [TxnIds -> Row \union {None}] /\ \A s \in TxnIds : txns[s] \in Row => txns'[s] \in Row
  <2> HIDE DEF rowOut, rowIn, out, in
  <2> QED  BY <1>1, <1>2, <1>8 DEF TypeOK
<1>10. one \subseteq Entry /\ two \subseteq Entry
  <2>1. h \in Int /\ h + j.amount \in Int
    <3>1. h \in Int /\ j.amount \in Nat
      BY <1>2, WalletFacts, AmountsAssumption
    <3> HIDE DEF h, j
    <3> QED  BY <3>1
  <2>2. seen[r][j.user] \in Int /\ seen[r][j.peer] \in Int
    BY <1>2, <1>3
  <2>3. one \subseteq Entry
    BY <1>2, <1>8, <2>1, <2>2, DoubleEntryType, WalletFacts
  <2>4. two \subseteq Entry
    BY <1>2, <1>3, <1>8, <2>1, <2>2, DoubleEntryType, WalletFacts
  <2> QED  BY <2>3, <2>4
<1>11. Filed("transfers", r, out, j.user) \subseteq Detail
  BY <1>2, <1>8 DEF Filed, Detail
<1>12. LockDiscipline' /\ TypeOK'
  <2> HIDE DEF one, two, out
  <2>1. \A w \in Wallets \ held[r] : balance'[w] = balance[w]
    BY <1>4, <1>7
  <2> QED  BY <1>1, <1>2, <1>6, <1>9, <1>10, <1>11, <2>1, Finished DEF TypeOK
<1>13. MainNeverOverdrawn'
  <2>1. balance[j.user] >= j.amount
    BY <1>2, <1>4 DEF Accepted, Covered
  <2>2. \A u \in Users : balance'[u] >= 0
    <3>1. SUFFICES ASSUME NEW u \in Users PROVE balance'[u] >= 0
      OBVIOUS
    <3>2. balance[u] \in Int /\ balance[u] >= 0 /\ u \in Wallets /\ u # HOLDING /\ j.amount \in Nat
      BY <1>2, WalletFacts, AmountsAssumption DEF IInv, MainNeverOverdrawn, TypeOK
    <3>3. u = j.user \/ u = j.peer \/ balance'[u] = balance[u]
      BY <1>7, <3>2
    <3> HIDE DEF j
    <3> QED  BY <1>7, <2>1, <3>2, <3>3
  <2> QED  BY <2>2 DEF MainNeverOverdrawn
<1> QED  BY <1>12, <1>13 DEF IInv

\* Confirmations debit a wallet of the platform, which may go below zero.
LEMMA ConfirmedKeeps ==
    ASSUME IInv, NEW r \in Requests, NEW op \in Confirming, Commits(r, {op}),
           NEW from \in Wallets, NEW to \in Wallets, from # to, from \notin Users,
           Touched(job[r]) = {from, to},
           balance' = Move(balance, from, to, job[r].amount),
           txns' \in [TxnIds -> Row \union {None}],
           \A s \in TxnIds : txns[s] \in Row => txns'[s] \in Row,
           NEW t \in TxnIds,
           ledger' = ledger \union
             DoubleEntry(r, t, job[r].amount, to, seen[r][to], from, seen[r][from]),
           details' \subseteq Detail
    PROVE  IInv'
<1> DEFINE a == job[r].amount
           new == DoubleEntry(r, t, a, to, seen[r][to], from, seen[r][from])
<1>1. /\ TypeOK /\ LockDiscipline /\ Finish(r, "ok") /\ "ok" \in Answers
      /\ a \in Amounts /\ held[r] = {from, to} /\ \A w \in Wallets : seen[r][w] \in Int
  BY Committing DEF Ops, Confirming
<1>2. balance \in [Wallets -> Int] /\ a \in Nat
  BY <1>1, AmountsAssumption DEF TypeOK
<1>3. /\ balance' \in [Wallets -> Int] /\ balance'[to] = balance[to] + a
      /\ \A w \in Wallets \ {from, to} : balance'[w] = balance[w]
  <2>1. balance' = Move(balance, from, to, a)
    OBVIOUS
  <2> HIDE DEF a
  <2> QED  BY <1>1, <1>2, <2>1, MoveFacts
<1>4. new \subseteq Entry
  <2>1. seen[r][to] \in Int /\ seen[r][from] \in Int
    BY <1>1
  <2> QED  BY <1>1, <2>1, DoubleEntryType
<1>5. LockDiscipline' /\ TypeOK'
  <2> HIDE DEF new, a
  <2>1. ledger' \subseteq Entry
    BY <1>1, <1>4 DEF new, a, TypeOK
  <2>2. \A w \in Wallets \ held[r] : balance'[w] = balance[w]
    BY <1>1, <1>3
  <2> QED  BY <1>1, <1>3, <2>1, <2>2, Finished DEF TypeOK
<1>6. MainNeverOverdrawn'
  <2>1. SUFFICES ASSUME NEW u \in Users PROVE balance'[u] >= 0
    BY DEF MainNeverOverdrawn
  <2>2. balance[u] \in Int /\ balance[u] >= 0 /\ u \in Wallets /\ u # from
    BY <1>2, WalletFacts DEF IInv, MainNeverOverdrawn
  <2>3. u = to \/ balance'[u] = balance[u]
    BY <1>3, <2>2
  <2> HIDE DEF a
  <2> QED  BY <1>2, <1>3, <2>2, <2>3
<1> QED  BY <1>5, <1>6 DEF IInv

LEMMA CommitDepositKeeps == ASSUME IInv, NEW r \in Requests, CommitDeposit(r) PROVE IInv'
<1> DEFINE j == job[r]
<1>1. /\ Commits(r, {"confirmDeposit"})
      /\ balance' = Move(balance, SYSTEM, j.user, j.amount)
      /\ txns' = [txns EXCEPT ![j.txn].status = "SUCCESSFUL"]
      /\ ledger' = ledger \union
           DoubleEntry(r, j.txn, j.amount, j.user, seen[r][j.user], SYSTEM, seen[r][SYSTEM])
      /\ details' = details \union Filed("fundings", r, j.txn, j.user)
  BY DEF CommitDeposit
<1>2. /\ TypeOK /\ j.op = "confirmDeposit" /\ j.user \in Users /\ j.user \in Wallets
      /\ j.txn \in TxnIds /\ txns[j.txn] \in Row
  BY <1>1, Committing DEF Ops, Confirming
<1>3. Touched(j) = {SYSTEM, j.user}
  BY <1>2 DEF Touched, Locking
<1>4. /\ txns' \in [TxnIds -> Row \union {None}]
      /\ \A s \in TxnIds : txns[s] \in Row => txns'[s] \in Row
  <2>1. [txns[j.txn] EXCEPT !.status = "SUCCESSFUL"] \in Row
    BY <1>2 DEF Row, Statuses
  <2>2. txns' = [txns EXCEPT ![j.txn] = [txns[j.txn] EXCEPT !.status = "SUCCESSFUL"]]
    BY <1>1
  <2> HIDE DEF j
  <2> QED  BY <1>2, <2>1, <2>2 DEF TypeOK
<1>5. details' \subseteq Detail
  BY <1>1, <1>2 DEF Filed, Detail, TypeOK
<1> HIDE DEF j
<1> QED  BY <1>1, <1>2, <1>3, <1>4, <1>5, ConfirmedKeeps, WalletFacts DEF j, Confirming

LEMMA CommitSettlementKeeps == ASSUME IInv, NEW r \in Requests, CommitSettlement(r) PROVE IInv'
<1> DEFINE j == job[r]
<1>1. /\ Commits(r, {"settle"})
      /\ balance' = Move(balance, HOLDING, SYSTEM, j.amount)
      /\ txns' = [txns EXCEPT ![j.txn].status = "SUCCESSFUL"]
      /\ ledger' = ledger \union
           DoubleEntry(r, j.txn, j.amount, SYSTEM, seen[r][SYSTEM], HOLDING, seen[r][HOLDING])
      /\ details' = details
  BY DEF CommitSettlement
<1>2. /\ TypeOK /\ j.op = "settle" /\ j.txn \in TxnIds /\ txns[j.txn] \in Row
  BY <1>1, Committing DEF Ops, Confirming
<1>3. Touched(j) = {HOLDING, SYSTEM}
  BY <1>2 DEF Touched, Locking
<1>4. /\ txns' \in [TxnIds -> Row \union {None}]
      /\ \A s \in TxnIds : txns[s] \in Row => txns'[s] \in Row
  <2>1. [txns[j.txn] EXCEPT !.status = "SUCCESSFUL"] \in Row
    BY <1>2 DEF Row, Statuses
  <2>2. txns' = [txns EXCEPT ![j.txn] = [txns[j.txn] EXCEPT !.status = "SUCCESSFUL"]]
    BY <1>1
  <2> HIDE DEF j
  <2> QED  BY <1>2, <2>1, <2>2 DEF TypeOK
<1>5. details' \subseteq Detail
  BY <1>1, <1>2 DEF TypeOK
<1> HIDE DEF j
<1> QED  BY <1>1, <1>2, <1>3, <1>4, <1>5, ConfirmedKeeps, WalletFacts DEF j, Confirming

LEMMA CommitReversalKeeps == ASSUME IInv, NEW r \in Requests, CommitReversal(r) PROVE IInv'
<1> DEFINE j == job[r]
           t == <<r, "REV">>
           row == NewTxn("REVERSAL", "SUCCESSFUL", j.user, j.amount, j.txn)
<1>1. /\ Commits(r, {"reverse"})
      /\ balance' = Move(balance, HOLDING, j.user, j.amount)
      /\ txns' = [txns EXCEPT ![j.txn].status = "FAILED", ![t] = row]
      /\ ledger' = ledger \union
           DoubleEntry(r, t, j.amount, j.user, seen[r][j.user], HOLDING, seen[r][HOLDING])
      /\ details' = details
  BY DEF CommitReversal
<1>2. /\ TypeOK /\ j.op = "reverse" /\ j.user \in Users /\ j.user \in Wallets
      /\ j.amount \in Amounts /\ j.txn \in TxnIds /\ txns[j.txn] \in Row
  BY <1>1, Committing DEF Ops, Confirming
<1>3. Touched(j) = {HOLDING, j.user}
  BY <1>2 DEF Touched, Locking
<1>4. t \in TxnIds /\ row \in Row
  BY <1>2, NewIds DEF Legs, NewTxn, Row, Types, Statuses
<1>5. /\ txns' \in [TxnIds -> Row \union {None}]
      /\ \A s \in TxnIds : txns[s] \in Row => txns'[s] \in Row
  <2> DEFINE failed == [txns[j.txn] EXCEPT !.status = "FAILED"]
  <2>1. failed \in Row
    BY <1>2 DEF Row, Statuses
  <2>2. txns' = [[txns EXCEPT ![j.txn] = failed] EXCEPT ![t] = row]
    BY <1>1
  <2> HIDE DEF j, row, t, failed
  <2> QED  BY <1>2, <1>4, <2>1, <2>2 DEF TypeOK
<1>6. details' \subseteq Detail
  BY <1>1, <1>2 DEF TypeOK
<1> HIDE DEF j, t, row
<1> QED  BY <1>1, <1>2, <1>3, <1>4, <1>5, <1>6, ConfirmedKeeps, WalletFacts DEF j, Confirming

-----------------------------------------------------------------------------
(* Every step, and the theorems *)

LEMMA NextKeeps == ASSUME IInv, Next PROVE IInv'
<1>1. PICK r \in Requests : Arrive(r) \/ Proceed(r) \/ Victim(r) \/ Abort(r)
  BY DEF Next
<1>2. CASE Arrive(r)
  BY <1>2, ArriveKeeps
<1>3. CASE Statement(r)
  <2>1. CASE Refuse(r)
    BY <2>1, RollbackKeeps DEF Refuse, Answers
  <2> QED
    BY <1>3, <2>1, LockWalletKeeps, ReadHoldingKeeps, ShareTxnKeeps, UpdateTxnKeeps,
       UpdateWalletKeeps DEF Statement
<1>4. CASE Commit(r)
  BY <1>4, CommitWithdrawalKeeps, CommitTransferKeeps, CommitDepositKeeps,
     CommitSettlementKeeps, CommitReversalKeeps DEF Commit
<1>5. CASE Victim(r) \/ Abort(r)
  BY <1>5, RollbackKeeps DEF Victim, Abort, Answers
<1> QED  BY <1>1, <1>2, <1>3, <1>4, <1>5 DEF Proceed

LEMMA StutterKeeps == ASSUME IInv, UNCHANGED vars PROVE IInv'
<1>1. UNCHANGED <<balance, txns, ledger, details, pc, job, seen, todo, held, txnLock>>
  BY DEF vars, db, local
<1>2. TypeOK' /\ MainNeverOverdrawn'
  BY <1>1 DEF IInv, TypeOK, MainNeverOverdrawn
<1>3. LockDiscipline'
  BY <1>1 DEF IInv, LockDiscipline, Exclusive, JobKnown, OnPlan, Partway, StillAccepted,
              Accepted, Covered, Active
<1> QED  BY <1>2, <1>3 DEF IInv

LEMMA Invariance == Spec => []IInv
<1>1. Init => IInv
  BY InitKeeps
<1>2. IInv /\ [Next]_vars => IInv'
  BY NextKeeps, StutterKeeps
<1> QED  BY <1>1, <1>2, PTL DEF Spec

\* The state of the services is always well formed: every row of transactions
\* and every ledger entry has the shape its table gives it.
THEOREM TypeCorrect == Spec => []TypeOK
<1>1. IInv => TypeOK
  BY DEF IInv
<1> QED  BY <1>1, Invariance, PTL

\* However many withdrawals, transfers, deposits and confirmations run at once,
\* the row locks are exclusive, follow each service's order, and keep true what
\* was read under them until the commit.
THEOREM Disciplined == Spec => []LockDiscipline
<1>1. IInv => LockDiscipline
  BY DEF IInv
<1> QED  BY <1>1, Invariance, PTL

\* No user's MAIN wallet is ever overdrawn, for any number of users, requests
\* and amounts: SELECT ... FOR UPDATE (wallet.repo.ts:21) does its work.
THEOREM NeverOverdrawn == Spec => []MainNeverOverdrawn
<1>1. IInv => MainNeverOverdrawn
  BY DEF IInv
<1> QED  BY <1>1, Invariance, PTL

-----------------------------------------------------------------------------
(* The audit trail *)

\* The entries of one movement from a user's wallet that was read under a lock.
LEMMA ExactDebit ==
    ASSUME NEW r, NEW t, NEW a, NEW c, NEW cb, NEW u, NEW bu,
           c \notin Users,
           NEW e \in DoubleEntry(r, t, a, c, cb, u, bu), e.wallet \in Users
    PROVE  e.by = r /\ e.wallet = u /\ e.before = bu /\ e.after = bu - a
  BY DEF DoubleEntry

LEMMA ExactCredit ==
    ASSUME NEW r, NEW t, NEW a, NEW u, NEW bu, NEW d, NEW bd,
           d \notin Users,
           NEW e \in DoubleEntry(r, t, a, u, bu, d, bd), e.wallet \in Users
    PROVE  e.by = r /\ e.wallet = u /\ e.before = bu /\ e.after = bu + a
  BY DEF DoubleEntry

LEMMA WrittenBy ==
    ASSUME NEW r, NEW t, NEW a, NEW c, NEW cb, NEW d, NEW db0,
           NEW e \in DoubleEntry(r, t, a, c, cb, d, db0)
    PROVE  e.by = r
  BY DEF DoubleEntry

\* An entry on a user's wallet says what the step does to that wallet.
Exact(e) == e.before = balance[e.wallet] /\ e.after = balance'[e.wallet]

LEMMA WithdrawalExact ==
    ASSUME IInv, NEW r \in Requests, CommitWithdrawal(r),
           NEW e \in ledger' \ ledger, e.wallet \in Users
    PROVE  Exact(e)
<1> DEFINE j == job[r]
           new == DoubleEntry(r, <<r, "WD">>, j.amount, HOLDING, seen[r][HOLDING],
                              j.user, seen[r][j.user])
<1>1. /\ Commits(r, {"withdraw"}) /\ balance' = Move(balance, j.user, HOLDING, j.amount)
      /\ ledger' = ledger \union new
  BY DEF CommitWithdrawal
<1>2. /\ TypeOK /\ j.op = "withdraw" /\ j.user \in Users /\ j.user \in Wallets
      /\ j.amount \in Amounts /\ held[r] = Touched(j)
      /\ \A w \in held[r] \intersect Users : seen[r][w] = balance[w]
  BY <1>1, Committing DEF Ops, Locking
<1>3. j.user # HOLDING /\ seen[r][j.user] = balance[j.user]
  BY <1>2, WalletFacts DEF Touched, Parties, Locking
<1>4. balance \in [Wallets -> Int]
  BY <1>2 DEF TypeOK
<1>5. balance'[j.user] = balance[j.user] - j.amount
  <2> HIDE DEF j
  <2> QED  BY <1>1, <1>2, <1>3, <1>4, MoveFacts, WalletFacts
<1>6. e \in new
  BY <1>1
<1>7. e.wallet = j.user /\ e.before = seen[r][j.user] /\ e.after = seen[r][j.user] - j.amount
  <2> HIDE DEF j
  <2> QED  BY <1>6, ExactDebit, WalletFacts
<1> QED  BY <1>3, <1>5, <1>7 DEF Exact

LEMMA TransferExact ==
    ASSUME IInv, NEW r \in Requests, CommitTransfer(r),
           NEW e \in ledger' \ ledger, e.wallet \in Users
    PROVE  Exact(e)
<1> DEFINE j == job[r]
           h == seen[r][HOLDING]
           one == DoubleEntry(r, <<r, "TRF-WD">>, j.amount, HOLDING, h, j.user, seen[r][j.user])
           two == DoubleEntry(r, <<r, "TRF-FD">>, j.amount, j.peer, seen[r][j.peer],
                              HOLDING, h + j.amount)
           mid == Move(balance, j.user, HOLDING, j.amount)
<1>1. /\ Commits(r, {"transfer"}) /\ balance' = Move(mid, HOLDING, j.peer, j.amount)
      /\ ledger' = ledger \union one \union two
  BY DEF CommitTransfer
<1>2. /\ TypeOK /\ j.op = "transfer" /\ j.user \in Users /\ j.user \in Wallets
      /\ j.amount \in Amounts /\ held[r] = Touched(j) /\ Accepted(r) /\ j.user # j.peer
      /\ \A w \in held[r] \intersect Users : seen[r][w] = balance[w]
  BY <1>1, Committing DEF Ops, Locking
<1>3. j.peer \in Users /\ j.peer \in Wallets
  BY <1>2, WalletFacts DEF Accepted
<1>4. /\ j.user # HOLDING /\ seen[r][j.user] = balance[j.user]
      /\ j.peer # HOLDING /\ seen[r][j.peer] = balance[j.peer]
  BY <1>2, <1>3, WalletFacts DEF Touched, Parties, Locking
<1>5. balance \in [Wallets -> Int]
  BY <1>2 DEF TypeOK
<1>6. /\ mid \in [Wallets -> Int] /\ mid[j.user] = balance[j.user] - j.amount
      /\ mid[j.peer] = balance[j.peer]
  <2> HIDE DEF j
  <2> QED  BY <1>2, <1>3, <1>4, <1>5, MoveFacts, WalletFacts DEF mid
<1>7. balance'[j.user] = mid[j.user] /\ balance'[j.peer] = mid[j.peer] + j.amount
  <2> HIDE DEF j, mid
  <2> QED  BY <1>1, <1>2, <1>3, <1>4, <1>6, MoveFacts, WalletFacts
<1>8. CASE e \in one
  <2>1. e.wallet = j.user /\ e.before = seen[r][j.user] /\ e.after = seen[r][j.user] - j.amount
    <3> HIDE DEF j, h
    <3> QED  BY <1>8, ExactDebit, WalletFacts
  <2> HIDE DEF j, mid
  <2> QED  BY <1>4, <1>6, <1>7, <2>1 DEF Exact
<1>9. CASE e \in two
  <2>1. e.wallet = j.peer /\ e.before = seen[r][j.peer] /\ e.after = seen[r][j.peer] + j.amount
    <3> HIDE DEF j, h
    <3> QED  BY <1>9, ExactCredit, WalletFacts
  <2> HIDE DEF j, mid
  <2> QED  BY <1>4, <1>6, <1>7, <2>1 DEF Exact
<1> QED  BY <1>1, <1>8, <1>9

\* What a confirmation writes, it writes as a confirmation.
LEMMA ConfirmationWrites ==
    ASSUME NEW r \in Requests, CommitDeposit(r) \/ CommitSettlement(r) \/ CommitReversal(r),
           NEW e \in ledger' \ ledger
    PROVE  job[e.by].op \in Confirming
<1>1. job[r].op \in Confirming
  BY DEF CommitDeposit, CommitSettlement, CommitReversal, Commits, Confirming
<1>2. e.by = r
  BY WrittenBy DEF CommitDeposit, CommitSettlement, CommitReversal
<1> QED  BY <1>1, <1>2

LEMMA OnlyCommitsWrite ==
    ASSUME Next
    PROVE  ledger' = ledger \/ \E r \in Requests : Commit(r)
  BY DEF Next, Arrive, Open, InitiateDeposit, InitiateWithdrawal, InitiateTransfer, BeginLocking,
         RefuseSelfTransfer, ConfirmDeposit, Settle, Reverse, BeginConfirming,
         RefuseConfirmation, Rollback, Proceed, Statement, LockWallet, ReadHolding, Refuse,
         ShareTxn, UpdateTxn, UpdateWallet, Victim, Abort, db

\* The ledger entries of withdrawals and transfers on users' wallets start from
\* the balance the wallet had and end with the one it has, whatever runs beside.
THEOREM AuditTrailUnderLock == Spec => LockedAuditTrail
<1> DEFINE Right ==
      \A e \in ledger' \ ledger :
         e.wallet \in Users /\ job[e.by].op \in {"withdraw", "transfer"} =>
            e.before = balance[e.wallet] /\ e.after = balance'[e.wallet]
<1>1. ASSUME IInv, Next PROVE Right
  <2>1. SUFFICES ASSUME NEW e \in ledger' \ ledger, e.wallet \in Users,
                        job[e.by].op \in {"withdraw", "transfer"}
                 PROVE  Exact(e)
    BY DEF Exact
  <2>2. PICK r \in Requests : Commit(r)
    BY <1>1, OnlyCommitsWrite
  <2>3. CASE CommitWithdrawal(r)
    BY <1>1, <2>1, <2>3, WithdrawalExact
  <2>4. CASE CommitTransfer(r)
    BY <1>1, <2>1, <2>4, TransferExact
  <2>5. ~(CommitDeposit(r) \/ CommitSettlement(r) \/ CommitReversal(r))
    BY <2>1, ConfirmationWrites DEF Confirming
  <2> QED  BY <2>2, <2>3, <2>4, <2>5 DEF Commit
<1>2. IInv /\ [Next]_vars => [Right]_vars
  BY <1>1
<1> QED  BY <1>2, Invariance, PTL DEF Spec, LockedAuditTrail

-----------------------------------------------------------------------------
(* The rows of transactions: who writes them, and what never changes *)

Inserted(r) == \E leg \in Legs : txns[<<r, leg>>] # None

\* A row that a request inserts is there when the request has committed.
Fresh == \A r \in Requests : Inserted(r) => pc[r] = "ok"

\* What a request has read of the row it confirms, the row still says.
JobTrue(r) ==
    LET j == job[r]
    IN  /\ pc[r] = "new" => j = None
        /\ j # None => (j.txn # None <=> j.op \in Confirming)
        /\ j # None /\ j.txn # None =>
             txns[j.txn] # None /\ j.user = txns[j.txn].user /\ j.amount = txns[j.txn].amount

\* The foreign key of a row's parent.
ParentKnown(t) == txns[t] # None /\ txns[t].parent # None => txns[txns[t].parent] # None

\* A failed withdrawal has been refunded to its owner.
Refund(s, t) ==
    txns[s] # None /\ txns[s].type = "REVERSAL" /\ txns[s].parent = t /\ txns[s].user = txns[t].user
Refunded(t) ==
    txns[t] # None /\ txns[t].type = "WITHDRAWAL" /\ txns[t].status = "FAILED" =>
        \E s \in TxnIds : Refund(s, t)

RInv ==
    /\ IInv
    /\ Fresh
    /\ \A r \in Requests : JobTrue(r)
    /\ \A t \in TxnIds : ParentKnown(t) /\ Refunded(t)
    /\ IsFiniteSet({t \in TxnIds : txns[t] # None})

\* No row is deleted, none changes its type, owner, amount or parent, and none
\* becomes pending again.
Lasts(t) ==
    txns[t] # None =>
        /\ txns'[t] # None
        /\ txns'[t].type = txns[t].type /\ txns'[t].user = txns[t].user
        /\ txns'[t].amount = txns[t].amount /\ txns'[t].parent = txns[t].parent
        /\ txns[t].status # "PENDING" => txns'[t].status # "PENDING"

\* A step of r inserts rows under its own name only.
OwnRows(r) == \A t \in TxnIds : txns[t] = None /\ txns'[t] # None => t \in {r} \X Legs

\* What a commit does to the row t.
CommitsRow(r, t) ==
    LET j == job[r]
        with(status) == [txns[t] EXCEPT !.status = status]
    IN  \/ /\ j.op = "withdraw"
           /\ txns'[t] = IF t = <<r, "WD">>
                         THEN NewTxn("WITHDRAWAL", "PENDING", j.user, j.amount, None) ELSE txns[t]
        \/ /\ j.op = "transfer" /\ j.peer \in Users
           /\ txns'[t] = IF t = <<r, "TRF-WD">>
                         THEN NewTxn("TRANSFER", "SUCCESSFUL", j.user, j.amount, None)
                         ELSE IF t = <<r, "TRF-FD">>
                         THEN NewTxn("FUNDING", "SUCCESSFUL", j.peer, j.amount, None) ELSE txns[t]
        \/ /\ j.op \in {"confirmDeposit", "settle"}
           /\ txns'[t] = IF t = j.txn THEN with("SUCCESSFUL") ELSE txns[t]
        \/ /\ j.op = "reverse"
           /\ txns'[t] = IF t = <<r, "REV">>
                         THEN NewTxn("REVERSAL", "SUCCESSFUL", j.user, j.amount, j.txn)
                         ELSE IF t = j.txn THEN with("FAILED") ELSE txns[t]

LEMMA RowFacts ==
    ASSUME NEW row \in Row
    PROVE  /\ row # None
           /\ row.type \in Types /\ row.status \in Statuses /\ row.user \in Users
           /\ row.amount \in Amounts /\ row.parent \in TxnIds \union {None}
           /\ \A s \in Statuses :
                LET new == [row EXCEPT !.status = s]
                IN  /\ new \in Row /\ new # None /\ new.status = s
                    /\ new.type = row.type /\ new.user = row.user
                    /\ new.amount = row.amount /\ new.parent = row.parent
<1>1. \A x \in Row : x # None
  BY NullAssumption
<1>2. \A s \in Statuses : [row EXCEPT !.status = s] \in Row
  BY DEF Row
<1> QED BY <1>1, <1>2 DEF Row

LEMMA NewTxnFacts ==
    ASSUME NEW type \in Types, NEW s \in Statuses, NEW u \in Users, NEW a \in Amounts,
           NEW p \in TxnIds \union {None}
    PROVE  LET row == NewTxn(type, s, u, a, p)
           IN  /\ row \in Row /\ row # None /\ row.type = type /\ row.status = s
               /\ row.user = u /\ row.amount = a /\ row.parent = p
<1>1. NewTxn(type, s, u, a, p) \in Row
  BY DEF NewTxn, Row
<1> QED BY <1>1, RowFacts DEF NewTxn

LEMMA CommitWritesRows ==
    ASSUME RInv, NEW r \in Requests, Commit(r)
    PROVE  /\ pc[r] = "commit" /\ job' = job /\ pc' = [pc EXCEPT ![r] = "ok"]
           /\ job[r] \in Job /\ job[r] # None
           /\ \A leg \in Legs : txns[<<r, leg>>] = None
           /\ \A t \in TxnIds : CommitsRow(r, t)
<1> DEFINE j == job[r]
<1>1. /\ pc[r] = "commit" /\ Finish(r, "ok") /\ OnPlan(r) /\ JobKnown(r) /\ StillAccepted(r)
      /\ TypeOK /\ Active(r)
  BY DEF Commit, CommitWithdrawal, CommitTransfer, CommitDeposit, CommitSettlement, CommitReversal,
     Commits, RInv, IInv, LockDiscipline, Active
<1>2. j \in Job /\ j # None
  BY <1>1, NullAssumption DEF JobKnown
<1>3. \A leg \in Legs : txns[<<r, leg>>] = None
  BY <1>1 DEF RInv, Fresh, Inserted
<1>4. job' = job /\ pc' = [pc EXCEPT ![r] = "ok"]
  BY <1>1 DEF Finish
<1>5. ASSUME NEW t \in TxnIds PROVE CommitsRow(r, t)
  <2>1. CASE CommitWithdrawal(r)
    <3>1. /\ j.op = "withdraw"
          /\ txns' = [txns EXCEPT ![<<r, "WD">>] =
                        NewTxn("WITHDRAWAL", "PENDING", j.user, j.amount, None)]
      BY <2>1 DEF CommitWithdrawal, Commits
    <3> QED BY <1>1, <3>1 DEF TypeOK, CommitsRow
  <2>2. CASE CommitTransfer(r)
    <3>1. /\ j.op = "transfer"
          /\ txns' = [txns EXCEPT
               ![<<r, "TRF-WD">>] = NewTxn("TRANSFER", "SUCCESSFUL", j.user, j.amount, None),
               ![<<r, "TRF-FD">>] = NewTxn("FUNDING", "SUCCESSFUL", j.peer, j.amount, None)]
      BY <2>2 DEF CommitTransfer, Commits
    <3>2. j.peer \in Users
      BY <1>1, <3>1 DEF StillAccepted, Accepted, Locking
    <3>3. <<r, "TRF-WD">> # <<r, "TRF-FD">>
      OBVIOUS
    <3> QED BY <1>1, <3>1, <3>2, <3>3 DEF TypeOK, CommitsRow
  <2>3. CASE CommitDeposit(r) \/ CommitSettlement(r)
    <3>1. /\ j.op \in {"confirmDeposit", "settle"}
          /\ txns' = [txns EXCEPT ![j.txn] = [txns[j.txn] EXCEPT !.status = "SUCCESSFUL"]]
      BY <2>3 DEF CommitDeposit, CommitSettlement, Commits
    <3> QED BY <1>1, <3>1 DEF TypeOK, CommitsRow
  <2>4. CASE CommitReversal(r)
    <3> DEFINE failed == [txns[j.txn] EXCEPT !.status = "FAILED"]
    <3>1. /\ j.op = "reverse"
          /\ txns' = [[txns EXCEPT ![j.txn] = failed] EXCEPT
               ![<<r, "REV">>] = NewTxn("REVERSAL", "SUCCESSFUL", j.user, j.amount, j.txn)]
      BY <2>4 DEF CommitReversal, Commits
    <3>2. txns'[t] = IF t = <<r, "REV">>
                     THEN NewTxn("REVERSAL", "SUCCESSFUL", j.user, j.amount, j.txn)
                     ELSE IF t = j.txn THEN failed ELSE txns[t]
      <4> HIDE DEF failed, j
      <4> QED BY <1>1, <3>1 DEF TypeOK
    <3> QED BY <3>1, <3>2 DEF CommitsRow
  <2> QED BY <2>1, <2>2, <2>3, <2>4 DEF Commit
<1> QED BY <1>1, <1>2, <1>3, <1>4, <1>5

LEMMA CommitLasts ==
    ASSUME RInv, NEW r \in Requests, Commit(r)
    PROVE  (\A t \in TxnIds : Lasts(t)) /\ OwnRows(r)
<1> DEFINE j == job[r]
<1>1. /\ j \in Job /\ j # None /\ JobTrue(r) /\ \A t \in TxnIds : CommitsRow(r, t)
      /\ \A leg \in Legs : txns[<<r, leg>>] = None
  BY CommitWritesRows DEF RInv
<1>2. \A t \in TxnIds : txns[t] # None => txns[t] \in Row
  BY DEF RInv, IInv, TypeOK
<1>3. ASSUME NEW t \in TxnIds, txns[t] # None PROVE Lasts(t)
  <2>1. txns[t] \in Row /\ t # <<r, "WD">> /\ t # <<r, "TRF-WD">> /\ t # <<r, "TRF-FD">>
        /\ t # <<r, "REV">>
    BY <1>1, <1>2, <1>3 DEF Legs
  <2>2. \/ txns'[t] = txns[t]
        \/ \E s \in Statuses \ {"PENDING"} : txns'[t] = [txns[t] EXCEPT !.status = s]
    BY <1>1, <2>1 DEF CommitsRow, Statuses
  <2>3. CASE txns'[t] = txns[t]
    BY <2>3 DEF Lasts
  <2>4. ASSUME NEW s \in Statuses \ {"PENDING"}, txns'[t] = [txns[t] EXCEPT !.status = s]
        PROVE  Lasts(t)
    <3> DEFINE row == txns[t]
               new == [row EXCEPT !.status = s]
    <3>1. /\ new # None /\ new.status = s /\ s # "PENDING"
          /\ new.type = row.type /\ new.user = row.user
          /\ new.amount = row.amount /\ new.parent = row.parent
      BY <2>1, RowFacts
    <3> HIDE DEF new
    <3>2. txns'[t] = new
      BY <2>4 DEF new
    <3> QED BY <3>1, <3>2 DEF Lasts
  <2> QED BY <2>2, <2>3, <2>4
<1>4. OwnRows(r)
  <2> SUFFICES ASSUME NEW t \in TxnIds, txns[t] = None, txns'[t] # None PROVE t \in {r} \X Legs
    BY DEF OwnRows
  <2>1. j.op \in Confirming => t # j.txn
    BY <1>1 DEF JobTrue
  <2>2. t \in {<<r, "WD">>, <<r, "TRF-WD">>, <<r, "TRF-FD">>, <<r, "REV">>}
    <3> HIDE DEF j
    <3>1. CommitsRow(r, t)
      BY <1>1
    <3> QED BY <2>1, <3>1 DEF CommitsRow, Confirming, j
  <2> QED BY <2>2 DEF Legs
<1> QED BY <1>3, <1>4 DEF Lasts

-----------------------------------------------------------------------------
(* What a step of one request may change *)

\* Withdrawals and transfers name no row; a confirmation names a pending one.
ArrivesWith(j) ==
    \/ j.op \in Locking /\ j.txn = None
    \/ /\ j.op \in Confirming /\ j.txn \in TxnIds /\ Confirmable(j.txn)
       /\ j.user = txns[j.txn].user /\ j.amount = txns[j.txn].amount

LEMMA StepOfOne ==
    ASSUME IInv, NEW r \in Requests, Arrive(r) \/ Proceed(r) \/ Victim(r) \/ Abort(r)
    PROVE  /\ pc[r] \notin Answers
           /\ \E s : s # "new" /\ pc' = [pc EXCEPT ![r] = s]
           /\ \/ job' = job
              \/ /\ pc[r] = "new" /\ pc'[r] \in Waiting
                 /\ \E j \in Job : job' = [job EXCEPT ![r] = j] /\ ArrivesWith(j)
                 /\ UNCHANGED db
<1> USE DEF Answers
<1>1. CASE Arrive(r)
  <2>1. CASE \E u \in Users, a \in Amounts : InitiateDeposit(r, u, a)
    BY <2>1 DEF InitiateDeposit, local
  <2>2. ASSUME NEW j \in Job, BeginLocking(r, j), j.op \in Locking, j.txn = None
        PROVE  /\ pc[r] = "new" /\ pc' = [pc EXCEPT ![r] = "lock"] /\ pc'[r] \in Waiting
               /\ job' = [job EXCEPT ![r] = j] /\ ArrivesWith(j) /\ UNCHANGED db
    BY <2>2 DEF BeginLocking, ArrivesWith, IInv, TypeOK, Waiting
  <2>3. ASSUME NEW u \in Users, NEW a \in Amounts, InitiateWithdrawal(r, u, a)
        PROVE  \E j \in Job : BeginLocking(r, j) /\ j.op \in Locking /\ j.txn = None
    <3> DEFINE j == NewJob("withdraw", u, Stranger, a, None)
    <3>1. j \in Job /\ j.op \in Locking /\ j.txn = None
      BY DEF NewJob, Job, Ops, Locking
    <3> QED BY <2>3, <3>1 DEF InitiateWithdrawal
  <2>4. ASSUME NEW u \in Users, NEW a \in Amounts, NEW p \in Users \union {Stranger},
               InitiateTransfer(r, u, p, a)
        PROVE  \E j \in Job : BeginLocking(r, j) /\ j.op \in Locking /\ j.txn = None
    <3> DEFINE j == NewJob("transfer", u, p, a, None)
    <3>1. j \in Job /\ j.op \in Locking /\ j.txn = None
      BY DEF NewJob, Job, Ops, Locking
    <3> QED BY <2>4, <3>1 DEF InitiateTransfer
  <2>5. ASSUME NEW t \in TxnIds, NEW op \in Confirming, NEW next \in {"updateTxn", "shareTxn"},
               BeginConfirming(r, op, t, next)
        PROVE  /\ pc[r] = "new" /\ pc' = [pc EXCEPT ![r] = next] /\ pc'[r] \in Waiting
               /\ UNCHANGED db
               /\ \E j \in Job : job' = [job EXCEPT ![r] = j] /\ ArrivesWith(j)
    <3> DEFINE j == NewJob(op, txns[t].user, Stranger, txns[t].amount, t)
    <3>1. /\ pc[r] = "new" /\ Confirmable(t) /\ pc' = [pc EXCEPT ![r] = next] /\ UNCHANGED db
          /\ job' = [job EXCEPT ![r] = j]
      BY <2>5 DEF BeginConfirming
    <3>2. txns[t] \in Row
      BY <3>1 DEF IInv, TypeOK, Confirmable
    <3>3. j \in Job /\ ArrivesWith(j)
      BY <3>1, <3>2 DEF NewJob, Job, Row, Ops, Confirming, ArrivesWith
    <3>4. pc'[r] \in Waiting
      BY <3>1 DEF IInv, TypeOK, Waiting
    <3> QED BY <3>1, <3>3, <3>4
  <2>6. CASE RefuseSelfTransfer(r) \/ \E t \in TxnIds : RefuseConfirmation(r, t)
    BY <2>6 DEF RefuseSelfTransfer, RefuseConfirmation, Rollback, Finish
  <2>7. CASE \E t \in TxnIds : ConfirmDeposit(r, t) \/ Settle(r, t) \/ Reverse(r, t)
    BY <2>5, <2>7 DEF ConfirmDeposit, Settle, Reverse, Confirming
  <2>8. CASE \/ \E u \in Users, a \in Amounts : InitiateWithdrawal(r, u, a)
             \/ \E u \in Users, a \in Amounts, p \in Users \union {Stranger} :
                  InitiateTransfer(r, u, p, a)
    <3>1. PICK j \in Job : BeginLocking(r, j) /\ j.op \in Locking /\ j.txn = None
      BY <2>3, <2>4, <2>8
    <3> QED BY <2>2, <3>1
  <2> QED BY <1>1, <2>1, <2>6, <2>7, <2>8 DEF Arrive, Open
<1>2. CASE Statement(r)
  BY <1>2 DEF Statement, LockWallet, ReadHolding, Refuse, ShareTxn, UpdateTxn, UpdateWallet,
     Rollback, Finish
<1>3. CASE Commit(r)
  BY <1>3 DEF Commit, CommitWithdrawal, CommitTransfer, CommitDeposit, CommitSettlement,
     CommitReversal, Commits, Finish
<1>4. CASE Victim(r)
  <2>1. Blockers(r) # {}
    BY <1>4 DEF Victim, Circle, Stuck
  <2>2. pc[r] \in {"lock", "updateWallet", "shareTxn", "updateTxn"}
    BY <2>1 DEF Blockers
  <2> QED BY <1>4, <2>2 DEF Victim, Rollback, Finish
<1>5. CASE Abort(r)
  BY <1>5 DEF Abort, Active, Waiting, Rollback, Finish
<1> QED BY <1>1, <1>2, <1>3, <1>4, <1>5 DEF Proceed

\* The statements between the first and the commit, and rollbacks.
LEMMA ServiceRuns ==
    ASSUME IInv, NEW r \in Requests, Statement(r) \/ Victim(r) \/ Abort(r)
    PROVE  /\ Active(r) /\ UNCHANGED <<db, job>>
           /\ \E s : s \notin {"new", "ok"} /\ pc' = [pc EXCEPT ![r] = s]
<1>1. CASE Statement(r)
  BY <1>1 DEF Statement, LockWallet, ReadHolding, Refuse, ShareTxn, UpdateTxn, UpdateWallet,
     Rollback, Finish, Active, Waiting
<1>2. CASE Victim(r)
  <2>1. Blockers(r) # {}
    BY <1>2 DEF Victim, Circle, Stuck
  <2>2. pc[r] \in {"lock", "updateWallet", "shareTxn", "updateTxn"}
    BY <2>1 DEF Blockers
  <2> QED BY <1>2, <2>2 DEF Victim, Rollback, Finish, Active, Waiting
<1>3. CASE Abort(r)
  BY <1>3 DEF Abort, Rollback, Finish
<1> QED BY <1>1, <1>2, <1>3

LEMMA Arriving == ASSUME NEW r \in Requests, Arrive(r) PROVE pc[r] = "new"
BY DEF Arrive, Open, InitiateDeposit, InitiateWithdrawal, InitiateTransfer, BeginLocking,
   RefuseSelfTransfer, ConfirmDeposit, Settle, Reverse, BeginConfirming, RefuseConfirmation

\* All but commits leave balances, entries and details alone, and of the rows
\* insert at most a pending deposit.
LEMMA QuietSteps ==
    ASSUME NEW r \in Requests, Arrive(r) \/ Statement(r) \/ Victim(r) \/ Abort(r)
    PROVE  /\ UNCHANGED <<balance, ledger, details>>
           /\ txns' = txns \/ \E u \in Users, a \in Amounts : InitiateDeposit(r, u, a)
<1>1. CASE Arrive(r)
  BY <1>1 DEF Arrive, Open, InitiateDeposit, InitiateWithdrawal, InitiateTransfer, BeginLocking,
     RefuseSelfTransfer, ConfirmDeposit, Settle, Reverse, BeginConfirming, RefuseConfirmation,
     Rollback, db
<1>2. CASE Statement(r)
  BY <1>2 DEF Statement, LockWallet, ReadHolding, Refuse, ShareTxn, UpdateTxn, UpdateWallet,
     Rollback, db
<1>3. CASE Victim(r) \/ Abort(r)
  BY <1>3 DEF Victim, Abort, Rollback, db
<1> QED BY <1>1, <1>2, <1>3

LEMMA DepositRow ==
    ASSUME RInv, NEW r \in Requests, NEW u \in Users, NEW a \in Amounts, InitiateDeposit(r, u, a)
    PROVE  /\ <<r, "DEP">> \in TxnIds /\ txns[<<r, "DEP">>] = None /\ pc[r] = "new" /\ job' = job
           /\ pc' = [pc EXCEPT ![r] = "ok"]
           /\ \A t \in TxnIds :
                txns'[t] = IF t = <<r, "DEP">> THEN NewTxn("FUNDING", "PENDING", u, a, None)
                           ELSE txns[t]
<1>1. /\ pc[r] = "new" /\ pc' = [pc EXCEPT ![r] = "ok"] /\ job' = job
      /\ txns' = [txns EXCEPT ![<<r, "DEP">>] = NewTxn("FUNDING", "PENDING", u, a, None)]
  BY DEF InitiateDeposit, local
<1>2. <<r, "DEP">> \in TxnIds
  BY NewIds DEF Legs
<1>3. txns[<<r, "DEP">>] = None
  BY <1>1 DEF RInv, Fresh, Inserted, Legs
<1> QED BY <1>1, <1>2, <1>3 DEF RInv, IInv, TypeOK

\* Every step of one request keeps the rows and inserts its own.
LEMMA RowsLast ==
    ASSUME RInv, NEW r \in Requests, Arrive(r) \/ Proceed(r) \/ Victim(r) \/ Abort(r)
    PROVE  (\A t \in TxnIds : Lasts(t)) /\ OwnRows(r) /\ (txns' # txns => pc'[r] = "ok")
<1>1. CASE Commit(r)
  BY <1>1, CommitLasts, CommitWritesRows DEF RInv, IInv, TypeOK
<1>2. CASE txns' = txns
  BY <1>2 DEF Lasts, OwnRows
<1>3. ASSUME NEW u \in Users, NEW a \in Amounts, InitiateDeposit(r, u, a)
      PROVE  (\A t \in TxnIds : Lasts(t)) /\ OwnRows(r) /\ pc'[r] = "ok"
  <2>1. \A t \in TxnIds : txns[t] # None => txns'[t] = txns[t]
    BY <1>3, DepositRow
  <2>2. pc'[r] = "ok"
    BY <1>3, DepositRow DEF RInv, IInv, TypeOK
  <2>3. \A t \in TxnIds : t # <<r, "DEP">> => txns'[t] = txns[t]
    BY <1>3, DepositRow
  <2>4. \A t \in TxnIds : txns'[t] # txns[t] => t \in {r} \X Legs
    BY <2>3 DEF Legs
  <2>5. \A t \in TxnIds : Lasts(t)
    BY <2>1 DEF Lasts
  <2> QED BY <2>2, <2>4, <2>5 DEF OwnRows
<1> QED BY <1>1, <1>2, <1>3, QuietSteps DEF Proceed

\* What happened to the row t: nothing, a confirmation, or its insert.
LEMMA RowChange ==
    ASSUME RInv, NEW r \in Requests, Arrive(r) \/ Proceed(r) \/ Victim(r) \/ Abort(r),
           NEW t \in TxnIds, txns'[t] # txns[t]
    PROVE  \/ /\ txns[t] # None /\ t = job[r].txn /\ job[r].op \in Confirming /\ pc[r] = "commit"
              /\ txns'[t].status = IF job[r].op = "reverse" THEN "FAILED" ELSE "SUCCESSFUL"
              /\ job[r].op = "reverse" =>
                   /\ <<r, "REV">> \in TxnIds
                   /\ txns'[<<r, "REV">>] =
                        NewTxn("REVERSAL", "SUCCESSFUL", job[r].user, job[r].amount, t)
                   /\ txns'[<<r, "REV">>] # None /\ txns'[<<r, "REV">>].type = "REVERSAL"
                   /\ txns'[<<r, "REV">>].parent = t /\ txns'[<<r, "REV">>].user = job[r].user
           \/ /\ txns[t] = None /\ txns'[t] # None /\ txns'[t].status # "FAILED"
              /\ \/ txns'[t].parent = None /\ txns'[t].type # "REVERSAL"
                 \/ /\ txns'[t].type = "REVERSAL" /\ job[r].op = "reverse" /\ Commit(r)
                    /\ txns'[t].parent = job[r].txn
<1> DEFINE j == job[r]
<1>1. CASE Commit(r)
  <2>1. /\ j \in Job /\ j # None /\ JobTrue(r) /\ CommitsRow(r, t) /\ pc[r] = "commit"
        /\ \A leg \in Legs : txns[<<r, leg>>] = None /\ <<r, leg>> \in TxnIds
    BY <1>1, CommitWritesRows, NewIds DEF RInv
  <2>2. j.user \in Users /\ j.peer \in Users \union {Stranger} /\ j.amount \in Amounts
        /\ j.txn \in TxnIds \union {None}
    BY <2>1 DEF Job
  <2>3. \A x \in TxnIds : txns[x] # None => txns[x] \in Row
    BY DEF RInv, IInv, TypeOK
  <2>4. \A leg \in Legs : j.txn # <<r, leg>> \/ j.op \notin Confirming
    BY <2>1 DEF JobTrue
  <2>5. CASE j.op = "withdraw"
    <3>1. txns[t] = None /\ txns'[t] = NewTxn("WITHDRAWAL", "PENDING", j.user, j.amount, None)
      <4> HIDE DEF j
      <4> QED BY <2>1, <2>5 DEF CommitsRow, Legs, j
    <3> QED BY <2>2, <3>1, NewTxnFacts DEF Types, Statuses
  <2>6. CASE j.op = "transfer"
    <3>1. /\ txns[t] = None /\ j.peer \in Users
          /\ \/ txns'[t] = NewTxn("TRANSFER", "SUCCESSFUL", j.user, j.amount, None)
             \/ txns'[t] = NewTxn("FUNDING", "SUCCESSFUL", j.peer, j.amount, None)
      BY <2>1, <2>6 DEF CommitsRow, Legs
    <3>2. CASE txns'[t] = NewTxn("TRANSFER", "SUCCESSFUL", j.user, j.amount, None)
      BY <2>2, <3>1, <3>2, NewTxnFacts DEF Types, Statuses
    <3>3. CASE txns'[t] = NewTxn("FUNDING", "SUCCESSFUL", j.peer, j.amount, None)
      BY <2>2, <3>1, <3>3, NewTxnFacts DEF Types, Statuses
    <3> QED BY <3>1, <3>2, <3>3
  <2>7. CASE j.op \in {"confirmDeposit", "settle"}
    <3>1. t = j.txn /\ txns[t] # None /\ txns'[t] = [txns[t] EXCEPT !.status = "SUCCESSFUL"]
      BY <2>1, <2>7 DEF CommitsRow, JobTrue, Confirming
    <3>2. txns'[t].status = "SUCCESSFUL"
      BY <2>3, <3>1, RowFacts DEF Statuses
    <3> QED BY <2>1, <2>7, <3>1, <3>2 DEF Confirming
  <2>8. CASE j.op = "reverse"
    <3> DEFINE rev == <<r, "REV">>
               new == NewTxn("REVERSAL", "SUCCESSFUL", j.user, j.amount, j.txn)
    <3>1. /\ rev \in TxnIds /\ txns[rev] = None /\ j.txn # None /\ j.txn # rev
          /\ txns[j.txn] # None
      BY <2>1, <2>4, <2>8 DEF JobTrue, Confirming, Legs
    <3>2. /\ new # None /\ new.type = "REVERSAL" /\ new.status = "SUCCESSFUL"
          /\ new.parent = j.txn /\ new.user = j.user
      BY <2>2, NewTxnFacts DEF Types, Statuses
    <3>3. txns'[rev] = new
      BY <1>1, <2>8, <3>1, CommitWritesRows DEF CommitsRow
    <3>4. CASE t = rev
      BY <1>1, <2>8, <3>1, <3>2, <3>3, <3>4
    <3>5. CASE t # rev
      <4>1. t = j.txn /\ txns'[t] = [txns[t] EXCEPT !.status = "FAILED"]
        BY <2>1, <2>8, <3>5 DEF CommitsRow
      <4>2. txns'[t].status = "FAILED"
        BY <2>3, <3>1, <4>1, RowFacts DEF Statuses
      <4> HIDE DEF new
      <4> QED BY <2>1, <2>8, <3>1, <3>2, <3>3, <4>1, <4>2 DEF Confirming, new
    <3> QED BY <3>4, <3>5
  <2> QED BY <2>2, <2>5, <2>6, <2>7, <2>8, <2>1 DEF Job, Ops
<1>2. ASSUME NEW u \in Users, NEW a \in Amounts, InitiateDeposit(r, u, a)
      PROVE  /\ txns[t] = None /\ txns'[t] # None /\ txns'[t].status # "FAILED"
             /\ txns'[t].parent = None /\ txns'[t].type # "REVERSAL"
  <2>1. txns[t] = None /\ txns'[t] = NewTxn("FUNDING", "PENDING", u, a, None)
    BY <1>2, DepositRow
  <2> QED BY <2>1, NewTxnFacts DEF Types, Statuses
<1> QED BY <1>1, <1>2, QuietSteps DEF Proceed

LEMMA ReferencesKept ==
    ASSUME RInv, NEW r \in Requests, Arrive(r) \/ Proceed(r) \/ Victim(r) \/ Abort(r),
           NEW t \in TxnIds
    PROVE  ParentKnown(t)' /\ Refunded(t)'
<1>1. \A x \in TxnIds : Lasts(x)
  BY RowsLast
<1>2. \A x \in TxnIds : txns[x] # None => txns[x] \in Row /\ txns[x].parent \in TxnIds \union {None}
  BY RowFacts DEF RInv, IInv, TypeOK
<1>3. ASSUME NEW x \in TxnIds, txns[x] # None PROVE txns'[x] # None
  BY <1>1, <1>3 DEF Lasts
<1>4. ParentKnown(t)'
  <2>1. CASE txns'[t] = txns[t] \/ txns[t] # None
    <3>1. txns'[t] # None /\ txns'[t].parent # None =>
             txns'[t].parent = txns[t].parent /\ txns[txns[t].parent] # None
             /\ txns[t].parent \in TxnIds
      BY <1>1, <1>2, <2>1 DEF Lasts, RInv, ParentKnown
    <3> QED BY <1>3, <3>1 DEF ParentKnown
  <2>2. CASE txns'[t] # txns[t] /\ txns[t] = None
    <3>1. \/ txns'[t].parent = None
          \/ Commit(r) /\ job[r].op = "reverse" /\ txns'[t].parent = job[r].txn
      BY <2>2, RowChange
    <3>2. ASSUME Commit(r), job[r].op = "reverse", txns'[t].parent = job[r].txn
          PROVE  txns'[job[r].txn] # None
      <4>1. job[r] \in Job /\ job[r] # None /\ JobTrue(r)
        BY <3>2, CommitWritesRows DEF RInv
      <4>2. job[r].txn \in TxnIds /\ txns[job[r].txn] # None
        BY <3>2, <4>1 DEF JobTrue, Confirming, Job
      <4> QED BY <1>3, <4>2
    <3> QED BY <3>1, <3>2 DEF ParentKnown
  <2> QED BY <2>1, <2>2
<1>5. Refunded(t)'
  <2> SUFFICES ASSUME txns'[t] # None, txns'[t].type = "WITHDRAWAL", txns'[t].status = "FAILED"
               PROVE  \E s \in TxnIds : Refund(s, t)'
    BY DEF Refunded
  <2>1. CASE txns'[t] = txns[t]
    <3>1. PICK s \in TxnIds : Refund(s, t)
      BY <2>1 DEF RInv, Refunded
    <3>2. Lasts(s)
      BY <1>1
    <3> QED BY <2>1, <3>1, <3>2 DEF Refund, Lasts
  <2>2. CASE txns'[t] # txns[t]
    <3>1. /\ txns[t] # None /\ t = job[r].txn /\ job[r].op = "reverse" /\ <<r, "REV">> \in TxnIds
          /\ txns'[<<r, "REV">>] # None /\ txns'[<<r, "REV">>].type = "REVERSAL"
          /\ txns'[<<r, "REV">>].parent = t /\ txns'[<<r, "REV">>].user = job[r].user
          /\ pc[r] = "commit"
      BY <2>2, RowChange
    <3>2. txns'[t].user = txns[t].user
      BY <1>1, <3>1 DEF Lasts
    <3>3. job[r].user = txns[t].user
      <4>1. JobTrue(r) /\ t # None /\ job[r] # None
        BY <3>1, NullAssumption DEF RInv, IInv, LockDiscipline, JobKnown, Active
      <4> QED BY <3>1, <4>1 DEF JobTrue
    <3> QED BY <3>1, <3>2, <3>3 DEF Refund
  <2> QED BY <2>1, <2>2
<1> QED BY <1>4, <1>5

LEMMA RInvStep ==
    ASSUME RInv, NEW r \in Requests, Arrive(r) \/ Proceed(r) \/ Victim(r) \/ Abort(r), IInv'
    PROVE  RInv'
<1>1. /\ \A t \in TxnIds : Lasts(t)
      /\ OwnRows(r)
      /\ txns' # txns => pc'[r] = "ok"
  BY RowsLast
<1>2. PICK s : s # "new" /\ pc' = [pc EXCEPT ![r] = s]
  BY StepOfOne DEF RInv
<1>3. pc \in [Requests -> Waiting \union Answers \union {"new", "check", "commit"}]
      /\ job \in [Requests -> Job \union {None}] /\ pc[r] # "ok"
  BY StepOfOne DEF RInv, IInv, TypeOK, Answers
<1>4. Fresh'
  <2> SUFFICES ASSUME NEW q \in Requests, Inserted(q)' PROVE pc'[q] = "ok"
    BY DEF Fresh
  <2>1. CASE q = r
    <3>1. ~Inserted(r)
      BY <1>3 DEF RInv, Fresh
    <3>2. txns' # txns
      BY <2>1, <3>1 DEF Inserted
    <3> QED BY <1>1, <2>1, <3>2
  <2>2. CASE q # r
    <3>1. Inserted(q)
      BY <1>1, <2>2, NewIds DEF Inserted, OwnRows
    <3> QED BY <1>2, <1>3, <2>2, <3>1 DEF RInv, Fresh
  <2> QED BY <2>1, <2>2
<1>5. ASSUME NEW q \in Requests PROVE JobTrue(q)'
  <2>1. pc'[q] = "new" => pc[q] = "new" /\ q # r
    BY <1>2, <1>3
  <2>2. ASSUME job'[q] = job[q] PROVE JobTrue(q)'
    <3>1. JobTrue(q) /\ job[q] \in Job \union {None}
      BY <1>3 DEF RInv
    <3>2. job[q] # None /\ job[q].txn # None => job[q].txn \in TxnIds
      BY <3>1 DEF Job
    <3>3. job[q] # None /\ job[q].txn # None => Lasts(job[q].txn)
      BY <1>1, <3>2
    <3> QED BY <2>1, <2>2, <3>1, <3>3 DEF JobTrue, Lasts
  <2>3. ASSUME NEW j \in Job, q = r, job' = [job EXCEPT ![r] = j], ArrivesWith(j), txns' = txns
        PROVE  JobTrue(q)'
    <3>1. job'[q] = j /\ pc'[q] # "new"
      BY <1>2, <1>3, <2>3
    <3>2. j.op \in Locking => j.op \notin Confirming
      BY DEF Locking, Confirming
    <3>3. j.txn \in TxnIds => j.txn # None
      BY NullAssumption
    <3> QED BY <2>3, <3>1, <3>2, <3>3 DEF JobTrue, ArrivesWith, Confirmable
  <2>4. \/ job' = job
        \/ \E j \in Job : job' = [job EXCEPT ![r] = j] /\ ArrivesWith(j) /\ txns' = txns
    BY StepOfOne DEF RInv, db
  <2>5. CASE q = r
    BY <2>2, <2>3, <2>4, <2>5
  <2>6. CASE q # r
    BY <1>3, <2>2, <2>4, <2>6
  <2> QED BY <2>5, <2>6
<1>6. IsFiniteSet({t \in TxnIds : txns[t] # None})'
  <2> DEFINE Old == {t \in TxnIds : txns[t] # None}
             New == {t \in TxnIds : txns'[t] # None}
             Own == {r} \X Legs
  <2>1. IsFiniteSet(Old)
    BY DEF RInv
  <2>2. IsFiniteSet(Own)
    <3>1. IsFiniteSet(Legs)
      <4>1. \A leg : IsFiniteSet({leg})
        BY FS_Singleton
      <4>2. IsFiniteSet({"DEP"} \union {"WD"}) /\ IsFiniteSet({"TRF-WD"} \union {"TRF-FD"})
        BY <4>1, FS_Union
      <4>3. IsFiniteSet(({"TRF-WD"} \union {"TRF-FD"}) \union {"REV"})
        BY <4>1, <4>2, FS_Union
      <4>4. IsFiniteSet(({"DEP"} \union {"WD"})
                         \union (({"TRF-WD"} \union {"TRF-FD"}) \union {"REV"}))
        BY <4>2, <4>3, FS_Union
      <4>5. Legs = ({"DEP"} \union {"WD"}) \union (({"TRF-WD"} \union {"TRF-FD"}) \union {"REV"})
        BY DEF Legs
      <4> QED BY <4>4, <4>5
    <3>2. IsFiniteSet({r})
      BY FS_Singleton
    <3> QED BY <3>1, <3>2, FS_Product
  <2>3. New \subseteq Old \union Own
    BY <1>1 DEF OwnRows
  <2> HIDE DEF Old, Own, New
  <2>4. IsFiniteSet(Old \union Own)
    BY <2>1, <2>2, FS_Union
  <2>5. IsFiniteSet(New)
    BY <2>3, <2>4, FS_Subset
  <2> QED BY <2>5 DEF New
<1>7. \A t \in TxnIds : (ParentKnown(t) /\ Refunded(t))'
  BY ReferencesKept
<1> QED BY <1>4, <1>5, <1>6, <1>7 DEF RInv

LEMMA RInvInit == Init => RInv
<1> SUFFICES ASSUME Init PROVE RInv
  OBVIOUS
<1>1. IInv
  BY InitKeeps
<1>2. ASSUME NEW r \in Requests PROVE ~Inserted(r)
  <2> SUFFICES ASSUME NEW leg \in Legs PROVE txns[<<r, leg>>] = None
    BY DEF Inserted
  <2>1. <<r, leg>> \in Requests \X Legs
    OBVIOUS
  <2>2. <<r, leg>> \in TxnIds /\ <<r, leg>> \notin DOMAIN OpeningTxns
    BY <2>1, OpeningAssumption, NewIds
  <2> QED BY <2>2 DEF Init
<1>3. \A r \in Requests : JobTrue(r)
  BY DEF Init, JobTrue
<1>4. IsFiniteSet({t \in TxnIds : txns[t] # None})
  <2>1. {t \in TxnIds : txns[t] # None} \subseteq DOMAIN OpeningTxns
    BY DEF Init
  <2> QED BY <2>1, OpeningAssumption, FS_Subset
<1>5. \A t \in TxnIds : txns[t] # None => t \in DOMAIN OpeningTxns /\ txns[t] = OpeningTxns[t]
  BY DEF Init
<1>6. \A t \in DOMAIN OpeningTxns :
        t \in TxnIds /\ OpeningTxns[t] # None /\ txns[t] = OpeningTxns[t]
  BY OpeningAssumption, NullAssumption DEF Init, TxnIds
<1>7. ASSUME NEW t \in TxnIds PROVE ParentKnown(t)
  BY <1>5, <1>6, OpeningAssumption DEF ParentKnown
<1>8. ASSUME NEW t \in TxnIds PROVE Refunded(t)
  BY <1>5, <1>6, RefundsAssumption DEF Refunded, Refund
<1> QED BY <1>1, <1>2, <1>3, <1>4, <1>7, <1>8 DEF RInv, Fresh

LEMMA RInvStutter == ASSUME RInv, UNCHANGED vars PROVE RInv'
<1>1. IInv'
  BY StutterKeeps DEF RInv
<1>2. UNCHANGED <<txns, pc, job>>
  BY DEF vars, db, local
<1> QED BY <1>1, <1>2 DEF RInv, Fresh, Inserted, JobTrue, ParentKnown, Refunded, Refund

LEMMA RInvNext == RInv /\ [Next]_vars => RInv'
<1> SUFFICES ASSUME RInv, [Next]_vars PROVE RInv'
  OBVIOUS
<1>1. CASE UNCHANGED vars
  BY <1>1, RInvStutter
<1>2. ASSUME NEW r \in Requests, Arrive(r) \/ Proceed(r) \/ Victim(r) \/ Abort(r)
      PROVE  RInv'
  <2>1. Next
    BY <1>2 DEF Next
  <2>2. IInv'
    BY <2>1, NextKeeps DEF RInv
  <2> QED BY <1>2, <2>2, RInvStep
<1> QED BY <1>1, <1>2 DEF Next

=============================================================================
