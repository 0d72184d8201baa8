------------------------- MODULE ConcurrencyProofs --------------------------
(***************************************************************************)
(* Requests beside each other.  First, who waits for whom: only failed     *)
(* withdrawals deadlock, and the pool is never taken up by requests that   *)
(* all wait unseen.  Then, who reads while others write: what the history  *)
(* and the view of one transaction show is true although they are read in  *)
(* several statements.                                                     *)
(***************************************************************************)
EXTENDS PaymentsProofs, History, Pool, WellFoundedInduction

-----------------------------------------------------------------------------
(* Deadlocks: in a circle without a reversal every request has locked lower *)
(* wallets than the one it waits for, counting HOLDING and SYSTEM after the *)
(* users; so whoever holds the highest wallet that is waited for would wait *)
(* for a higher one.                                                        *)

AwaitsWallet(r) == pc[r] \in {"lock", "updateWallet"}

\* Wallets are numbered from 1 to SYSTEM, so that some of them have a highest.
LEMMA HighestWallet ==
    ASSUME NEW W, W \subseteq Wallets, W # {}
    PROVE  \E h \in W : \A w \in W : ~(h < w)
<1> DEFINE R == OpToRel(<, Nat)
           T == {SYSTEM - w : w \in W}
<1>1. \A w \in W : w \in Int /\ SYSTEM - w \in Nat
  BY UsersAssumption DEF Wallets, SYSTEM
<1>2. T \subseteq Nat /\ T # {}
  BY <1>1
<1>3. IsWellFoundedOn(R, Nat)
  BY NatLessThanWellFounded
<1> HIDE DEF R
<1>4. PICK x \in T : \A y \in T : ~(<<y, x>> \in R)
  BY <1>2, <1>3, WFMin
<1>5. PICK h \in W : x = SYSTEM - h
  BY <1>4
<1>6. ASSUME NEW w \in W PROVE ~(h < w)
  <2>1. <<SYSTEM - w, SYSTEM - h>> \notin R
    BY <1>4, <1>5
  <2>2. ~(SYSTEM - w < SYSTEM - h)
    BY <1>1, <2>1 DEF R, OpToRel
  <2>3. SYSTEM \in Int /\ h \in Int /\ w \in Int
    BY <1>1, UsersAssumption DEF SYSTEM
  <2> QED BY <2>2, <2>3
<1> QED BY <1>6

\* The sorted locks of transfer.service.ts:34, and the order of the updates.
LEMMA LocksAscend ==
    ASSUME IInv, NEW r \in Requests, AwaitsWallet(r), job[r].op # "reverse"
    PROVE  /\ Head(todo[r]) \in Wallets
           /\ \A w \in held[r] : w < Head(todo[r])
<1> USE WalletFacts
<1> DEFINE j == job[r]
<1>1. /\ j \in Job /\ OnPlan(r)
      /\ j.op = "transfer" => j.user # j.peer
      /\ j.op = "withdraw" => j.peer = Stranger
  BY DEF IInv, LockDiscipline, JobKnown, AwaitsWallet, Active, Waiting
<1>2. j.op \in Ops /\ j.user \in Users /\ j.peer \in Users \union {Stranger}
  BY <1>1 DEF Job
<1>3. \A u \in Users : u \in Nat /\ u < HOLDING /\ u < SYSTEM
  BY UsersAssumption DEF Users, HOLDING, SYSTEM
<1>4. HOLDING < SYSTEM /\ Users \subseteq Wallets
  BY UsersAssumption DEF HOLDING, SYSTEM
<1>5. CASE pc[r] = "lock"
  <2>1. j.op \in Locking /\ Partway(r, ForUpdate(j), {})
    BY <1>1, <1>5 DEF OnPlan
  <2>2. \/ \E w \in Wallets : ForUpdate(j) = <<w>>
        \/ \E v, w \in Wallets : ForUpdate(j) = <<v, w>>
    BY <1>1, <2>1, ForUpdateShape
  <2>3. \A v, w \in Wallets : ForUpdate(j) = <<v, w>> => v < w
    BY <1>2, <1>3 DEF ForUpdate
  <2> HIDE DEF j
  <2>4. \/ \E w \in Wallets :
             /\ Head(todo[r]) = w
             /\ held[r] = {} \/ \E v \in Wallets : ForUpdate(j) = <<v, w>> /\ held[r] = {v}
        \/ \E v, w \in Wallets : Head(todo[r]) = v /\ held[r] = {}
    BY <2>1, <2>2, PartwayStep
  <2> QED BY <2>3, <2>4
<1>6. CASE pc[r] = "updateWallet"
  <2>1. Partway(r, Updates(j), Before(j))
    BY <1>1, <1>6 DEF OnPlan
  <2>2. \/ \E w \in Wallets : Updates(j) = <<w>>
        \/ \E v, w \in Wallets : Updates(j) = <<v, w>>
    BY <1>1, UpdatesShape
  <2>3. /\ \A w \in Wallets : Updates(j) = <<w>> => \A u \in Before(j) : u < w
        /\ \A v, w \in Wallets : Updates(j) = <<v, w>> => v < w /\ Before(j) = {}
    BY <1>2, <1>3, <1>4 DEF Updates, Before, Parties, Ops, Locking
  <2> HIDE DEF j
  <2>4. \/ \E w \in Wallets :
             /\ Head(todo[r]) = w
             /\ \/ Updates(j) = <<w>> /\ held[r] = Before(j)
                \/ \E v \in Wallets : Updates(j) = <<v, w>> /\ held[r] = Before(j) \union {v}
        \/ \E v, w \in Wallets :
             Head(todo[r]) = v /\ Updates(j) = <<v, w>> /\ held[r] = Before(j)
    BY <2>1, <2>2, PartwayStep
  <2> QED BY <2>3, <2>4
<1> QED BY <1>5, <1>6 DEF AwaitsWallet

\* Who holds a wallet and waits, waits for a wallet.
LEMMA HolderAwaits ==
    ASSUME IInv, NEW q \in Requests, Blockers(q) # {}, held[q] # {}
    PROVE  AwaitsWallet(q)
<1>1. OnPlan(q)
  BY DEF IInv, LockDiscipline
<1>2. pc[q] \in {"lock", "updateWallet", "shareTxn", "updateTxn"}
  BY DEF Blockers
<1> QED BY <1>1, <1>2 DEF OnPlan, AwaitsWallet

\* Who has locked the row of a transaction and is no reversal waits for a wallet.
LEMMA ConfirmerAwaits ==
    ASSUME IInv, NEW q \in Requests, Blockers(q) # {}, txnLock[q] # "none",
           job[q].op # "reverse"
    PROVE  AwaitsWallet(q)
<1>1. OnPlan(q)
  BY DEF IInv, LockDiscipline
<1>2. pc[q] \in {"lock", "updateWallet", "shareTxn", "updateTxn"}
  BY DEF Blockers
<1> QED BY <1>1, <1>2 DEF OnPlan, AwaitsWallet

\* In a circle without a reversal somebody waits for a wallet, and whoever
\* does waits for somebody who waits for a higher one.
LEMMA NoCircle ==
    ASSUME IInv, NEW S \in SUBSET Requests, Stuck(S)
    PROVE  \E r \in S : job[r].op = "reverse"
<1> SUFFICES ASSUME \A r \in S : job[r].op # "reverse" PROVE FALSE
  OBVIOUS
<1>1. \A r \in S : r \in Requests /\ OnPlan(r) /\ Blockers(r) # {}
  BY DEF IInv, LockDiscipline, Stuck
<1>2. \A r \in S : AwaitsWallet(r) \/ pc[r] = "updateTxn"
  BY <1>1 DEF Blockers, OnPlan, AwaitsWallet
<1>3. \E r \in S : AwaitsWallet(r)
  <2>1. PICK r \in S : TRUE
    BY DEF Stuck
  <2>2. CASE pc[r] = "updateTxn"
    <3>1. PICK q \in S : q \in TxnBlockers(r, {"S", "X"})
      BY <2>2 DEF Stuck, Blockers
    <3>2. txnLock[q] # "none"
      BY <3>1 DEF TxnBlockers
    <3> QED BY <1>1, <3>2, ConfirmerAwaits
  <2> QED BY <1>2, <2>2
<1>4. ASSUME NEW r \in S, AwaitsWallet(r)
      PROVE  \E q \in S : AwaitsWallet(q) /\ Head(todo[r]) < Head(todo[q])
  <2>1. PICK q \in S : q \in WalletBlockers(r)
    BY <1>4 DEF Stuck, Blockers, AwaitsWallet
  <2>2. Head(todo[r]) \in held[q]
    BY <2>1 DEF WalletBlockers
  <2>3. AwaitsWallet(q)
    BY <1>1, <2>2, HolderAwaits
  <2> QED BY <1>1, <2>2, <2>3, LocksAscend
<1> DEFINE W == {Head(todo[r]) : r \in {q \in S : AwaitsWallet(q)}}
<1>5. W \subseteq Wallets
  BY <1>1, LocksAscend
<1>6. W # {}
  BY <1>3
<1>7. PICK h \in W : \A w \in W : ~(h < w)
  BY <1>5, <1>6, HighestWallet
<1>8. PICK r \in S : AwaitsWallet(r) /\ h = Head(todo[r])
  BY <1>7
<1>9. PICK q \in S : AwaitsWallet(q) /\ h < Head(todo[q])
  BY <1>4, <1>8
<1> QED BY <1>7, <1>9

\* Transfers, withdrawals, deposits and settlements never wait for each other
\* in a circle, however many run at once (README, 5; transfer.service.ts:34):
\* every deadlock contains a failed withdrawal (withdrawal.service.ts:186).
THEOREM DeadlocksContainReversal == Spec => []OnlyReversalsDeadlock
<1>1. IInv => OnlyReversalsDeadlock
  BY NoCircle DEF OnlyReversalsDeadlock, Circle
<1> QED BY <1>1, Invariance, PTL

-----------------------------------------------------------------------------
(* Readers: what the services leave for them to read *)

HasDetail(table, t) == \E d \in details : d.table = table /\ d.txn = t

\* Rows of a withdrawal or of a transfer are inserted with their details.
Described(r) ==
    /\ txns[<<r, "WD">>] # None =>
         txns[<<r, "WD">>].type = "WITHDRAWAL" /\ HasDetail("withdrawals", <<r, "WD">>)
    /\ txns[<<r, "TRF-WD">>] # None =>
         txns[<<r, "TRF-WD">>].type = "TRANSFER" /\ HasDetail("transfers", <<r, "TRF-WD">>)

\* The row of a confirmation is pending until one of them has committed, and a
\* deposit is confirmed with its details.
ConfirmedBy(r) ==
    job[r] # None /\ job[r].txn # None =>
        /\ txns[job[r].txn].status # "PENDING" =>
             \E q \in Requests : pc[q] = "ok" /\ job[q] # None /\ job[q].txn = job[r].txn
        /\ pc[r] = "ok" /\ job[r].op = "confirmDeposit" => HasDetail("fundings", job[r].txn)

\* A REVERSAL refers to what it reverses.
Refers(t) == txns[t] # None /\ txns[t].type = "REVERSAL" => txns[t].parent # None

WInv ==
    /\ RInv
    /\ \A r \in Requests : Described(r) /\ ConfirmedBy(r)
    /\ \A t \in TxnIds : Refers(t)

-----------------------------------------------------------------------------
(* Readers: what they have read *)

Columns(g) == g = [row |-> g.row, details |-> g.details, count |-> g.count, page |-> g.page]
NothingRead(g) == g.row = None /\ g.details = None /\ g.count = None /\ g.page = None

ReadsOne(v) ==
    LET t == query[v].txn
    IN  /\ t \in TxnIds
        /\ left[v] \in {{"row", "details"}, {"details"}, {}}
        /\ got[v].page = None
        /\ "details" \in left[v] => got[v].details = None
        /\ left[v] = {"details"} => got[v].row # None
        /\ got[v].row # None =>
             /\ txns[t] # None /\ got[v].row.type = txns[t].type
             /\ got[v].row.status # "PENDING" => txns[t].status # "PENDING"
        /\ got[v].details # None =>
             /\ got[v].row # None
             /\ HasDetails(t, got[v].row) => got[v].details # {}

\* A count or a page of rows S that lie between those that were selected always
\* and those that were selected ever.
CountBetween(n, A, E) == \E S \in SUBSET E : A \subseteq S /\ n = Cardinality(S)
PageBetween(P, limit, A, E) ==
    \E S \in SUBSET E :
        /\ A \subseteq S /\ P \subseteq S
        /\ Cardinality(P) <= limit /\ (P = S \/ Cardinality(P) = limit)

ReadsMany(v) ==
    /\ left[v] \subseteq {"count", "page"}
    /\ got[v].details = None
    /\ always[v] \subseteq ever[v] /\ ever[v] \subseteq RowsOf(query[v].user)
    /\ left[v] # {} =>
         /\ always[v] \subseteq Selection(query[v], txns)
         /\ Selection(query[v], txns) \subseteq ever[v]
    /\ "count" \notin left[v] => CountBetween(got[v].count, always[v], ever[v])
    /\ "page" \notin left[v] =>
         PageBetween(DOMAIN got[v].page, query[v].search.limit, always[v], ever[v])

Reads(v) ==
    /\ query[v] = None => left[v] = {} /\ NothingRead(got[v])
    /\ query[v] # None =>
         /\ query[v].user \in Users
         /\ IF query[v].search = None THEN ReadsOne(v) ELSE ReadsMany(v)

HInv ==
    /\ WInv /\ HonestHistory
    /\ query = [v \in Readers |-> query[v]] /\ left = [v \in Readers |-> left[v]]
    /\ got = [v \in Readers |-> got[v]]
    /\ always = [v \in Readers |-> always[v]] /\ ever = [v \in Readers |-> ever[v]]
    /\ \A v \in Readers : Columns(got[v]) /\ Reads(v)

LEMMA DetailsKept ==
    ASSUME NEW r \in Requests, Arrive(r) \/ Proceed(r) \/ Victim(r) \/ Abort(r)
    PROVE  details \subseteq details'
<1>1. CASE Commit(r)
  BY <1>1 DEF Commit, CommitWithdrawal, CommitTransfer, CommitDeposit, CommitSettlement,
     CommitReversal
<1> QED BY <1>1, QuietSteps DEF Proceed

\* Who answers "ok" after its first step has committed.
LEMMA OkCommits ==
    ASSUME RInv, NEW r \in Requests, Arrive(r) \/ Proceed(r) \/ Victim(r) \/ Abort(r),
           pc[r] # "new", pc'[r] = "ok"
    PROVE  Commit(r)
<1>1. CASE Statement(r) \/ Victim(r) \/ Abort(r)
  BY <1>1, ServiceRuns DEF RInv, IInv, TypeOK
<1> QED BY <1>1, Arriving DEF Proceed

LEMMA DescribedKept ==
    ASSUME WInv, NEW r \in Requests, Arrive(r) \/ Proceed(r) \/ Victim(r) \/ Abort(r),
           NEW q \in Requests
    PROVE  Described(q)'
<1>1. RInv /\ Described(q) /\ details \subseteq details'
  BY DetailsKept DEF WInv
<1>2. \A leg \in Legs : <<q, leg>> \in TxnIds
  BY NewIds
<1>3. (\A t \in TxnIds : Lasts(t)) /\ OwnRows(r)
  BY <1>1, RowsLast
<1>4. ASSUME NEW leg \in {"WD", "TRF-WD"}, txns[<<q, leg>>] = None, txns'[<<q, leg>>] # None
      PROVE  q = r /\ Commit(r) /\ CommitsRow(r, <<r, leg>>) /\ job[r].txn # <<r, leg>>
  <2>1. q = r /\ <<r, leg>> \in TxnIds
    BY <1>2, <1>3, <1>4 DEF OwnRows, Legs
  <2>2. Commit(r)
    <3>1. \A u \in Users, a \in Amounts : ~InitiateDeposit(r, u, a)
      BY <1>1, <1>4, <2>1, DepositRow
    <3> QED BY <1>4, <3>1, QuietSteps DEF Proceed
  <2>3. CommitsRow(r, <<r, leg>>) /\ job[r] # None /\ JobTrue(r)
    BY <1>1, <2>1, <2>2, CommitWritesRows DEF RInv
  <2>4. job[r].txn # <<r, leg>>
    BY <1>4, <2>1, <2>3, NullAssumption DEF JobTrue
  <2> QED BY <2>1, <2>2, <2>3, <2>4
<1>5. ASSUME txns'[<<q, "WD">>] # None
      PROVE  txns'[<<q, "WD">>].type = "WITHDRAWAL" /\ HasDetail("withdrawals", <<q, "WD">>)'
  <2> DEFINE t == <<q, "WD">>
  <2>1. CASE txns[t] # None
    <3>1. t \in TxnIds
      BY <1>2 DEF Legs
    <3>2. txns[t].type = "WITHDRAWAL" /\ HasDetail("withdrawals", t)
      BY <1>1, <2>1 DEF Described
    <3>3. HasDetail("withdrawals", t)'
      BY <1>1, <3>2 DEF HasDetail
    <3> QED BY <1>3, <2>1, <3>1, <3>2, <3>3 DEF Lasts
  <2>2. CASE txns[t] = None
    <3>1. q = r /\ Commit(r) /\ CommitsRow(r, t) /\ job[r].txn # t
      BY <1>4, <1>5, <2>2
    <3>2. job[r].op = "withdraw" /\ txns'[t].type = "WITHDRAWAL"
      BY <1>5, <2>2, <3>1 DEF CommitsRow, NewTxn
    <3>3. Filed("withdrawals", r, t, job[r].user) \subseteq details'
      BY <3>1, <3>2 DEF Commit, CommitWithdrawal, CommitTransfer, CommitDeposit,
         CommitSettlement, CommitReversal, Commits
    <3> QED BY <3>2, <3>3 DEF Filed, HasDetail
  <2> QED BY <2>1, <2>2
<1>6. ASSUME txns'[<<q, "TRF-WD">>] # None
      PROVE  txns'[<<q, "TRF-WD">>].type = "TRANSFER" /\ HasDetail("transfers", <<q, "TRF-WD">>)'
  <2> DEFINE t == <<q, "TRF-WD">>
  <2>1. CASE txns[t] # None
    <3>1. t \in TxnIds
      BY <1>2 DEF Legs
    <3>2. txns[t].type = "TRANSFER" /\ HasDetail("transfers", t)
      BY <1>1, <2>1 DEF Described
    <3>3. HasDetail("transfers", t)'
      BY <1>1, <3>2 DEF HasDetail
    <3> QED BY <1>3, <2>1, <3>1, <3>2, <3>3 DEF Lasts
  <2>2. CASE txns[t] = None
    <3>1. q = r /\ Commit(r) /\ CommitsRow(r, t) /\ job[r].txn # t
      BY <1>4, <1>6, <2>2
    <3>2. job[r].op = "transfer" /\ txns'[t].type = "TRANSFER"
      BY <1>6, <2>2, <3>1 DEF CommitsRow, NewTxn
    <3>3. Filed("transfers", r, t, job[r].user) \subseteq details'
      BY <3>1, <3>2 DEF Commit, CommitWithdrawal, CommitTransfer, CommitDeposit,
         CommitSettlement, CommitReversal, Commits
    <3> QED BY <3>2, <3>3 DEF Filed, HasDetail
  <2> QED BY <2>1, <2>2
<1> QED BY <1>5, <1>6 DEF Described

LEMMA ConfirmedByKept ==
    ASSUME WInv, NEW r \in Requests, Arrive(r) \/ Proceed(r) \/ Victim(r) \/ Abort(r),
           NEW q \in Requests
    PROVE  ConfirmedBy(q)'
<1> SUFFICES ASSUME job'[q] # None, job'[q].txn # None
             PROVE  /\ txns'[job'[q].txn].status # "PENDING" =>
                         \E p \in Requests :
                            pc'[p] = "ok" /\ job'[p] # None /\ job'[p].txn = job'[q].txn
                    /\ pc'[q] = "ok" /\ job'[q].op = "confirmDeposit" =>
                         \E d \in details' : d.table = "fundings" /\ d.txn = job'[q].txn
  BY DEF ConfirmedBy, HasDetail
<1>1. /\ RInv /\ IInv /\ ConfirmedBy(q) /\ details \subseteq details'
      /\ job \in [Requests -> Job \union {None}]
  BY DetailsKept DEF WInv, RInv, IInv, TypeOK
<1>2. /\ pc[r] \notin Answers
      /\ \A p \in Requests : p # r => pc'[p] = pc[p]
      /\ \/ job' = job
         \/ /\ pc[r] = "new" /\ pc'[r] \in Waiting
            /\ \E j \in Job : job' = [job EXCEPT ![r] = j] /\ ArrivesWith(j)
            /\ UNCHANGED db
  BY <1>1, StepOfOne DEF IInv, TypeOK
<1>3. CASE job' = job
  <2> DEFINE t == job[q].txn
  <2>1. t \in TxnIds /\ txns[t] # None
    BY <1>1, <1>3 DEF RInv, JobTrue, Job
  <2>2. ASSUME txns'[t].status # "PENDING"
        PROVE  \E p \in Requests : pc'[p] = "ok" /\ job'[p] # None /\ job'[p].txn = t
    <3>1. CASE txns[t].status # "PENDING"
      <4>1. PICK p \in Requests : pc[p] = "ok" /\ job[p] # None /\ job[p].txn = t
        BY <1>1, <1>3, <3>1 DEF ConfirmedBy
      <4> QED BY <1>2, <1>3, <4>1 DEF Answers
    <3>2. CASE txns[t].status = "PENDING"
      <4>1. txns'[t] # txns[t]
        BY <2>2, <3>2
      <4>2. t = job[r].txn /\ pc[r] = "commit"
        BY <1>1, <2>1, <4>1, RowChange
      <4>3. pc'[r] = "ok"
        BY <1>1, <4>1, RowsLast
      <4>4. job[r] # None
        BY <1>1, <4>2, NullAssumption DEF IInv, LockDiscipline, JobKnown, Active
      <4> QED BY <1>3, <4>2, <4>3, <4>4
    <3> QED BY <3>1, <3>2
  <2>3. ASSUME pc'[q] = "ok", job[q].op = "confirmDeposit"
        PROVE  \E d \in details' : d.table = "fundings" /\ d.txn = t
    <3>1. CASE pc[q] = "ok"
      BY <1>1, <1>3, <2>3, <3>1 DEF ConfirmedBy, HasDetail
    <3>2. CASE pc[q] # "ok"
      <4>1. q = r
        BY <1>2, <2>3, <3>2
      <4>2. pc[r] # "new"
        BY <1>1, <1>3, <4>1 DEF RInv, JobTrue
      <4>3. Commit(r)
        BY <1>1, <2>3, <4>1, <4>2, OkCommits
      <4>4. Filed("fundings", r, t, job[r].user) \subseteq details'
        BY <2>3, <4>1, <4>3 DEF Commit, CommitWithdrawal, CommitTransfer, CommitDeposit,
           CommitSettlement, CommitReversal, Commits
      <4> QED BY <4>4 DEF Filed
    <3> QED BY <3>1, <3>2
  <2> QED BY <1>3, <2>2, <2>3
<1>4. ASSUME NEW j \in Job, job' = [job EXCEPT ![r] = j], ArrivesWith(j),
             pc'[r] \in Waiting, UNCHANGED db
      PROVE  /\ txns'[job'[q].txn].status # "PENDING" =>
                  \E p \in Requests :
                     pc'[p] = "ok" /\ job'[p] # None /\ job'[p].txn = job'[q].txn
             /\ pc'[q] = "ok" /\ job'[q].op = "confirmDeposit" =>
                  \E d \in details' : d.table = "fundings" /\ d.txn = job'[q].txn
  <2>1. txns' = txns /\ details' = details /\ pc'[r] # "ok"
    BY <1>4 DEF db, Waiting
  <2>2. \A p \in Requests : p # r => job'[p] = job[p]
    BY <1>1, <1>4
  <2>3. CASE q = r
    <3>1. job'[q] = j
      BY <1>1, <1>4, <2>3
    <3>2. txns[j.txn].status = "PENDING"
      BY <1>4, <3>1 DEF ArrivesWith, Confirmable
    <3> QED BY <2>1, <2>3, <3>1, <3>2
  <2>4. CASE q # r
    <3>1. job'[q] = job[q] /\ pc'[q] = pc[q]
      BY <1>2, <2>2, <2>4
    <3>2. \A p \in Requests : pc[p] = "ok" => pc'[p] = "ok" /\ job'[p] = job[p]
      BY <1>2, <2>2 DEF Answers
    <3> QED BY <1>1, <2>1, <3>1, <3>2 DEF ConfirmedBy, HasDetail
  <2> QED BY <2>3, <2>4
<1> QED BY <1>2, <1>3, <1>4

LEMMA RefersKept ==
    ASSUME WInv, NEW r \in Requests, Arrive(r) \/ Proceed(r) \/ Victim(r) \/ Abort(r),
           NEW t \in TxnIds
    PROVE  Refers(t)'
<1>1. RInv /\ Refers(t) /\ Lasts(t)
  BY RowsLast DEF WInv
<1>2. CASE txns[t] # None
  BY <1>1, <1>2 DEF Refers, Lasts
<1>3. ASSUME txns[t] = None, txns'[t] # None, txns'[t].type = "REVERSAL"
      PROVE  txns'[t].parent # None
  <2>1. job[r].op = "reverse" /\ Commit(r) /\ txns'[t].parent = job[r].txn
    BY <1>1, <1>3, RowChange
  <2>2. job[r] # None /\ JobTrue(r)
    BY <1>1, <2>1, CommitWritesRows DEF RInv
  <2> QED BY <2>1, <2>2 DEF JobTrue, Confirming
<1> QED BY <1>2, <1>3 DEF Refers

LEMMA WInvNext == ASSUME WInv, [Next]_vars PROVE WInv'
<1>1. RInv'
  BY RInvNext DEF WInv
<1>2. CASE UNCHANGED vars
  BY <1>1, <1>2 DEF WInv, Described, ConfirmedBy, Refers, HasDetail, vars, db, local
<1>3. ASSUME NEW r \in Requests, Arrive(r) \/ Proceed(r) \/ Victim(r) \/ Abort(r)
      PROVE  WInv'
  BY <1>1, <1>3, DescribedKept, ConfirmedByKept, RefersKept DEF WInv
<1> QED BY <1>2, <1>3 DEF Next

LEMMA WInvInit == Init => WInv
<1> SUFFICES ASSUME Init PROVE WInv
  OBVIOUS
<1>1. /\ RInv
      /\ \A t \in TxnIds : txns[t] # None => t \in DOMAIN OpeningTxns /\ txns[t] = OpeningTxns[t]
  BY RInvInit DEF Init
<1>2. \A r \in Requests, leg \in Legs : txns[<<r, leg>>] = None
  <2>1. DOMAIN OpeningTxns \intersect (Requests \X Legs) = {}
    BY OpeningAssumption
  <2>2. \A r \in Requests, leg \in Legs : <<r, leg>> \notin DOMAIN OpeningTxns
    BY <2>1
  <2> QED BY <1>1, <2>2, NewIds
<1>3. \A r \in Requests : Described(r) /\ ConfirmedBy(r)
  BY <1>2 DEF Init, Described, ConfirmedBy, Legs
<1>4. \A t \in TxnIds : Refers(t)
  BY <1>1, OpeningAssumption DEF Refers
<1> QED BY <1>1, <1>3, <1>4 DEF WInv

-----------------------------------------------------------------------------
(* Readers: the statements *)

\* A statement fills one column, and only that.
Fills(v, x, data, rest) ==
    /\ MayRead(v, x) /\ query[v] # None
    /\ query' = query /\ always' = always /\ ever' = ever /\ UNCHANGED vars
    /\ got' = [w \in Readers |-> got'[w]] /\ left' = [w \in Readers |-> left'[w]]
    /\ left'[v] = rest
    /\ got'[v].row = IF x = "row" THEN data ELSE got[v].row
    /\ got'[v].details = IF x = "details" THEN data ELSE got[v].details
    /\ got'[v].count = IF x = "count" THEN data ELSE got[v].count
    /\ got'[v].page = IF x = "page" THEN data ELSE got[v].page
    /\ Columns(got'[v])
    /\ \A w \in Readers : w # v => got'[w] = got[w] /\ left'[w] = left[w]

LEMMA ColumnRead ==
    ASSUME HInv, NEW v \in Readers, NEW x \in {"row", "details", "count", "page"},
           NEW data, NEW rest, Returns(v, x, data, rest)
    PROVE  Fills(v, x, data, rest)
<1>1. /\ MayRead(v, x) /\ query' = query /\ always' = always /\ ever' = ever /\ UNCHANGED vars
      /\ got' = [got EXCEPT ![v][x] = data] /\ left' = [left EXCEPT ![v] = rest]
  BY DEF Returns
<1>2. x \in left[v] /\ query[v] # None
  BY <1>1 DEF HInv, Reads, MayRead
<1>3. got'[v] = [got[v] EXCEPT ![x] = data] /\ left'[v] = rest
  BY <1>1 DEF HInv
<1>4. \A w \in Readers : w # v => got'[w] = got[w] /\ left'[w] = left[w]
  BY <1>1 DEF HInv
<1>5. got' = [w \in Readers |-> got'[w]] /\ left' = [w \in Readers |-> left'[w]]
  BY <1>1 DEF HInv
<1>6. got[v] = [row |-> got[v].row, details |-> got[v].details,
                count |-> got[v].count, page |-> got[v].page]
  BY DEF HInv, Columns
<1>7. DOMAIN got[v] = {"row", "details", "count", "page"}
  BY <1>6
<1>8. /\ got'[v].row = IF x = "row" THEN data ELSE got[v].row
      /\ got'[v].details = IF x = "details" THEN data ELSE got[v].details
      /\ got'[v].count = IF x = "count" THEN data ELSE got[v].count
      /\ got'[v].page = IF x = "page" THEN data ELSE got[v].page
  BY <1>3, <1>7
<1>9. Columns(got'[v])
  <2> DEFINE g == got[v]
             h == [g EXCEPT ![x] = data]
  <2>1. h = [row |-> h.row, details |-> h.details, count |-> h.count, page |-> h.page]
    <3>1. DOMAIN h = {"row", "details", "count", "page"} /\ h = [y \in DOMAIN g |-> h[y]]
      BY <1>7
    <3> HIDE DEF h
    <3> QED BY <1>7, <3>1
  <2> HIDE DEF h, g
  <2> QED BY <1>3, <2>1 DEF h, g, Columns
<1> QED BY <1>1, <1>2, <1>3, <1>4, <1>5, <1>8, <1>9 DEF Fills

\* A query returns the details that a row has.
LEMMA DetailsThere ==
    ASSUME WInv, NEW t \in TxnIds, txns[t] # None, NEW row, row.type = txns[t].type,
           row.status # "PENDING" => txns[t].status # "PENDING", HasDetails(t, row)
    PROVE  DetailsOf(t) # {}
<1>1. CASE row.type = "REVERSAL"
  <2>1. txns[t].parent \in TxnIds \union {None} /\ txns[t].parent # None
    <3>1. txns[t] \in Row
      BY DEF WInv, RInv, IInv, TypeOK
    <3>2. txns[t].parent \in TxnIds \union {None}
      BY <3>1, RowFacts
    <3> QED BY <1>1, <3>2 DEF WInv, Refers
  <2>2. txns[txns[t].parent] # None
    BY <2>1 DEF WInv, RInv, ParentKnown
  <2> QED BY <1>1, <2>1, <2>2 DEF DetailsOf
<1>2. ASSUME NEW r \in Requests, t = <<r, "WD">> \/ t = <<r, "TRF-WD">>
      PROVE  DetailsOf(t) # {}
  <2>1. \/ txns[t].type = "WITHDRAWAL" /\ HasDetail("withdrawals", t)
        \/ txns[t].type = "TRANSFER" /\ HasDetail("transfers", t)
    BY <1>2 DEF WInv, Described
  <2>2. txns[t].type # "REVERSAL" /\ HasDetail(TableOf(txns[t].type), t)
    BY <2>1 DEF TableOf
  <2> QED BY <2>2 DEF DetailsOf, HasDetail
<1>3. ASSUME row.type = "FUNDING", row.status = "SUCCESSFUL", NEW r \in Requests,
             job[r] # None, job[r].op = "confirmDeposit", job[r].txn = t,
             \A q \in Requests : job[q] # None /\ job[q].txn = t => job[q].op = "confirmDeposit"
      PROVE  DetailsOf(t) # {}
  <2>1. t # None /\ txns[t].status # "PENDING"
    BY <1>3, NullAssumption
  <2>2. PICK q \in Requests : pc[q] = "ok" /\ job[q] # None /\ job[q].txn = t
    BY <1>3, <2>1 DEF WInv, ConfirmedBy
  <2>3. HasDetail("fundings", t)
    BY <1>3, <2>1, <2>2 DEF WInv, ConfirmedBy
  <2> QED BY <1>3, <2>3 DEF DetailsOf, HasDetail, TableOf
<1> QED BY <1>1, <1>2, <1>3 DEF HasDetails

\* No confirmation of a row arrives after the row was seen confirmed.
LEMMA HasDetailsBefore ==
    ASSUME RInv, NEW r \in Requests, Arrive(r) \/ Proceed(r) \/ Victim(r) \/ Abort(r),
           NEW t \in TxnIds, NEW row, row.status # "PENDING" => txns[t].status # "PENDING",
           HasDetails(t, row)'
    PROVE  HasDetails(t, row)
<1>1. CASE job' = job
  BY <1>1 DEF HasDetails
<1>2. ASSUME NEW j \in Job, job' = [job EXCEPT ![r] = j], ArrivesWith(j), pc[r] = "new"
      PROVE  HasDetails(t, row)
  <2>1. /\ job[r] = None /\ job'[r] = j
        /\ \A q \in Requests : q # r => job'[q] = job[q]
    BY <1>2 DEF RInv, JobTrue, IInv, TypeOK
  <2>2. j.txn = t => row.status = "PENDING"
    BY <1>2, NullAssumption DEF ArrivesWith, Confirmable
  <2>3. ASSUME row.type = "FUNDING", row.status = "SUCCESSFUL",
               NEW p \in Requests, job'[p] # None, job'[p].op = "confirmDeposit", job'[p].txn = t,
               \A q \in Requests : job'[q] # None /\ job'[q].txn = t => job'[q].op = "confirmDeposit"
        PROVE  HasDetails(t, row)
    <3>1. p # r
      BY <2>1, <2>2, <2>3
    <3>2. job[p] # None /\ job[p].op = "confirmDeposit" /\ job[p].txn = t
      BY <2>1, <2>3, <3>1
    <3>3. \A q \in Requests : job[q] # None /\ job[q].txn = t => job[q].op = "confirmDeposit"
      BY <2>1, <2>3
    <3> QED BY <2>3, <3>2, <3>3 DEF HasDetails
  <2> QED BY <2>3 DEF HasDetails
<1> QED BY <1>1, <1>2, StepOfOne DEF RInv

\* A reader that asked and learned nothing new, over the same rows.
LEMMA ReadsSame ==
    ASSUME NEW v, Reads(v), query'[v] = query[v], left'[v] = left[v], got'[v] = got[v],
           always'[v] = always[v], ever'[v] = ever[v], txns' = txns, job' = job
    PROVE  Reads(v)'
<1>1. \A u : RowsOf(u)' = RowsOf(u)
  BY DEF RowsOf
<1>2. Selection(query[v], txns)' = Selection(query[v], txns)
  BY DEF Selection, Selects
<1>3. ReadsMany(v) => ReadsMany(v)'
  BY <1>1, <1>2 DEF ReadsMany
<1>4. ReadsOne(v) => ReadsOne(v)'
  BY DEF ReadsOne, HasDetails
<1> QED BY <1>3, <1>4 DEF Reads

LEMMA ReadRowKeeps == ASSUME HInv, NEW v \in Readers, ReadRow(v) PROVE Reads(v)'
<1> DEFINE t == query[v].txn
           rest == IF t \in RowsOf(query[v].user) THEN left[v] \ {"row"} ELSE {}
<1>1. Returns(v, "row", txns[t], rest)
  BY DEF ReadRow
<1>2. /\ "row" \in left[v] /\ left'[v] = rest /\ query[v] # None /\ query' = query
      /\ txns' = txns
      /\ got'[v].row = txns[t] /\ got'[v].details = got[v].details
      /\ got'[v].count = got[v].count /\ got'[v].page = got[v].page
  <2>1. Fills(v, "row", txns[t], rest)
    BY <1>1, ColumnRead
  <2> HIDE DEF rest
  <2> QED BY <2>1 DEF Fills, MayRead, vars, db
<1>3. /\ query[v].user \in Users /\ query[v].search = None /\ t \in TxnIds
      /\ left[v] = {"row", "details"} /\ got[v].page = None /\ got[v].details = None
  BY <1>2 DEF HInv, Reads, ReadsMany, ReadsOne
<1>4. rest \in {{"details"}, {}} /\ (rest = {"details"} => txns[t] # None)
  BY <1>3 DEF RowsOf
<1> HIDE DEF rest
<1> QED BY <1>2, <1>3, <1>4 DEF Reads, ReadsOne, RowsOf

LEMMA ReadDetailsKeeps == ASSUME HInv, NEW v \in Readers, ReadDetails(v) PROVE Reads(v)'
<1> DEFINE t == query[v].txn
<1>1. txns[t] # None /\ Returns(v, "details", DetailsOf(t), left[v] \ {"details"})
  BY DEF ReadDetails
<1>2. /\ "details" \in left[v] /\ "row" \notin left[v] /\ left'[v] = left[v] \ {"details"}
      /\ query[v] # None /\ query' = query /\ txns' = txns /\ job' = job
      /\ got'[v].details = DetailsOf(t) /\ got'[v].row = got[v].row
      /\ got'[v].count = got[v].count /\ got'[v].page = got[v].page
  <2>1. Fills(v, "details", DetailsOf(t), left[v] \ {"details"})
    BY <1>1, ColumnRead
  <2> QED BY <2>1 DEF Fills, MayRead, vars, db, local
<1>3. /\ query[v].user \in Users /\ query[v].search = None /\ t \in TxnIds
      /\ left[v] = {"details"} /\ got[v].page = None /\ got[v].row # None
      /\ got[v].row.type = txns[t].type
      /\ got[v].row.status # "PENDING" => txns[t].status # "PENDING"
  BY <1>1, <1>2 DEF HInv, Reads, ReadsMany, ReadsOne
<1>4. HasDetails(t, got[v].row) => DetailsOf(t) # {}
  BY <1>1, <1>3, DetailsThere DEF HInv
<1>5. left'[v] = {}
  BY <1>2, <1>3
<1> QED BY <1>1, <1>2, <1>3, <1>4, <1>5 DEF Reads, ReadsOne, HasDetails

LEMMA ReadCountKeeps == ASSUME HInv, NEW v \in Readers, ReadCount(v) PROVE Reads(v)'
<1> DEFINE q == query[v]
<1>1. Returns(v, "count", CountOf(q), left[v] \ {"count"})
  BY DEF ReadCount
<1>2. /\ "count" \in left[v] /\ left'[v] = left[v] \ {"count"}
      /\ q # None /\ query' = query /\ always' = always /\ ever' = ever /\ txns' = txns
      /\ got'[v].count = CountOf(q) /\ got'[v].row = got[v].row
      /\ got'[v].details = got[v].details /\ got'[v].page = got[v].page
  <2>1. Fills(v, "count", CountOf(q), left[v] \ {"count"})
    BY <1>1, ColumnRead
  <2> QED BY <2>1 DEF Fills, MayRead, vars, db
<1>3. q.user \in Users /\ q.search # None /\ ReadsMany(v)
  BY <1>2 DEF HInv, Reads, ReadsOne
<1>4. /\ always[v] \subseteq Selection(q, txns) /\ Selection(q, txns) \subseteq ever[v]
  BY <1>2, <1>3 DEF ReadsMany
<1>5. CountBetween(CountOf(q), always[v], ever[v])
  BY <1>4 DEF CountOf, CountBetween
<1>6. left'[v] \subseteq {"count", "page"} /\ ("page" \notin left'[v] => "page" \notin left[v])
  BY <1>2, <1>3 DEF ReadsMany
<1>7. ReadsMany(v)'
  BY <1>2, <1>3, <1>4, <1>5, <1>6 DEF ReadsMany, RowsOf, Selection, Selects
<1> QED BY <1>2, <1>3, <1>7 DEF Reads

LEMMA ReadPageKeeps == ASSUME HInv, NEW v \in Readers, ReadPage(v) PROVE Reads(v)' /\ HonestHistory'
<1> DEFINE q == query[v]
           S == Selection(q, txns)
           n == q.search.limit
<1>1. PICK P \in SUBSET S :
        IsPage(P, S, n) /\ Returns(v, "page", [t \in P |-> txns[t]], left[v] \ {"page"})
  BY DEF ReadPage
<1> DEFINE p == [t \in P |-> txns[t]]
<1>2. /\ "page" \in left[v] /\ left'[v] = left[v] \ {"page"}
      /\ q # None /\ query' = query /\ always' = always /\ ever' = ever /\ txns' = txns
      /\ got'[v].page = p /\ got'[v].row = got[v].row
      /\ got'[v].details = got[v].details /\ got'[v].count = got[v].count
      /\ \A w \in Readers : w # v => got'[w] = got[w]
  <2>1. Fills(v, "page", p, left[v] \ {"page"})
    BY <1>1, ColumnRead
  <2> HIDE DEF p
  <2> QED BY <2>1 DEF Fills, MayRead, vars, db
<1>3. q.user \in Users /\ q.search # None /\ ReadsMany(v)
  BY <1>2 DEF HInv, Reads, ReadsOne
<1>4. DOMAIN got'[v].page = P /\ \A s \in P : got'[v].page[s] = txns[s]
  BY <1>2
<1> HIDE DEF p
<1>5. Reads(v)'
  <2>1. always[v] \subseteq S /\ S \subseteq ever[v]
    BY <1>2, <1>3 DEF ReadsMany
  <2>2. PageBetween(P, n, always[v], ever[v])
    <3> HIDE DEF S, n
    <3> QED BY <1>1, <2>1 DEF IsPage, PageBetween
  <2>3. left'[v] \subseteq {"count", "page"} /\ ("count" \notin left'[v] => "count" \notin left[v])
    BY <1>2, <1>3 DEF ReadsMany
  <2>4. ReadsMany(v)'
    BY <1>2, <1>3, <1>4, <2>1, <2>2, <2>3 DEF ReadsMany, RowsOf, Selection, Selects
  <2> QED BY <1>2, <1>3, <2>4 DEF Reads
<1>6. ASSUME Unfiltered(q.search), NEW t \in P, txns[t].type = "WITHDRAWAL", txns[t].status = "FAILED"
      PROVE  \E s \in P : txns[s].type = "REVERSAL" /\ txns[s].parent = t
  <2>1. t \in TxnIds /\ txns[t] # None /\ txns[t].user = q.user
    BY <1>1 DEF Selection, Selects
  <2>2. Refunded(t)
    BY <2>1 DEF HInv, WInv, RInv
  <2>3. PICK s \in TxnIds : Refund(s, t)
    BY <1>6, <2>1, <2>2 DEF Refunded
  <2>4. s \in S
    BY <1>6, <2>1, <2>3 DEF Refund, Selection, Selects, Unfiltered
  <2>5. Newer(s, t)
    BY <2>3 DEF Newer, Refund
  <2>6. s \in P
    BY <1>1, <2>4, <2>5 DEF IsPage
  <2> QED BY <2>3, <2>6 DEF Refund
<1>7. ASSUME NEW w \in Readers, got'[w].page # None, Unfiltered(query[w].search),
             NEW t \in DOMAIN got'[w].page,
             got'[w].page[t].type = "WITHDRAWAL", got'[w].page[t].status = "FAILED"
      PROVE  \E s \in DOMAIN got'[w].page :
                got'[w].page[s].type = "REVERSAL" /\ got'[w].page[s].parent = t
  <2>1. CASE w = v
    BY <1>4, <1>6, <1>7, <2>1
  <2>2. CASE w # v
    <3>1. got'[w] = got[w]
      BY <1>2, <2>2
    <3> QED BY <1>7, <3>1 DEF HInv, HonestHistory
  <2> QED BY <2>1, <2>2
<1>8. HonestHistory'
  BY <1>2, <1>7 DEF HonestHistory, Unfiltered
<1> QED BY <1>5, <1>8

\* What one reader does the others do not see, nor the services.
LEMMA ReadKeeps == ASSUME HInv, NEW v \in Readers, Read(v) PROVE HInv'
<1>1. \E x \in {"row", "details", "count", "page"} : \E data, rest : Fills(v, x, data, rest)
  <2>1. \E x \in {"row", "details", "count", "page"} : \E data, rest : Returns(v, x, data, rest)
    BY DEF Read, ReadRow, ReadDetails, ReadCount, ReadPage
  <2> QED BY <2>1, ColumnRead
<1>2. /\ UNCHANGED vars /\ query' = query /\ always' = always /\ ever' = ever /\ Columns(got'[v])
      /\ got' = [w \in Readers |-> got'[w]] /\ left' = [w \in Readers |-> left'[w]]
      /\ \A w \in Readers : w # v => got'[w] = got[w] /\ left'[w] = left[w]
  BY <1>1 DEF Fills
<1>3. WInv'
  BY <1>2, WInvNext DEF HInv
<1>4. Reads(v)'
  BY ReadRowKeeps, ReadDetailsKeeps, ReadCountKeeps, ReadPageKeeps DEF Read
<1>5. ASSUME NEW w \in Readers, w # v PROVE Reads(w)' /\ Columns(got'[w])
  <2>1. /\ got'[w] = got[w] /\ left'[w] = left[w] /\ always'[w] = always[w] /\ ever'[w] = ever[w]
        /\ query'[w] = query[w] /\ txns' = txns /\ job' = job
    BY <1>2, <1>5 DEF vars, db, local
  <2>2. Reads(w)'
    BY <2>1, ReadsSame DEF HInv
  <2> QED BY <2>1, <2>2 DEF HInv
<1>6. HonestHistory'
  <2>1. CASE ReadPage(v)
    BY <2>1, ReadPageKeeps
  <2>2. ASSUME NEW x \in {"row", "details", "count"}, NEW data, NEW rest, Fills(v, x, data, rest)
        PROVE  HonestHistory'
    <3>1. query' = query /\ \A w \in Readers : got'[w].page = got[w].page
      BY <2>2 DEF Fills
    <3> QED BY <3>1 DEF HInv, HonestHistory, Unfiltered
  <2>3. ~ReadPage(v) =>
           \E x \in {"row", "details", "count"} : \E data, rest : Returns(v, x, data, rest)
    BY DEF Read, ReadRow, ReadDetails, ReadCount
  <2> QED BY <2>1, <2>2, <2>3, ColumnRead
<1>7. /\ query' = [w \in Readers |-> query'[w]]
      /\ always' = [w \in Readers |-> always'[w]] /\ ever' = [w \in Readers |-> ever'[w]]
      /\ \A w \in Readers : Columns(got'[w]) /\ Reads(w)'
  BY <1>2, <1>4, <1>5 DEF HInv
<1> QED BY <1>2, <1>3, <1>6, <1>7 DEF HInv

\* A request that arrives disturbs no other reader, and its page is still to come.
LEMMA ArrivalKeeps ==
    ASSUME HInv, NEW v \in Readers, query[v] = None, UNCHANGED <<got, vars>>,
           query' = [w \in Readers |-> query'[w]], left' = [w \in Readers |-> left'[w]],
           always' = [w \in Readers |-> always'[w]], ever' = [w \in Readers |-> ever'[w]],
           \A w \in Readers : w # v => /\ query'[w] = query[w] /\ left'[w] = left[w]
                                       /\ always'[w] = always[w] /\ ever'[w] = ever[w],
           Reads(v)'
    PROVE  HInv'
<1>1. WInv' /\ got' = got /\ txns' = txns /\ job' = job
  BY WInvNext DEF HInv, vars, db, local
<1>2. ASSUME NEW w \in Readers PROVE Reads(w)'
  <2>1. CASE w # v
    <3>1. /\ query'[w] = query[w] /\ left'[w] = left[w] /\ got'[w] = got[w]
          /\ always'[w] = always[w] /\ ever'[w] = ever[w] /\ Reads(w)
      BY <1>1, <2>1 DEF HInv
    <3> QED BY <1>1, <3>1, ReadsSame
  <2> QED BY <2>1
<1>3. got[v].page = None
  BY DEF HInv, Reads, NothingRead
<1>4. HonestHistory'
  <2>1. \A w \in Readers : got[w].page # None => query'[w] = query[w]
    BY <1>3
  <2> QED BY <1>1, <2>1 DEF HInv, HonestHistory, Unfiltered
<1> QED BY <1>1, <1>2, <1>4 DEF HInv

LEMMA AskKeeps ==
    ASSUME HInv, NEW v \in Readers, NEW u \in Users, NEW t \in TxnIds, Ask(v, u, t)
    PROVE  HInv'
<1> DEFINE q == [user |-> u, txn |-> t, search |-> None]
<1>1. /\ query[v] = None /\ query' = [query EXCEPT ![v] = q]
      /\ left' = [left EXCEPT ![v] = {"row", "details"}]
      /\ always' = always /\ ever' = ever /\ got' = got /\ UNCHANGED vars
  BY DEF Ask
<1>2. q # None /\ q.user = u /\ q.txn = t /\ q.search = None
  <2>1. q = [user |-> u, txn |-> t, search |-> None]
    OBVIOUS
  <2> QED BY <2>1, ReadersAssumption
<1> HIDE DEF q
<1>3. /\ query'[v] = q /\ left'[v] = {"row", "details"}
      /\ \A w \in Readers : w # v => /\ query'[w] = query[w] /\ left'[w] = left[w]
                                     /\ always'[w] = always[w] /\ ever'[w] = ever[w]
      /\ query' = [w \in Readers |-> query'[w]] /\ left' = [w \in Readers |-> left'[w]]
      /\ always' = [w \in Readers |-> always'[w]] /\ ever' = [w \in Readers |-> ever'[w]]
  BY <1>1 DEF HInv
<1>4. NothingRead(got[v])
  BY <1>1 DEF HInv, Reads
<1>5. Reads(v)'
  BY <1>1, <1>2, <1>3, <1>4 DEF Reads, ReadsOne, NothingRead
<1> QED BY <1>1, <1>3, <1>5, ArrivalKeeps

LEMMA SearchKeeps ==
    ASSUME HInv, NEW v \in Readers, NEW u \in Users, NEW s \in Searches, Search(v, u, s)
    PROVE  HInv'
<1> DEFINE q == [user |-> u, txn |-> None, search |-> s]
           S == Selection(q, txns)
<1>1. /\ query[v] = None /\ query' = [query EXCEPT ![v] = q]
      /\ left' = [left EXCEPT ![v] = {"count", "page"}]
      /\ always' = [always EXCEPT ![v] = S] /\ ever' = [ever EXCEPT ![v] = S]
      /\ got' = got /\ UNCHANGED vars
  BY DEF Search
<1>2. q # None /\ q.user = u /\ q.search = s /\ s # None
  <2>1. q = [user |-> u, txn |-> None, search |-> s]
    OBVIOUS
  <2> QED BY <2>1, ReadersAssumption
<1> HIDE DEF q
<1>3. S \subseteq RowsOf(u)
  BY <1>2 DEF Selection, Selects, RowsOf
<1>4. /\ query'[v] = q /\ left'[v] = {"count", "page"} /\ always'[v] = S /\ ever'[v] = S
      /\ \A w \in Readers : w # v => /\ query'[w] = query[w] /\ left'[w] = left[w]
                                     /\ always'[w] = always[w] /\ ever'[w] = ever[w]
      /\ query' = [w \in Readers |-> query'[w]] /\ left' = [w \in Readers |-> left'[w]]
      /\ always' = [w \in Readers |-> always'[w]] /\ ever' = [w \in Readers |-> ever'[w]]
  <2> HIDE DEF S
  <2> QED BY <1>1 DEF HInv
<1>5. NothingRead(got[v]) /\ txns' = txns
  BY <1>1 DEF HInv, Reads, vars, db
<1>6. ReadsMany(v)'
  BY <1>1, <1>2, <1>3, <1>4, <1>5 DEF ReadsMany, RowsOf, Selection, Selects, NothingRead
<1>7. Reads(v)'
  BY <1>2, <1>4, <1>6 DEF Reads
<1> QED BY <1>1, <1>4, <1>7, ArrivalKeeps

\* What a search has counted or shown stays between the bounds as they widen.
LEMMA WatchKeeps ==
    ASSUME HInv, NEW v \in Readers, query[v] # None, query[v].search # None, Watch,
           UNCHANGED <<query, left, got>>, \A u : RowsOf(u) \subseteq RowsOf(u)'
    PROVE  ReadsMany(v)'
<1> DEFINE q == query[v]
           S == Selection(q, txns')
<1>1. ReadsMany(v) /\ query' = query /\ left' = left /\ got' = got
  BY DEF HInv, Reads
<1>2. /\ always'[v] = IF left[v] # {} THEN always[v] \intersect S ELSE always[v]
      /\ ever'[v] = IF left[v] # {} THEN ever[v] \union S ELSE ever[v]
  BY DEF Watch, Searching
<1>3. S \subseteq RowsOf(q.user)'
  BY DEF Selection, Selects, RowsOf
<1>4. Selection(q, txns)' = S
  BY <1>1 DEF Selection, Selects
<1> HIDE DEF S
<1>5. /\ always'[v] \subseteq always[v] /\ ever[v] \subseteq ever'[v]
      /\ always'[v] \subseteq ever'[v]
  BY <1>1, <1>2 DEF ReadsMany
<1>6. ever'[v] \subseteq RowsOf(q.user)'
  BY <1>1, <1>2, <1>3 DEF ReadsMany
<1>7. left[v] # {} => always'[v] \subseteq S /\ S \subseteq ever'[v]
  BY <1>2
<1>8. \A n : CountBetween(n, always[v], ever[v]) => CountBetween(n, always'[v], ever'[v])
  BY <1>5 DEF CountBetween
<1>9. \A P, n : PageBetween(P, n, always[v], ever[v]) => PageBetween(P, n, always'[v], ever'[v])
  BY <1>5 DEF PageBetween
<1> QED BY <1>1, <1>4, <1>5, <1>6, <1>7, <1>8, <1>9 DEF ReadsMany

LEMMA ServicesKeepReads ==
    ASSUME HInv, NEW r \in Requests, Arrive(r) \/ Proceed(r) \/ Victim(r) \/ Abort(r),
           Watch, UNCHANGED <<query, left, got>>, NEW v \in Readers
    PROVE  Reads(v)'
<1>1. /\ query'[v] = query[v] /\ left'[v] = left[v] /\ got'[v] = got[v]
      /\ RInv /\ Reads(v)
  BY DEF HInv, WInv
<1>2. \A t \in TxnIds : Lasts(t)
  BY <1>1, RowsLast
<1>3. \A u : RowsOf(u) \subseteq RowsOf(u)'
  BY <1>2 DEF RowsOf, Lasts
<1>4. CASE query[v] = None
  BY <1>1, <1>4 DEF Reads
<1>5. CASE query[v] # None /\ query[v].search # None
  <2>1. ReadsMany(v)'
    BY <1>3, <1>5, WatchKeeps
  <2> QED BY <1>1, <1>5, <2>1 DEF Reads
<1>6. CASE query[v] # None /\ query[v].search = None
  <2> DEFINE t == query[v].txn
  <2>1. query[v].user \in Users /\ t \in TxnIds /\ ReadsOne(v)
    BY <1>1, <1>6 DEF Reads, ReadsOne
  <2>2. Lasts(t)
    BY <1>2, <2>1
  <2>3. ASSUME got[v].details # None
        PROVE  got[v].row # None /\ (HasDetails(t, got[v].row)' => got[v].details # {})
    <3>1. /\ got[v].row # None /\ txns[t] # None
          /\ HasDetails(t, got[v].row) => got[v].details # {}
          /\ got[v].row.status # "PENDING" => txns[t].status # "PENDING"
      BY <2>1, <2>3 DEF ReadsOne
    <3>2. HasDetails(t, got[v].row)' => HasDetails(t, got[v].row)
      <4>1. ASSUME NEW row, row = got[v].row, HasDetails(t, row)' PROVE HasDetails(t, row)
        BY <1>1, <2>1, <3>1, <4>1, HasDetailsBefore
      <4> QED BY <1>1, <4>1
    <3> QED BY <2>2, <3>1, <3>2 DEF Lasts
  <2>4. ASSUME got[v].row # None
        PROVE  /\ txns'[t] # None /\ got[v].row.type = txns'[t].type
               /\ got[v].row.status # "PENDING" => txns'[t].status # "PENDING"
    BY <2>1, <2>2, <2>4 DEF ReadsOne, Lasts
  <2> QED BY <1>1, <1>6, <2>1, <2>3, <2>4 DEF Reads, ReadsOne, HasDetails
<1> QED BY <1>4, <1>5, <1>6

LEMMA HInvNext == HInv /\ [HistoryNext]_historyVars => HInv'
<1> SUFFICES ASSUME HInv, [HistoryNext]_historyVars PROVE HInv'
  OBVIOUS
<1>1. CASE UNCHANGED historyVars
  <2>1. /\ UNCHANGED vars /\ txns' = txns /\ job' = job
        /\ query' = query /\ left' = left /\ got' = got /\ always' = always /\ ever' = ever
    BY <1>1 DEF historyVars, views, vars, db, local
  <2>2. WInv' /\ HonestHistory'
    BY <2>1, WInvNext DEF HInv, HonestHistory, Unfiltered
  <2>3. \A v \in Readers : Reads(v)'
    BY <2>1, ReadsSame DEF HInv
  <2> QED BY <2>1, <2>2, <2>3 DEF HInv
<1>2. ASSUME Next, Watch, UNCHANGED <<query, left, got>> PROVE HInv'
  <2>1. WInv'
    BY <1>2, WInvNext DEF HInv
  <2>2. HonestHistory' /\ query' = query /\ left' = left /\ got' = got
    BY <1>2 DEF HInv, HonestHistory, Unfiltered
  <2>3. always' = [v \in Readers |-> always'[v]] /\ ever' = [v \in Readers |-> ever'[v]]
    BY <1>2 DEF Watch
  <2>4. \A v \in Readers : Reads(v)'
    BY <1>2, ServicesKeepReads DEF Next
  <2> QED BY <2>1, <2>2, <2>3, <2>4 DEF HInv
<1> QED BY <1>1, <1>2, AskKeeps, SearchKeeps, ReadKeeps DEF HistoryNext

LEMMA HInvInit == HistoryInit => HInv
<1> SUFFICES ASSUME HistoryInit PROVE HInv
  OBVIOUS
<1>1. WInv
  BY WInvInit DEF HistoryInit
<1>2. \A v \in Readers :
        /\ query[v] = None /\ left[v] = {}
        /\ got[v] = [row |-> None, details |-> None, count |-> None, page |-> None]
  BY DEF HistoryInit
<1>3. \A v \in Readers : Columns(got[v]) /\ NothingRead(got[v])
  BY <1>2 DEF Columns, NothingRead
<1>4. \A v \in Readers : Reads(v)
  BY <1>2, <1>3 DEF Reads
<1>5. HonestHistory
  BY <1>3 DEF HonestHistory, NothingRead
<1> QED BY <1>1, <1>3, <1>4, <1>5 DEF HInv, HistoryInit

LEMMA HInvariance == HistorySpec => []HInv
BY HInvInit, HInvNext, PTL DEF HistorySpec

\* A history without filters never shows a withdrawal as failed without the
\* REVERSAL that gave the money back (README, 7), however short its page: both
\* rows are one commit, a page is read in one statement (transaction.repo.ts:101),
\* and the newest come first (transaction.repo.ts:104).
THEOREM HistoryHonest == HistorySpec => []HonestHistory
<1>1. HInv => HonestHistory
  BY DEF HInv
<1> QED BY <1>1, HInvariance, PTL

\* GET /transactions/:id reads the row first and its details after it
\* (transaction.service.ts:56-69), and the services write both in one commit: the
\* view of money that has moved always says how.
THEOREM DetailsAlwaysFollow == HistorySpec => []DetailsFollow
<1>1. HInv => DetailsFollow
  <2> SUFFICES ASSUME HInv, NEW v \in Readers, query[v] # None, got[v].details # None,
                      HasDetails(query[v].txn, got[v].row)
               PROVE  got[v].details # {}
    BY DEF DetailsFollow, Answered
  <2>1. Reads(v)
    BY DEF HInv
  <2> QED BY <2>1 DEF Reads, ReadsOne, ReadsMany
<1> QED BY <1>1, HInvariance, PTL

\* The count and the page of one answer are two statements with commits in
\* between (transaction.repo.ts:109): whatever the filters and the limit, both
\* lie between the rows that matched throughout the request and those that
\* matched at some moment of it.
THEOREM TotalAlwaysBracketed == HistorySpec => []TotalBracketed
<1>1. HInv => TotalBracketed
  <2> SUFFICES ASSUME HInv, NEW v \in Readers, query[v] # None, left[v] = {},
                      query[v].search # None
               PROVE  /\ Cardinality(always[v]) <= got[v].count
                      /\ got[v].count <= Cardinality(ever[v])
                      /\ DOMAIN got[v].page \subseteq ever[v]
                      /\ Cardinality(DOMAIN got[v].page) <= query[v].search.limit
                      /\ always[v] \ DOMAIN got[v].page # {} =>
                           Cardinality(DOMAIN got[v].page) = query[v].search.limit
    BY DEF TotalBracketed, Answered
  <2> DEFINE P == DOMAIN got[v].page
             n == query[v].search.limit
             A == always[v]
             E == ever[v]
  <2>1. ReadsMany(v)
    BY DEF HInv, Reads
  <2>2. PageBetween(P, n, A, E) /\ CountBetween(got[v].count, A, E) /\ E \subseteq RowsOf(query[v].user)
    BY <2>1 DEF ReadsMany
  <2> HIDE DEF P, n, A, E
  <2>3. P \subseteq E /\ Cardinality(P) <= n /\ (A \ P # {} => Cardinality(P) = n)
    BY <2>2 DEF PageBetween
  <2>4. PICK S \in SUBSET E : A \subseteq S /\ got[v].count = Cardinality(S)
    BY <2>2 DEF CountBetween
  <2>5. IsFiniteSet(E)
    <3>1. E \subseteq {t \in TxnIds : txns[t] # None}
      BY <2>2 DEF RowsOf
    <3>2. IsFiniteSet({t \in TxnIds : txns[t] # None})
      BY DEF HInv, WInv, RInv
    <3> QED BY <3>1, <3>2, FS_Subset
  <2>6. /\ IsFiniteSet(S) /\ Cardinality(S) <= Cardinality(E)
        /\ Cardinality(A) <= Cardinality(S)
    BY <2>4, <2>5, FS_Subset
  <2> QED BY <2>3, <2>4, <2>6 DEF P, n, A, E
<1> QED BY <1>1, HInvariance, PTL

-----------------------------------------------------------------------------
(* The pool: who runs has a connection, so those who wait for each other's  *)
(* locks do it where InnoDB sees them.                                       *)

PInv == IInv /\ IsFiniteSet(connected) /\ \A r \in Requests : Active(r) => r \in connected

\* Of the sets that wait for each other a smallest is a circle.
LEMMA SmallestCircle ==
    ASSUME NEW S, IsFiniteSet(S), Stuck(S)
    PROVE  \E T \in SUBSET S : Circle(T)
<1> DEFINE R == StrictSubsetOrdering(S)
           Sets == {T \in SUBSET S : Stuck(T)}
<1>1. IsWellFoundedOn(R, SUBSET S)
  <2>1. IsWellFoundedOn(R, FiniteSubsetsOf(S))
    BY FS_StrictSubsetOrderingWellFounded
  <2>2. FiniteSubsetsOf(S) = SUBSET S
    BY FS_FiniteSubsetsOfFinite
  <2> HIDE DEF R
  <2> QED BY <2>1, <2>2, Zenon
<1>2. Sets # {} /\ Sets \subseteq SUBSET S
  OBVIOUS
<1> HIDE DEF R, Sets
<1>3. PICK T \in Sets : \A U \in Sets : ~(<<U, T>> \in R)
  BY <1>1, <1>2, WFMin
<1>4. T \in SUBSET S /\ Stuck(T)
  BY DEF Sets
<1>5. ASSUME NEW U \in SUBSET T, Stuck(U), U # T PROVE FALSE
  <2>1. U \in Sets
    BY <1>4, <1>5 DEF Sets
  <2>2. <<U, T>> \in R
    BY <1>4, <1>5 DEF R, StrictSubsetOrdering
  <2> QED BY <1>3, <2>1, <2>2
<1>6. Circle(T)
  BY <1>4, <1>5 DEF Circle
<1> QED BY <1>4, <1>6

\* Who blocks a request has a connection.
LEMMA BlockersConnected ==
    ASSUME PInv, NEW r
    PROVE  Blockers(r) \subseteq connected
<1> SUFFICES ASSUME NEW q \in Blockers(r) PROVE q \in connected
  OBVIOUS
<1>1. q \in Requests /\ (held[q] # {} \/ txnLock[q] # "none")
  BY DEF Blockers, WalletBlockers, TxnBlockers, Others
<1>2. OnPlan(q)
  BY <1>1 DEF PInv, IInv, LockDiscipline
<1> QED BY <1>1, <1>2 DEF PInv, OnPlan

LEMMA PoolSeesAll == PInv => PoolNeverWedged
<1> SUFFICES ASSUME PInv, connected # {}, \A r \in connected : Blockers(r) # {}
             PROVE  \E r \in connected : \E S \in SUBSET connected : r \in S /\ Circle(S)
  BY DEF PoolNeverWedged, Granted, MaySend
<1>1. \A r \in connected : Blockers(r) \intersect connected # {}
  BY BlockersConnected
<1>2. Stuck(connected)
  BY <1>1 DEF Stuck
<1>3. PICK S \in SUBSET connected : Circle(S)
  BY <1>2, SmallestCircle DEF PInv
<1>4. PICK r \in S : TRUE
  BY <1>3 DEF Circle, Stuck
<1> QED BY <1>3, <1>4

LEMMA ConnectionKept ==
    ASSUME PInv, NEW r \in Requests, Arrive(r) \/ Proceed(r) \/ Victim(r) \/ Abort(r),
           r \in connected \/ pc'[r] \in Answers, Released(r)
    PROVE  PInv'
<1>1. PICK s : pc' = [pc EXCEPT ![r] = s]
  BY StepOfOne DEF PInv
<1>2. IInv'
  BY NextKeeps DEF PInv, Next
<1>3. IsFiniteSet(connected') /\ connected \ {r} \subseteq connected'
  BY FS_Subset DEF PInv, Released
<1>4. ASSUME NEW q \in Requests, Active(q)' PROVE q \in connected'
  <2>1. CASE q = r
    BY <1>4, <2>1 DEF Released, Active, Waiting, Answers
  <2>2. CASE q # r
    <3>1. Active(q)
      BY <1>1, <1>4, <2>2 DEF PInv, IInv, TypeOK, Active
    <3> QED BY <1>3, <2>2, <3>1 DEF PInv
  <2> QED BY <2>1, <2>2
<1> QED BY <1>2, <1>3, <1>4 DEF PInv

LEMMA PInvNext == PInv /\ [PoolNext]_poolVars => PInv'
<1> SUFFICES ASSUME PInv, [PoolNext]_poolVars PROVE PInv'
  OBVIOUS
<1>1. ASSUME UNCHANGED vars, IsFiniteSet(connected'), connected \subseteq connected' PROVE PInv'
  <2>1. IInv'
    BY <1>1, StutterKeeps DEF PInv
  <2>2. pc' = pc
    BY <1>1 DEF vars
  <2> QED BY <1>1, <2>1, <2>2 DEF PInv, Active
<1>2. CASE Acquire
  BY <1>1, <1>2, FS_AddElement DEF Acquire, PInv
<1>3. ASSUME NEW r \in Requests, Transaction(r) PROVE PInv'
  BY <1>1, <1>3 DEF Transaction, PInv
<1>4. ASSUME NEW r \in Requests, AcquireTimesOut(r) \/ RefuseUnconnected(r) PROVE PInv'
  <2>1. PICK answer \in Answers : Rollback(r, answer) /\ connected' = connected
    BY <1>4 DEF AcquireTimesOut, RefuseUnconnected, RefuseSelfTransfer, Answers, pool
  <2>2. IInv'
    BY <2>1, RollbackKeeps DEF PInv
  <2>3. \A q \in Requests : Active(q)' => Active(q)
    BY <2>1 DEF Rollback, Finish, PInv, IInv, TypeOK, Active, Waiting, Answers
  <2> QED BY <2>1, <2>2, <2>3 DEF PInv
<1>5. ASSUME NEW r \in Requests, Run(r) PROVE PInv'
  BY <1>5, ConnectionKept DEF Run, MaySend, Arrive
<1>6. ASSUME NEW r \in Requests, Fail(r) PROVE PInv'
  <2>1. Active(r)
    BY <1>6, ServiceRuns DEF Fail, PInv
  <2> QED BY <1>6, <2>1, ConnectionKept DEF Fail, PInv
<1>7. CASE UNCHANGED poolVars
  BY <1>1, <1>7 DEF poolVars, pool, PInv
<1> QED BY <1>2, <1>3, <1>4, <1>5, <1>6, <1>7 DEF PoolNext

\* The pool is never taken up by requests that all wait: a service sends each
\* of its statements on its own connection, so who blocks a request has one,
\* and if nobody can go on some of them wait in a circle that InnoDB sees.
THEOREM PoolAlwaysGoesOn == PoolSpec => []PoolNeverWedged
<1>1. PoolInit => PInv
  <2> SUFFICES ASSUME PoolInit PROVE PInv
    OBVIOUS
  <2>1. IInv /\ \A r \in Requests : pc[r] = "new"
    BY InitKeeps DEF PoolInit, Init
  <2>2. IsFiniteSet(connected)
    BY FS_EmptySet DEF PoolInit
  <2> QED BY <2>1, <2>2 DEF PInv, Active, Waiting
<1> QED BY <1>1, PInvNext, PoolSeesAll, PTL DEF PoolSpec

=============================================================================
