----------------------------- MODULE BankProofs -----------------------------
(***************************************************************************)
(* Payments implements Bank.  A commit adds ledger entries of a request    *)
(* that has none yet, so they pair with each other and with nothing else:  *)
(* each double entry is one new posting, and the balance it was checked    *)
(* against is still the balance.                                           *)
(***************************************************************************)
EXTENDS PaymentsProofs, Bookkeeping, Sums

\* Entries are written by requests whose commit has succeeded.
Posted == \A e \in ledger : pc[e.by] = "ok"

BInv == IInv /\ Posted

CreditOf(r, t, a, c, cb) ==
    [by |-> r, txn |-> t, wallet |-> c, type |-> "CREDIT", amount |-> a,
     before |-> cb, after |-> cb + a]
DebitOf(r, t, a, d, bd) ==
    [by |-> r, txn |-> t, wallet |-> d, type |-> "DEBIT", amount |-> a,
     before |-> bd, after |-> bd - a]

PostingOf(p) ==
    [cause |-> <<p[1].by, p[1].txn>>, from |-> p[2].wallet, to |-> p[1].wallet,
     amount |-> p[1].amount]
Movement(r, t, from, to, a) == [cause |-> <<r, t>>, from |-> from, to |-> to, amount |-> a]

Paired(entries) ==
    {p \in entries \X entries :
        /\ p[1].type = "CREDIT" /\ p[2].type = "DEBIT"
        /\ p[1].by = p[2].by /\ p[1].txn = p[2].txn}
PostingsOf(entries) == {PostingOf(p) : p \in Paired(entries)}

-----------------------------------------------------------------------------
(* Double entries and postings *)

LEMMA PostingsPaired == Postings = PostingsOf(ledger)
BY DEF Postings, Pairs, PostingOf, Paired, PostingsOf

\* A credit and a debit pair with each other, and their posting is what they say.
LEMMA OnePair ==
    ASSUME NEW r, NEW t, NEW a, NEW c, NEW cb, NEW d, NEW bd
    PROVE  PostingsOf(DoubleEntry(r, t, a, c, cb, d, bd)) = {Movement(r, t, d, c, a)}
<1> DEFINE cr == CreditOf(r, t, a, c, cb)
           de == DebitOf(r, t, a, d, bd)
<1>1. DoubleEntry(r, t, a, c, cb, d, bd) = {cr, de}
  BY DEF DoubleEntry, CreditOf, DebitOf
<1>2. /\ cr.type = "CREDIT" /\ de.type = "DEBIT" /\ cr.by = r /\ de.by = r
      /\ cr.txn = t /\ de.txn = t /\ cr.wallet = c /\ de.wallet = d /\ cr.amount = a
  BY DEF CreditOf, DebitOf
<1> HIDE DEF cr, de
<1>3. Paired({cr, de}) = {<<cr, de>>}
  BY <1>2 DEF Paired
<1>4. PostingOf(<<cr, de>>) = Movement(r, t, d, c, a)
  BY <1>2 DEF PostingOf, Movement
<1>5. PostingsOf({cr, de}) = {Movement(r, t, d, c, a)}
  BY <1>3, <1>4 DEF PostingsOf
<1> QED BY <1>1, <1>5

\* What a request writes first pairs with nothing that is there.
LEMMA NewPairs ==
    ASSUME NEW old, NEW new, NEW r, \A e \in old : e.by # r, \A e \in new : e.by = r
    PROVE  Paired(old \union new) = Paired(old) \union Paired(new)
BY DEF Paired

LEMMA EntriesBy ==
    ASSUME NEW r, NEW t, NEW a, NEW c, NEW cb, NEW d, NEW bd
    PROVE  \A e \in DoubleEntry(r, t, a, c, cb, d, bd) : e.by = r /\ e.txn = t
BY DEF DoubleEntry

\* The postings that a commit adds.
LEMMA NewPostings ==
    ASSUME BInv, NEW r \in Requests, pc[r] = "commit", NEW new, ledger' = ledger \union new,
           \A e \in new : e.by = r
    PROVE  /\ Postings' = Postings \union PostingsOf(new)
           /\ PostingsOf(new) \intersect Postings = {}
<1>1. \A e \in ledger : e.by # r
  BY DEF BInv, Posted
<1>2. Paired(ledger') = Paired(ledger) \union Paired(new)
  BY <1>1, NewPairs
<1>3. Postings' = PostingsOf(ledger')
  BY DEF Postings, Pairs, PostingOf, Paired, PostingsOf
<1>4. Postings' = Postings \union PostingsOf(new)
  BY <1>2, <1>3, PostingsPaired DEF PostingsOf
<1>5. ASSUME NEW p \in Paired(new), NEW q \in Paired(ledger) PROVE PostingOf(p) # PostingOf(q)
  <2>1. p[1].by = r /\ q[1].by # r
    BY <1>1 DEF Paired
  <2>2. PostingOf(p).cause[1] = p[1].by /\ PostingOf(q).cause[1] = q[1].by
    BY DEF PostingOf
  <2> QED BY <2>1, <2>2
<1> QED BY <1>4, <1>5, PostingsPaired DEF PostingsOf

-----------------------------------------------------------------------------
(* The steps *)

LEMMA PostingTyped ==
    ASSUME NEW r \in Requests, NEW t \in TxnIds, NEW from \in Wallets, NEW to \in Wallets,
           NEW a \in Amounts
    PROVE  Movement(r, t, from, to, a) \in Bank!Posting
<1>1. Wallets = Users \union {HOLDING, SYSTEM}
  BY UsersAssumption DEF Wallets, Users, HOLDING, SYSTEM
<1> QED BY <1>1 DEF Movement, Bank!Posting, Bank!BankWallets

\* One double entry is one movement of the bank.
LEMMA OneMovement ==
    ASSUME BInv, NEW r \in Requests, pc[r] = "commit", NEW t \in TxnIds, NEW a \in Amounts,
           NEW from \in Wallets, NEW to \in Wallets, NEW bt, NEW bf,
           ledger' = ledger \union DoubleEntry(r, t, a, to, bt, from, bf),
           balance' = Move(balance, from, to, a),
           from \in Users => balance[from] >= a
    PROVE  Bank!BankNext
<1> DEFINE p == Movement(r, t, from, to, a)
           new == DoubleEntry(r, t, a, to, bt, from, bf)
<1>1. PostingsOf(new) = {p}
  BY OnePair
<1>2. \A e \in new : e.by = r
  BY EntriesBy
<1> HIDE DEF new
<1>3. Postings' = Postings \union {p} /\ p \notin Postings
  <2>1. Postings' = Postings \union PostingsOf(new) /\ PostingsOf(new) \intersect Postings = {}
    BY <1>2, NewPostings DEF new
  <2> QED BY <1>1, <2>1
<1>4. p \in Bank!Posting
  BY PostingTyped
<1>5. p.from = from /\ p.to = to /\ p.amount = a
  BY DEF Movement
<1> HIDE DEF p
<1>6. Bank!Post(p)
  BY <1>3, <1>4, <1>5 DEF Bank!Post, Bank!CoveredBy, Bank!Transferred, Move
<1> QED BY <1>3, <1>6 DEF Bank!BankNext

\* What passes through a wallet leaves its balance as it was.
LEMMA MoveThrough ==
    ASSUME NEW b \in [Wallets -> Int], NEW u \in Wallets, NEW h \in Wallets, NEW v \in Wallets,
           u # h, v # h, u # v, NEW a \in Int
    PROVE  Move(Move(b, u, h, a), h, v, a) = Bank!Transferred(b, u, v, a)
<1> DEFINE x == Move(b, u, h, a)
           y == Move(x, h, v, a)
           z == Bank!Transferred(b, u, v, a)
<1>1. /\ x \in [Wallets -> Int]
      /\ \A w \in Wallets : x[w] = IF w = u THEN b[w] - a ELSE IF w = h THEN b[w] + a ELSE b[w]
  BY DEF Move
<1>2. /\ z \in [Wallets -> Int]
      /\ \A w \in Wallets : z[w] = IF w = u THEN b[w] - a ELSE IF w = v THEN b[w] + a ELSE b[w]
  BY DEF Bank!Transferred
<1> HIDE DEF x, z
<1>3. /\ y \in [Wallets -> Int]
      /\ \A w \in Wallets : y[w] = IF w = h THEN x[w] - a ELSE IF w = v THEN x[w] + a ELSE x[w]
  BY <1>1 DEF Move
<1> HIDE DEF y
<1>4. \A w \in Wallets : y[w] = z[w]
  <2>1. \A w \in Wallets : b[w] \in Int /\ x[w] \in Int
    BY <1>1
  <2> QED BY <1>1, <1>2, <1>3, <2>1
<1>5. y = z
  BY <1>2, <1>3, <1>4
<1> QED BY <1>5 DEF x, y, z

LEMMA AmountsInt == \A a \in Amounts : a \in Int
BY AmountsAssumption

LEMMA CommitIsMovement ==
    ASSUME BInv, NEW r \in Requests, Commit(r)
    PROVE  Bank!BankNext
<1> USE WalletFacts
<1> DEFINE j == job[r]
<1>1. /\ pc[r] = "commit" /\ IInv /\ OnPlan(r) /\ JobKnown(r) /\ StillAccepted(r) /\ Active(r)
  BY DEF Commit, CommitWithdrawal, CommitTransfer, CommitDeposit, CommitSettlement, CommitReversal,
     Commits, BInv, IInv, LockDiscipline, Active
<1>2. /\ j \in Job /\ j.user \in Users /\ j.amount \in Amounts
      /\ j.op \in Confirming => j.txn \in TxnIds
      /\ j.op = "transfer" => j.user # j.peer
      /\ held[r] = Touched(j)
  BY <1>1 DEF JobKnown, Job, OnPlan
<1>3. ASSUME j.op \in Locking
      PROVE  Accepted(r) /\ balance[j.user] >= j.amount
  <2>1. j.user \in held[r] \intersect Users
    <3>1. Touched(j) = Parties(j) \union {HOLDING}
      BY <1>3 DEF Touched, Locking
    <3> QED BY <1>2, <3>1 DEF Parties
  <2> QED BY <1>1, <1>2, <1>3, <2>1 DEF StillAccepted, Accepted, Covered
<1>4. CASE CommitWithdrawal(r)
  <2>1. /\ j.op \in Locking
        /\ balance' = Move(balance, j.user, HOLDING, j.amount)
        /\ ledger' = ledger \union
             DoubleEntry(r, <<r, "WD">>, j.amount, HOLDING, seen[r][HOLDING], j.user, seen[r][j.user])
    BY <1>4 DEF CommitWithdrawal, Commits, Locking
  <2>2. <<r, "WD">> \in TxnIds
    BY NewIds DEF Legs
  <2> QED BY <1>1, <1>2, <1>3, <2>1, <2>2, OneMovement
<1>5. CASE CommitDeposit(r)
  <2>1. /\ j.txn \in TxnIds
        /\ balance' = Move(balance, SYSTEM, j.user, j.amount)
        /\ ledger' = ledger \union
             DoubleEntry(r, j.txn, j.amount, j.user, seen[r][j.user], SYSTEM, seen[r][SYSTEM])
    BY <1>2, <1>5 DEF CommitDeposit, Commits, Confirming
  <2> QED BY <1>1, <1>2, <2>1, OneMovement
<1>6. CASE CommitSettlement(r)
  <2>1. /\ j.txn \in TxnIds
        /\ balance' = Move(balance, HOLDING, SYSTEM, j.amount)
        /\ ledger' = ledger \union
             DoubleEntry(r, j.txn, j.amount, SYSTEM, seen[r][SYSTEM], HOLDING, seen[r][HOLDING])
    BY <1>2, <1>6 DEF CommitSettlement, Commits, Confirming
  <2> QED BY <1>1, <1>2, <2>1, OneMovement
<1>7. CASE CommitReversal(r)
  <2>1. /\ balance' = Move(balance, HOLDING, j.user, j.amount)
        /\ ledger' = ledger \union
             DoubleEntry(r, <<r, "REV">>, j.amount, j.user, seen[r][j.user], HOLDING, seen[r][HOLDING])
    BY <1>7 DEF CommitReversal
  <2>2. <<r, "REV">> \in TxnIds
    BY NewIds DEF Legs
  <2> QED BY <1>1, <1>2, <2>1, <2>2, OneMovement
<1>8. CASE CommitTransfer(r)
  <2> DEFINE out == <<r, "TRF-WD">>
             in == <<r, "TRF-FD">>
             h == seen[r][HOLDING]
             one == DoubleEntry(r, out, j.amount, HOLDING, h, j.user, seen[r][j.user])
             two == DoubleEntry(r, in, j.amount, j.peer, seen[r][j.peer], HOLDING, h + j.amount)
             p == Movement(r, out, j.user, HOLDING, j.amount)
             q == Movement(r, in, HOLDING, j.peer, j.amount)
  <2>1. /\ j.op = "transfer" /\ j.op \in Locking
        /\ balance' = Move(Move(balance, j.user, HOLDING, j.amount), HOLDING, j.peer, j.amount)
        /\ ledger' = ledger \union (one \union two)
    BY <1>8 DEF CommitTransfer, Commits, Locking
  <2>2. j.peer \in Users /\ j.user # j.peer /\ balance[j.user] >= j.amount
    BY <1>2, <1>3, <2>1 DEF Accepted
  <2>3. out \in TxnIds /\ in \in TxnIds /\ out # in
    BY NewIds DEF Legs
  <2>4. /\ \A e \in one : e.by = r /\ e.txn = out
        /\ \A e \in two : e.by = r /\ e.txn = in
    BY EntriesBy
  <2>5. PostingsOf(one) = {p} /\ PostingsOf(two) = {q}
    BY OnePair
  <2>6. PostingsOf(one \union two) = {p, q}
    <3> HIDE DEF one, two, p, q
    <3>1. Paired(one \union two) = Paired(one) \union Paired(two)
      <4> HIDE DEF out, in
      <4> QED BY <2>3, <2>4 DEF Paired
    <3> QED BY <2>5, <3>1 DEF PostingsOf
  <2>7. Postings' = Postings \union {p, q} /\ p \notin Postings /\ q \notin Postings
    <3> HIDE DEF one, two, p, q
    <3>1. \A e \in one \union two : e.by = r
      BY <2>4
    <3>2. /\ Postings' = Postings \union PostingsOf(one \union two)
          /\ PostingsOf(one \union two) \intersect Postings = {}
      BY <1>1, <2>1, <3>1, NewPostings
    <3> QED BY <2>6, <3>2
  <2>8. p \in Bank!Posting /\ q \in Bank!Posting
    BY <1>2, <2>2, <2>3, PostingTyped
  <2>9. /\ p.from = j.user /\ p.to = HOLDING /\ p.amount = j.amount /\ p.cause = <<r, out>>
         /\ q.from = HOLDING /\ q.to = j.peer /\ q.amount = j.amount /\ q.cause = <<r, in>>
    BY DEF Movement
  <2>10. balance' = Bank!Transferred(balance, j.user, j.peer, j.amount)
    <3>1. balance \in [Wallets -> Int]
      BY <1>1 DEF IInv, TypeOK
    <3>2. j.amount \in Int
      BY <1>2, AmountsInt
    <3>3. j.user \in Wallets /\ j.peer \in Wallets /\ j.user # HOLDING /\ j.peer # HOLDING
      BY <1>2, <2>2
    <3> QED BY <2>1, <2>2, <3>1, <3>2, <3>3, MoveThrough
  <2>11. Bank!PostThrough(p, q)
    <3> HIDE DEF p, q
    <3> QED BY <2>2, <2>3, <2>7, <2>8, <2>9, <2>10 DEF Bank!PostThrough, Bank!CoveredBy
  <2> QED BY <2>7, <2>11 DEF Bank!BankNext
<1> QED BY <1>4, <1>5, <1>6, <1>7, <1>8 DEF Commit

-----------------------------------------------------------------------------
(* The invariant and the refinement *)

LEMMA CommitWrites ==
    ASSUME NEW r \in Requests, Commit(r), NEW e \in ledger' \ ledger
    PROVE  e.by = r
BY WrittenBy DEF Commit, CommitWithdrawal, CommitTransfer, CommitDeposit, CommitSettlement,
   CommitReversal

LEMMA PostedStep == BInv /\ [Next]_vars => BInv'
<1> SUFFICES ASSUME BInv, [Next]_vars PROVE BInv'
  OBVIOUS
<1>1. IInv'
  BY NextKeeps, StutterKeeps DEF BInv
<1>2. Posted'
  <2>1. CASE UNCHANGED vars
    BY <2>1 DEF vars, db, BInv, Posted
  <2>2. ASSUME NEW r \in Requests, Arrive(r) \/ Proceed(r) \/ Victim(r) \/ Abort(r)
        PROVE  Posted'
    <3>1. pc[r] # "ok" /\ \E s : pc' = [pc EXCEPT ![r] = s]
      BY <2>2, StepOfOne DEF BInv, Answers
    <3>2. \A q \in Requests : pc[q] = "ok" => pc'[q] = "ok"
      BY <3>1
    <3>3. \A e \in ledger : e.by \in Requests
      BY DEF BInv, IInv, TypeOK, Entry
    <3>4. \A e \in ledger : pc'[e.by] = "ok"
      BY <3>2, <3>3 DEF BInv, Posted
    <3>5. CASE Commit(r)
      <4>1. pc'[r] = "ok"
        BY <3>5 DEF BInv, IInv, TypeOK, Commit, CommitWithdrawal, CommitTransfer, CommitDeposit,
           CommitSettlement, CommitReversal, Commits, Finish
      <4> QED BY <3>4, <3>5, <4>1, CommitWrites DEF Posted
    <3>6. CASE ~Commit(r)
      <4>1. ledger' = ledger
        BY <2>2, <3>6, QuietSteps DEF Proceed
      <4> QED BY <3>4, <4>1 DEF Posted
    <3> QED BY <3>5, <3>6
  <2> QED BY <2>1, <2>2 DEF Next
<1> QED BY <1>1, <1>2 DEF BInv

LEMMA PostedInit == Init => BInv
<1>1. Init => IInv
  BY InitKeeps
<1>2. Init => Posted
  BY DEF Init, Posted
<1> QED BY <1>1, <1>2 DEF BInv

LEMMA StepRefines == BInv /\ [Next]_vars => [Bank!BankNext]_Bank!bankVars
<1> SUFFICES ASSUME BInv, [Next]_vars
             PROVE  Bank!BankNext \/ UNCHANGED Bank!bankVars
  OBVIOUS
<1>1. ASSUME UNCHANGED <<balance, ledger>> PROVE UNCHANGED Bank!bankVars
  BY <1>1 DEF Bank!bankVars, Postings, Pairs
<1>2. CASE UNCHANGED vars
  BY <1>1, <1>2 DEF vars, db
<1>3. ASSUME NEW r \in Requests, Arrive(r) \/ Statement(r) \/ Victim(r) \/ Abort(r)
      PROVE  UNCHANGED Bank!bankVars
  BY <1>1, <1>3, QuietSteps
<1>4. ASSUME NEW r \in Requests, Commit(r) PROVE Bank!BankNext
  BY <1>4, CommitIsMovement
<1> QED BY <1>2, <1>3, <1>4 DEF Next, Proceed

LEMMA InitRefines == Init => Bank!BankInit
BY DEF Init, Bank!BankInit, Postings, Pairs

\* The services implement the bank, for any number of users and requests and
\* any amounts: every commit is one covered movement, posted once, or two that
\* pass through HOLDING, and every other step is invisible to it.
THEOREM PaymentsImplementBank == Spec => ImplementsBank
<1>1. Init => BInv /\ Bank!BankInit
  BY PostedInit, InitRefines
<1>2. BInv /\ [Next]_vars => BInv' /\ [Bank!BankNext]_Bank!bankVars
  BY PostedStep, StepRefines
<1> QED BY <1>1, <1>2, PTL DEF Spec, ImplementsBank, Bank!BankSpec

-----------------------------------------------------------------------------
(* The sum of all balances *)

LEMMA WalletsFinite == IsFiniteSet(Wallets)
BY FS_Interval, UsersAssumption DEF Wallets

\* What one wallet loses another gains.
LEMMA MoveConserves ==
    ASSUME NEW b \in [Wallets -> Int], NEW from \in Wallets, NEW to \in Wallets, from # to,
           NEW a \in Int
    PROVE  SumOf(Move(b, from, to, a), Wallets) = SumOf(b, Wallets)
<1> DEFINE taken == [b EXCEPT ![from] = @ - a]
           moved == Move(b, from, to, a)
<1>1. \A w \in Wallets : b[w] \in Int /\ taken[w] \in Int
  OBVIOUS
<1>2. taken[from] = b[from] - a /\ taken[to] = b[to] /\ \A w \in Wallets \ {from} : taken[w] = b[w]
  OBVIOUS
<1>3. /\ \A w \in Wallets : moved[w] \in Int
      /\ moved[to] = b[to] + a
      /\ \A w \in Wallets \ {to} : moved[w] = taken[w]
  BY DEF Move
<1> HIDE DEF taken, moved
<1>4. SumOf(taken, Wallets) = SumOf(b, Wallets) - b[from] + taken[from]
  BY <1>1, <1>2, WalletsFinite, SumChange
<1>5. SumOf(moved, Wallets) = SumOf(taken, Wallets) - taken[to] + moved[to]
  BY <1>1, <1>3, WalletsFinite, SumChange
<1>6. SumOf(b, Wallets) \in Int /\ SumOf(taken, Wallets) \in Int
  BY <1>1, WalletsFinite, SumType
<1> QED BY <1>1, <1>2, <1>3, <1>4, <1>5, <1>6 DEF moved

-----------------------------------------------------------------------------
(* What the ledger adds up to *)

EntriesIn(L, type, w) == {e \in L : e.type = type /\ e.wallet = w}
TotalIn(L, type, w) == SumOf(AmountsOf(EntriesIn(L, type, w)), EntriesIn(L, type, w))

\* The entries L account for the balances b.
Replays(b, L) ==
    \A w \in Wallets : b[w] = OpeningBalance[w] + TotalIn(L, "CREDIT", w) - TotalIn(L, "DEBIT", w)

Amounted(L) == IsFiniteSet(L) /\ \A e \in L : e.amount \in Int

LEMMA EntriesFinite ==
    ASSUME NEW L, Amounted(L), NEW type, NEW w
    PROVE  /\ IsFiniteSet(EntriesIn(L, type, w))
           /\ \A e \in EntriesIn(L, type, w) : e.amount \in Int
           /\ TotalIn(L, type, w) \in Int
<1>1. IsFiniteSet(EntriesIn(L, type, w)) /\ \A e \in EntriesIn(L, type, w) : e.amount \in Int
  BY FS_Subset DEF EntriesIn, Amounted
<1> QED BY <1>1, SumOfAmountsType DEF TotalIn

\* A new entry adds its amount to its side of its wallet and to no other sum.
LEMMA TotalWithEntry ==
    ASSUME NEW L, Amounted(L), NEW x, x \notin L, x.amount \in Int, NEW type, NEW w
    PROVE  /\ Amounted(L \union {x})
           /\ x.type = type /\ x.wallet = w =>
                TotalIn(L \union {x}, type, w) = x.amount + TotalIn(L, type, w)
           /\ x.type # type \/ x.wallet # w =>
                TotalIn(L \union {x}, type, w) = TotalIn(L, type, w)
<1> DEFINE S == EntriesIn(L, type, w)
           T == EntriesIn(L \union {x}, type, w)
<1>1. Amounted(L \union {x})
  BY FS_AddElement DEF Amounted
<1>2. IsFiniteSet(S) /\ (\A e \in S \union {x} : e.amount \in Int) /\ x \notin S
  <2>1. IsFiniteSet(S) /\ \A e \in S : e.amount \in Int
    BY EntriesFinite
  <2>2. x \notin S
    BY DEF EntriesIn
  <2> HIDE DEF S
  <2> QED BY <2>1, <2>2
<1>3. CASE x.type = type /\ x.wallet = w
  <2>1. T = S \union {x}
    BY <1>3 DEF EntriesIn
  <2> HIDE DEF S, T
  <2>2. SumOf(AmountsOf(T), T) = x.amount + SumOf(AmountsOf(S), S)
    BY <1>2, <2>1, SumOfAmountsAdd
  <2> QED BY <1>1, <1>3, <2>2 DEF TotalIn, S, T
<1>4. CASE ~(x.type = type /\ x.wallet = w)
  <2>1. T = S
    BY <1>4 DEF EntriesIn
  <2> QED BY <1>1, <1>4, <2>1 DEF TotalIn
<1> QED BY <1>3, <1>4

\* A movement and its double entry keep the ledger in step with the balances.
LEMMA ReplaysStep ==
    ASSUME NEW b \in [Wallets -> Int], NEW L, Amounted(L), Replays(b, L),
           NEW r, NEW t, NEW a \in Int, NEW from \in Wallets, NEW to \in Wallets, from # to,
           NEW bt, NEW bf, \A e \in L : ~(e.by = r /\ e.txn = t)
    PROVE  /\ Amounted(L \union DoubleEntry(r, t, a, to, bt, from, bf))
           /\ Replays(Move(b, from, to, a), L \union DoubleEntry(r, t, a, to, bt, from, bf))
<1> DEFINE cr == CreditOf(r, t, a, to, bt)
           de == DebitOf(r, t, a, from, bf)
           K  == L \union {cr}
           M  == K \union {de}
           c  == Move(b, from, to, a)
<1>1. L \union DoubleEntry(r, t, a, to, bt, from, bf) = M
  BY DEF DoubleEntry, CreditOf, DebitOf
<1>2. /\ cr.type = "CREDIT" /\ cr.wallet = to /\ cr.amount = a /\ cr.by = r /\ cr.txn = t
      /\ de.type = "DEBIT" /\ de.wallet = from /\ de.amount = a /\ de.by = r /\ de.txn = t
  BY DEF CreditOf, DebitOf
<1>3. cr \notin L /\ de \notin K
  BY <1>2
<1> HIDE DEF cr, de, K, M
<1>4. /\ c \in [Wallets -> Int]
      /\ \A w \in Wallets :
           c[w] = IF w = from THEN b[w] - a ELSE IF w = to THEN b[w] + a ELSE b[w]
  BY DEF Move
<1> HIDE DEF c
<1> USE DEF K, M
<1>5. Amounted(K) /\ Amounted(M)
  <2>1. Amounted(K)
    BY <1>2, <1>3, TotalWithEntry
  <2> HIDE DEF K
  <2> QED BY <1>2, <1>3, <2>1, TotalWithEntry
<1>6. ASSUME NEW w \in Wallets
      PROVE  /\ TotalIn(M, "CREDIT", w) = IF w = to THEN a + TotalIn(L, "CREDIT", w)
                                                    ELSE TotalIn(L, "CREDIT", w)
             /\ TotalIn(M, "DEBIT", w) = IF w = from THEN a + TotalIn(L, "DEBIT", w)
                                                     ELSE TotalIn(L, "DEBIT", w)
  <2>1. /\ w = to => TotalIn(K, "CREDIT", w) = a + TotalIn(L, "CREDIT", w)
        /\ w # to => TotalIn(K, "CREDIT", w) = TotalIn(L, "CREDIT", w)
        /\ TotalIn(K, "DEBIT", w) = TotalIn(L, "DEBIT", w)
    <3>1. /\ w = to => TotalIn(L \union {cr}, "CREDIT", w) = cr.amount + TotalIn(L, "CREDIT", w)
          /\ w # to => TotalIn(L \union {cr}, "CREDIT", w) = TotalIn(L, "CREDIT", w)
      <4>1. cr.type = "CREDIT" /\ cr.wallet = to /\ cr \notin L /\ cr.amount \in Int
        BY <1>2, <1>3
      <4>2. ASSUME cr.wallet = w
            PROVE  TotalIn(L \union {cr}, "CREDIT", w) = cr.amount + TotalIn(L, "CREDIT", w)
        BY <4>1, <4>2, TotalWithEntry
      <4>3. ASSUME cr.wallet # w
            PROVE  TotalIn(L \union {cr}, "CREDIT", w) = TotalIn(L, "CREDIT", w)
        <5>1. EntriesIn(L \union {cr}, "CREDIT", w) = EntriesIn(L, "CREDIT", w)
          BY <4>3 DEF EntriesIn
        <5> QED BY <5>1 DEF TotalIn
      <4> QED BY <4>1, <4>2, <4>3
    <3>2. TotalIn(L \union {cr}, "DEBIT", w) = TotalIn(L, "DEBIT", w)
      <4>1. cr.type # "DEBIT"
        BY <1>2
      <4> QED BY <1>2, <1>3, <4>1, TotalWithEntry
    <3> QED BY <1>2, <3>1, <3>2
  <2>2. /\ w = from => TotalIn(M, "DEBIT", w) = a + TotalIn(K, "DEBIT", w)
        /\ w # from => TotalIn(M, "DEBIT", w) = TotalIn(K, "DEBIT", w)
        /\ TotalIn(M, "CREDIT", w) = TotalIn(K, "CREDIT", w)
    <3> HIDE DEF K
    <3> QED BY <1>2, <1>3, <1>5, TotalWithEntry
  <2> QED BY <2>1, <2>2
<1>7. ASSUME NEW w \in Wallets
      PROVE  c[w] = OpeningBalance[w] + TotalIn(M, "CREDIT", w) - TotalIn(M, "DEBIT", w)
  <2>1. b[w] = OpeningBalance[w] + TotalIn(L, "CREDIT", w) - TotalIn(L, "DEBIT", w)
    BY DEF Replays
  <2>2. /\ OpeningBalance[w] \in Int /\ b[w] \in Int
        /\ TotalIn(L, "CREDIT", w) \in Int /\ TotalIn(L, "DEBIT", w) \in Int
    BY BalanceAssumption, EntriesFinite
  <2> HIDE DEF M, K
  <2> QED BY <1>4, <1>6, <2>1, <2>2
<1>8. Replays(c, M)
  BY <1>7 DEF Replays
<1> QED BY <1>1, <1>5, <1>8 DEF c

-----------------------------------------------------------------------------
(* The books *)

LEMMA TotalsOfLedger ==
    ASSUME IsFiniteSet(ledger), NEW type, NEW w
    PROVE  Total(Entries(type, w)) = TotalIn(ledger, type, w)
<1>1. Entries(type, w) = EntriesIn(ledger, type, w)
  BY DEF Entries, EntriesIn
<1>2. IsFiniteSet(EntriesIn(ledger, type, w))
  BY FS_Subset DEF EntriesIn
<1> QED BY <1>1, <1>2, SumOfAmounts DEF Total, TotalIn

Books ==
    /\ IsFiniteSet(ledger)
    /\ Replays(balance, ledger)
    /\ SumOf(balance, Wallets) = SumOf(OpeningBalance, Wallets)

LEMMA InitBooks == Init => Books
<1> SUFFICES ASSUME Init PROVE Books
  OBVIOUS
<1>1. ledger = {} /\ IsFiniteSet(ledger) /\ balance = OpeningBalance
  BY FS_EmptySet DEF Init
<1>2. ASSUME NEW type, NEW w PROVE TotalIn(ledger, type, w) = 0
  <2>1. EntriesIn(ledger, type, w) = {}
    BY <1>1 DEF EntriesIn
  <2> QED BY <2>1, SumEmpty DEF TotalIn
<1>3. \A w \in Wallets : OpeningBalance[w] \in Int
  BY BalanceAssumption
<1>4. Replays(balance, ledger)
  BY <1>1, <1>2, <1>3 DEF Replays
<1> QED BY <1>1, <1>4 DEF Books

\* One movement, posted for a transaction the request has no entries for.
LEMMA MovementKeepsBooks ==
    ASSUME BInv, Books, NEW r \in Requests, NEW t, NEW a \in Amounts,
           NEW from \in Wallets, NEW to \in Wallets, from # to, NEW bt, NEW bf,
           \A e \in ledger : e.by # r,
           ledger' = ledger \union DoubleEntry(r, t, a, to, bt, from, bf),
           balance' = Move(balance, from, to, a)
    PROVE  Books'
<1>1. balance \in [Wallets -> Int] /\ a \in Int /\ Amounted(ledger)
  <2>1. \A e \in ledger : e.amount \in Amounts
    BY DEF BInv, IInv, TypeOK, Entry
  <2> QED BY <2>1, AmountsInt DEF BInv, IInv, TypeOK, Books, Amounted
<1>2. Amounted(ledger') /\ Replays(balance', ledger')
  <2>1. Replays(balance, ledger) /\ \A e \in ledger : ~(e.by = r /\ e.txn = t)
    BY DEF Books
  <2> QED BY <1>1, <2>1, ReplaysStep
<1>3. SumOf(balance', Wallets) = SumOf(balance, Wallets)
  BY <1>1, MoveConserves
<1> QED BY <1>2, <1>3 DEF Books, Amounted, Replays

LEMMA CommitKeepsBooks == ASSUME BInv, Books, NEW r \in Requests, Commit(r) PROVE Books'
<1> USE WalletFacts
<1> DEFINE j == job[r]
<1>1. /\ pc[r] = "commit" /\ OnPlan(r) /\ JobKnown(r) /\ StillAccepted(r) /\ Active(r)
      /\ balance \in [Wallets -> Int]
  BY DEF Commit, CommitWithdrawal, CommitTransfer, CommitDeposit, CommitSettlement, CommitReversal,
     Commits, BInv, IInv, LockDiscipline, Active, TypeOK
<1>2. /\ j.user \in Users /\ j.amount \in Amounts /\ j.amount \in Int
      /\ j.op = "transfer" => j.user # j.peer
  BY <1>1, AmountsInt DEF JobKnown, Job
<1>3. \A e \in ledger : e.by # r
  BY <1>1 DEF BInv, Posted
<1>4. CASE CommitWithdrawal(r)
  <2>1. /\ balance' = Move(balance, j.user, HOLDING, j.amount)
        /\ ledger' = ledger \union
             DoubleEntry(r, <<r, "WD">>, j.amount, HOLDING, seen[r][HOLDING], j.user, seen[r][j.user])
    BY <1>4 DEF CommitWithdrawal
  <2> QED BY <1>2, <1>3, <2>1, MovementKeepsBooks
<1>5. CASE CommitDeposit(r)
  <2>1. /\ balance' = Move(balance, SYSTEM, j.user, j.amount)
        /\ ledger' = ledger \union
             DoubleEntry(r, j.txn, j.amount, j.user, seen[r][j.user], SYSTEM, seen[r][SYSTEM])
    BY <1>5 DEF CommitDeposit
  <2> QED BY <1>2, <1>3, <2>1, MovementKeepsBooks
<1>6. CASE CommitSettlement(r)
  <2>1. /\ balance' = Move(balance, HOLDING, SYSTEM, j.amount)
        /\ ledger' = ledger \union
             DoubleEntry(r, j.txn, j.amount, SYSTEM, seen[r][SYSTEM], HOLDING, seen[r][HOLDING])
    BY <1>6 DEF CommitSettlement
  <2> QED BY <1>2, <1>3, <2>1, MovementKeepsBooks
<1>7. CASE CommitReversal(r)
  <2>1. /\ balance' = Move(balance, HOLDING, j.user, j.amount)
        /\ ledger' = ledger \union
             DoubleEntry(r, <<r, "REV">>, j.amount, j.user, seen[r][j.user], HOLDING, seen[r][HOLDING])
    BY <1>7 DEF CommitReversal
  <2> QED BY <1>2, <1>3, <2>1, MovementKeepsBooks
<1>8. CASE CommitTransfer(r)
  <2> DEFINE out == <<r, "TRF-WD">>
             in == <<r, "TRF-FD">>
             h == seen[r][HOLDING]
             L == ledger \union DoubleEntry(r, out, j.amount, HOLDING, h, j.user, seen[r][j.user])
             b == Move(balance, j.user, HOLDING, j.amount)
  <2>1. /\ j.op = "transfer"
        /\ balance' = Move(b, HOLDING, j.peer, j.amount)
        /\ ledger' =
             L \union DoubleEntry(r, in, j.amount, j.peer, seen[r][j.peer], HOLDING, h + j.amount)
    BY <1>8 DEF CommitTransfer, Commits
  <2>2. j.peer \in Users
    BY <1>1, <2>1 DEF StillAccepted, Accepted, Locking
  <2>3. Replays(balance, ledger) /\ Amounted(ledger) /\ \A e \in ledger : ~(e.by = r /\ e.txn = out)
    <3>1. \A e \in ledger : e.amount \in Amounts
      BY DEF BInv, IInv, TypeOK, Entry
    <3> QED BY <1>3, <3>1, AmountsInt DEF Books, Amounted
  <2>4. \A e \in L : ~(e.by = r /\ e.txn = in)
    <3>1. \A e \in DoubleEntry(r, out, j.amount, HOLDING, h, j.user, seen[r][j.user]) :
            e.by = r /\ e.txn = out
      BY EntriesBy
    <3>2. out # in
      OBVIOUS
    <3> HIDE DEF out, in
    <3> QED BY <1>3, <3>1, <3>2
  <2>5. b \in [Wallets -> Int]
    BY <1>1, <1>2 DEF Move
  <2>6. Replays(b, L) /\ Amounted(L)
    <3> HIDE DEF out, h, j
    <3> QED BY <1>1, <1>2, <2>3, ReplaysStep
  <2>7. Replays(balance', ledger') /\ Amounted(ledger')
    <3> HIDE DEF L, b, in, h, j
    <3> QED BY <1>2, <2>1, <2>2, <2>4, <2>5, <2>6, ReplaysStep
  <2>8. SumOf(balance', Wallets) = SumOf(balance, Wallets)
    <3>1. SumOf(b, Wallets) = SumOf(balance, Wallets)
      BY <1>1, <1>2, MoveConserves
    <3> HIDE DEF b, j
    <3>2. SumOf(Move(b, HOLDING, j.peer, j.amount), Wallets) = SumOf(b, Wallets)
      BY <1>2, <2>2, <2>5, MoveConserves
    <3> QED BY <2>1, <3>1, <3>2
  <2> QED BY <2>7, <2>8 DEF Books, Amounted, Replays
<1> QED BY <1>4, <1>5, <1>6, <1>7, <1>8 DEF Commit

LEMMA BooksStep == BInv /\ Books /\ [Next]_vars => Books'
<1> SUFFICES ASSUME BInv, Books, [Next]_vars PROVE Books'
  OBVIOUS
<1>1. ASSUME UNCHANGED <<balance, ledger>> PROVE Books'
  BY <1>1 DEF Books, Replays
<1>2. CASE UNCHANGED vars
  BY <1>1, <1>2 DEF vars, db
<1>3. ASSUME NEW r \in Requests, Arrive(r) \/ Statement(r) \/ Victim(r) \/ Abort(r)
      PROVE  Books'
  BY <1>1, <1>3, QuietSteps
<1>4. ASSUME NEW r \in Requests, Commit(r) PROVE Books'
  BY <1>4, CommitKeepsBooks
<1> QED BY <1>2, <1>3, <1>4 DEF Next, Proceed

LEMMA BooksInvariant == Spec => [](BInv /\ Books)
<1>1. Init => BInv /\ Books
  BY PostedInit, InitBooks
<1>2. BInv /\ Books /\ [Next]_vars => (BInv /\ Books)'
  BY PostedStep, BooksStep
<1> QED BY <1>1, <1>2, PTL DEF Spec

LEMMA BooksReplay == Books => LedgerReplay
BY TotalsOfLedger DEF Books, Replays, LedgerReplay

LEMMA BooksConserve == Books => Conservation
BY SumOfValues DEF Books, Conservation

\* The balance of every wallet is what the ledger adds up to, for any number
\* of users, requests and amounts: each commit writes its double entries for a
\* transaction its request has none for, so no entry is lost by being equal to
\* another, and moves the money they say.
THEOREM LedgerAlwaysReplays == Spec => []LedgerReplay
BY BooksInvariant, BooksReplay, PTL

\* The sum of all balances never changes: every commit takes from one wallet
\* what it gives to another, or twice so through HOLDING.
THEOREM MoneyConserved == Spec => []Conservation
BY BooksInvariant, BooksConserve, PTL

=============================================================================
