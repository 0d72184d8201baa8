---------------------------- MODULE EdgesProofs -----------------------------
(***************************************************************************)
(* Proofs about the three components that share no state with the others:  *)
(* Naira and Amounts, for any amounts in the bodies; the rate limiter, for *)
(* any limits, windows and restarts; and the queries of the history, for   *)
(* any table and any query.                                                *)
(***************************************************************************)
EXTENDS Amounts, RateLimiter, TransactionQuery, Sums

\* Kobo rounds to the nearest whole kobo.
LEMMA KoboNearest ==
    ASSUME NEW x \in Nat
    PROVE  Kobo(x) \in Int /\ 10 * Kobo(x) - x \in -5 .. 5
BY DEF Kobo

\* A whole number of kobo is shown as that number of kobo.
LEMMA FormattedKobo ==
    ASSUME NEW k \in Int
    PROVE  Formatted(1000 * k) = 10 * k
BY DEF Formatted

Ops == {"initiateDeposit", "initiateWithdrawal", "initiateTransfer",
        "confirmDeposit", "settle", "reverse"}

RowTypes == {"FUNDING", "WITHDRAWAL", "TRANSFER"}
RowStatuses == {"PENDING", "SUCCESSFUL", "FAILED"}
RowRecords ==
    {row \in [type : RowTypes, body : Nat, amount : Int, status : RowStatuses] :
       10 * row.amount - row.body \in -5 .. 5}

LEMMA SignValues == ASSUME NEW op PROVE Sign(op) \in {-1, 0, 1}
BY DEF Sign

\* What the user was told follows the wallet step by step: it lags by the amount
\* that was moved and not yet shown, and the row object holds kobo until it is
\* sanitized, after the last use of its amount.
Phase(k) ==
    \/ /\ call.todo = << >> /\ told = 10 * balance
    \/ /\ call.op \in Ops /\ call.todo = <<"move", "sanitize", "answer">>
       /\ call.amount = k * 1000 /\ told = 10 * balance
    \/ /\ call.op \in Ops /\ call.todo = <<"sanitize", "answer">>
       /\ call.amount = k * 1000 /\ told = 10 * (balance - Sign(call.op) * k)
    \/ /\ call.op \in Ops /\ call.todo = <<"answer">>
       /\ call.amount = 10 * k /\ told = 10 * (balance - Sign(call.op) * k)

\* What a call may have left to do.
Plans == {<< >>, <<"answer">>, <<"sanitize", "answer">>, <<"move", "sanitize", "answer">>}

LEMMA Tails ==
    /\ Tail(<<"move", "sanitize", "answer">>) = <<"sanitize", "answer">>
    /\ Tail(<<"sanitize", "answer">>) = <<"answer">>
    /\ Tail(<<"answer">>) = << >>
OBVIOUS

ToldFollows ==
    /\ balance \in Int
    /\ rows \in Seq(RowRecords)
    /\ call \in [op : Ops \union {"none"}, row : Nat, amount : Int, todo : Plans]
    /\ \E k \in Int : Phase(k)

LEMMA ToldInit == AmountsInit => ToldFollows
<1> SUFFICES ASSUME AmountsInit PROVE ToldFollows
    OBVIOUS
<1>1. balance \in Int /\ told = 10 * balance
  BY BodiesAssumption, FormattedKobo DEF AmountsInit
<1>2. rows = << >> /\ call = [op |-> "none", row |-> 0, amount |-> 0, todo |-> << >>]
  BY DEF AmountsInit
<1>3. Phase(0)
  BY <1>1, <1>2 DEF Phase
<1>4. call \in [op : Ops \union {"none"}, row : Nat, amount : Int, todo : Plans]
  BY <1>2 DEF Plans
<1>5. rows \in Seq(RowRecords)
  BY <1>2
<1> QED BY <1>1, <1>3, <1>4, <1>5 DEF ToldFollows

\* A service starts with the amount of a row in kobo, and nothing moved.
LEMMA StartFollows ==
    ASSUME NEW op \in Ops, NEW i \in Nat, NEW n \in Int, Start(op, i, n),
           told' = 10 * balance', balance' \in Int
    PROVE  /\ call' \in [op : Ops \union {"none"}, row : Nat, amount : Int, todo : Plans]
           /\ \E k \in Int : Phase(k)'
<1>1. call' = [op |-> op, row |-> i, amount |-> n * 1000, todo |-> Steps(op)]
  BY DEF Start
<1>2. CASE op \in {"initiateDeposit", "settle"}
  <2>1. Sign(op) = 0 /\ Steps(op) = <<"sanitize", "answer">>
    BY <1>2 DEF Sign, Steps
  <2>2. call'.op = op /\ call'.todo = <<"sanitize", "answer">> /\ call'.amount = n * 1000
    BY <1>1, <2>1
  <2>3. told' = 10 * (balance' - Sign(call.op)' * n)
    <3>1. Sign(call.op)' = 0
      BY <2>1, <2>2 DEF Sign
    <3>2. Sign(call.op)' * n = 0
      BY <3>1
    <3>3. balance' \in Int /\ told' = 10 * balance'
      OBVIOUS
    <3> QED BY <3>2, <3>3
  <2>4. Phase(n)'
    BY <2>2, <2>3 DEF Phase
  <2>5. call' \in [op : Ops \union {"none"}, row : Nat, amount : Int, todo : Plans]
    BY <1>1, <2>1 DEF Ops, Plans
  <2> QED BY <2>4, <2>5
<1>3. CASE op \notin {"initiateDeposit", "settle"}
  <2>1. Steps(op) = <<"move", "sanitize", "answer">>
    BY <1>3 DEF Steps
  <2>2. Phase(n)'
    BY <1>1, <2>1 DEF Phase
  <2>3. call' \in [op : Ops \union {"none"}, row : Nat, amount : Int, todo : Plans]
    BY <1>1, <2>1 DEF Ops, Plans
  <2> QED BY <2>2, <2>3
<1> QED BY <1>2, <1>3

LEMMA ToldStep == ToldFollows /\ [AmountsNext]_amountVars => ToldFollows'
<1> SUFFICES ASSUME ToldFollows, [AmountsNext]_amountVars PROVE ToldFollows'
    OBVIOUS
<1> PICK k \in Int : Phase(k)
    BY DEF ToldFollows
<1>0. call.todo = << >> => told = 10 * balance
  BY DEF Phase
<1>1. ASSUME NEW x \in Bodies, NEW op \in Ops, NEW type \in RowTypes, NEW status \in RowStatuses,
             Initiate(op, type, status, x)
      PROVE  ToldFollows'
  <2>1. Kobo(x) \in Int /\ x \in Nat
    BY BodiesAssumption, KoboNearest
  <2>0. 10 * Kobo(x) - x \in -5 .. 5
    BY <2>1, KoboNearest
  <2>2. rows' \in Seq(RowRecords)
    <3>1. [type |-> type, body |-> x, amount |-> Kobo(x), status |-> status] \in RowRecords
      BY <2>0, <2>1 DEF RowRecords
    <3> QED BY <1>1, <3>1 DEF Initiate, ToldFollows
  <2>3. Len(rows) + 1 \in Nat /\ Start(op, Len(rows) + 1, Kobo(x))
    BY <1>1 DEF Initiate, ToldFollows
  <2>4. told' = 10 * balance' /\ balance' \in Int
    BY <1>0, <1>1 DEF Initiate, ToldFollows
  <2> QED BY <2>1, <2>2, <2>3, <2>4, StartFollows DEF ToldFollows
<1>2. ASSUME NEW i \in DOMAIN rows, NEW op \in Ops, NEW type \in RowTypes, NEW status \in RowStatuses,
             Confirm(op, type, status, i)
      PROVE  ToldFollows'
  <2>1. i \in Nat /\ rows[i] \in RowRecords
    <3>1. rows \in Seq(RowRecords)
      BY DEF ToldFollows
    <3>2. DOMAIN rows = 1 .. Len(rows) /\ Len(rows) \in Nat
      BY <3>1
    <3>3. i \in 1 .. Len(rows)
      BY <3>2
    <3> QED BY <3>1, <3>3
  <2>2. rows' \in Seq(RowRecords)
    <3>1. rows' = [rows EXCEPT ![i] = [rows[i] EXCEPT !.status = status]]
      BY <1>2 DEF Confirm
    <3>2. [rows[i] EXCEPT !.status = status]
            \in RowRecords
      BY <2>1 DEF RowRecords
    <3> QED BY <3>1, <3>2 DEF ToldFollows
  <2>3. rows[i].amount \in Int /\ Start(op, i, rows[i].amount)
    BY <1>2, <2>1 DEF Confirm, RowRecords
  <2>4. told' = 10 * balance' /\ balance' \in Int
    BY <1>0, <1>2 DEF Confirm, ToldFollows
  <2> QED BY <2>1, <2>2, <2>3, <2>4, StartFollows DEF ToldFollows
<1>3. ASSUME MoveAmount PROVE ToldFollows'
  <2>1. /\ call.op \in Ops /\ call.todo = <<"move", "sanitize", "answer">>
        /\ call.amount = k * 1000 /\ told = 10 * balance
    BY <1>3 DEF MoveAmount, Phase
  <2>2. call.amount \div 1000 = k
    BY <2>1
  <2>3. Sign(call.op) \in Int
    BY SignValues
  <2>4. balance' = balance + Sign(call.op) * k /\ balance' \in Int
    BY <1>3, <2>2, <2>3 DEF MoveAmount, ToldFollows
  <2>5. /\ call' \in [op : Ops \union {"none"}, row : Nat, amount : Int, todo : Plans]
        /\ call'.op = call.op /\ call'.amount = call.amount
        /\ call'.todo = <<"sanitize", "answer">>
    <3>1. call \in [op : Ops \union {"none"}, row : Nat, amount : Int, todo : Plans]
      BY DEF ToldFollows
    <3>2. call' = [call EXCEPT !.todo = <<"sanitize", "answer">>]
      BY <1>3, <2>1, Tails DEF MoveAmount
    <3> QED BY <3>1, <3>2 DEF Plans
  <2>6. told' = 10 * (balance' - Sign(call.op) * k)
    <3>1. balance \in Int /\ told' = told
      BY <1>3 DEF MoveAmount, ToldFollows
    <3>2. Sign(call.op) * k \in Int
      BY <2>3
    <3>3. balance' - Sign(call.op) * k = balance
      BY <2>4, <3>1, <3>2
    <3> QED BY <2>1, <3>1, <3>3
  <2>7. Phase(k)'
    BY <2>1, <2>5, <2>6 DEF Phase, Sign
  <2> QED BY <1>3, <2>4, <2>5, <2>7 DEF MoveAmount, ToldFollows
<1>4. ASSUME Sanitize PROVE ToldFollows'
  <2>1. /\ call.op \in Ops /\ call.todo = <<"sanitize", "answer">>
        /\ call.amount = k * 1000 /\ told = 10 * (balance - Sign(call.op) * k)
    BY <1>4 DEF Sanitize, Phase
  <2>2. Formatted(call.amount) = 10 * k
    BY <2>1, FormattedKobo
  <2>3. /\ call' \in [op : Ops \union {"none"}, row : Nat, amount : Int, todo : Plans]
        /\ call'.op = call.op /\ call'.amount = 10 * k /\ call'.todo = <<"answer">>
    <3>1. call \in [op : Ops \union {"none"}, row : Nat, amount : Int, todo : Plans]
      BY DEF ToldFollows
    <3>2. call' = [call EXCEPT !.amount = 10 * k, !.todo = <<"answer">>]
      BY <1>4, <2>1, <2>2, <3>1, Tails DEF Sanitize
    <3>3. 10 * k \in Int /\ <<"answer">> \in Plans
      BY DEF Plans
    <3> QED BY <3>1, <3>2, <3>3
  <2>4. Phase(k)'
    BY <1>4, <2>1, <2>3 DEF Sanitize, Phase, Sign
  <2> QED BY <1>4, <2>3, <2>4 DEF Sanitize, ToldFollows
<1>5. ASSUME Tell PROVE ToldFollows'
  <2>1. /\ call.todo = <<"answer">> /\ call.amount = 10 * k
        /\ told = 10 * (balance - Sign(call.op) * k)
    BY <1>5 DEF Tell, Phase
  <2>2. told' = 10 * (balance - Sign(call.op) * k) + Sign(call.op) * (10 * k)
    BY <1>5, <2>1 DEF Tell
  <2>3. Sign(call.op) \in {-1, 0, 1} /\ balance \in Int
    BY SignValues DEF ToldFollows
  <2>4. told' = 10 * balance
    BY <2>2, <2>3
  <2>5. /\ call' \in [op : Ops \union {"none"}, row : Nat, amount : Int, todo : Plans]
        /\ call'.todo = << >> /\ UNCHANGED <<balance, rows>>
    <3>1. call \in [op : Ops \union {"none"}, row : Nat, amount : Int, todo : Plans]
      BY DEF ToldFollows
    <3>2. call' = [call EXCEPT !.todo = << >>] /\ UNCHANGED <<balance, rows>>
      BY <1>5, <2>1, Tails DEF Tell
    <3> QED BY <3>1, <3>2 DEF Plans
  <2>6. Phase(0)'
    BY <2>4, <2>5 DEF Phase
  <2> QED BY <2>5, <2>6 DEF ToldFollows
<1>6. CASE UNCHANGED amountVars
  <2>1. Phase(k)'
    BY <1>6 DEF amountVars, Phase, Sign
  <2> QED BY <1>6, <2>1 DEF amountVars, ToldFollows
<1>7. CASE AmountsNext
  <2>1. CASE \E x \in Bodies :
          \/ Initiate("initiateDeposit", "FUNDING", "PENDING", x)
          \/ Initiate("initiateWithdrawal", "WITHDRAWAL", "PENDING", x)
          \/ Initiate("initiateTransfer", "TRANSFER", "SUCCESSFUL", x)
    BY <1>1, <2>1 DEF Ops, RowTypes, RowStatuses
  <2>2. CASE \E i \in DOMAIN rows :
          \/ Confirm("confirmDeposit", "FUNDING", "SUCCESSFUL", i)
          \/ Confirm("settle", "WITHDRAWAL", "SUCCESSFUL", i)
          \/ Confirm("reverse", "WITHDRAWAL", "FAILED", i)
    BY <1>2, <2>2 DEF Ops, RowTypes, RowStatuses
  <2> QED BY <1>7, <2>1, <2>2, <1>3, <1>4, <1>5 DEF AmountsNext
<1> QED
  BY <1>6, <1>7

\* The balance that GET /wallet shows is what the answers add up to, for any
\* amounts: each is converted once (transaction.service.ts:146, wallet.service.ts:36).
THEOREM BalanceIsTold == AmountsSpec => []BalanceAsTold
<1>1. ToldFollows => BalanceAsTold
  <2> SUFFICES ASSUME ToldFollows, call.todo = << >> PROVE Formatted(balance * 1000) = told
    BY DEF BalanceAsTold
  <2>1. told = 10 * balance /\ balance \in Int
    BY DEF ToldFollows, Phase
  <2> QED BY <2>1, FormattedKobo
<1> QED BY ToldInit, ToldStep, <1>1, PTL DEF AmountsSpec

\* No amount is moved that differs from the request by more than half a kobo,
\* whatever is asked for (deposit.service.ts:23, withdrawal.service.ts:25,
\* transfer.service.ts:26).
THEOREM AmountsRoundedFairly == AmountsSpec => []RoundedFairly
<1>1. ToldFollows => RoundedFairly
  <2> SUFFICES ASSUME ToldFollows, NEW i \in DOMAIN rows
               PROVE  10 * rows[i].amount - rows[i].body \in -5 .. 5
    BY DEF RoundedFairly
  <2>1. rows \in Seq(RowRecords)
    BY DEF ToldFollows
  <2>2. rows[i] \in RowRecords
    BY <2>1
  <2> QED BY <2>2 DEF RowRecords
<1> QED BY ToldInit, ToldStep, <1>1, PTL DEF AmountsSpec

-----------------------------------------------------------------------------
(* The rate limiter *)

LEMMA AgesUpTo ==
    ASSUME NEW n \in Int
    PROVE  /\ IsFiniteSet(0 .. n)
           /\ n >= 0 => 0 .. n = (0 .. n - 1) \union {n} /\ n \notin 0 .. n - 1
<1>1. IsFiniteSet(0 .. n)
  BY FS_Interval
<1> QED BY <1>1

\* A sum over the ages up to n, and the next one.
LEMMA PrefixNext ==
    ASSUME NEW n \in Nat, NEW f, \A a \in 0 .. n : f[a] \in Int
    PROVE  SumOf(f, 0 .. n) = f[n] + SumOf(f, 0 .. n - 1)
<1>1. IsFiniteSet(0 .. n - 1) /\ n \notin 0 .. n - 1 /\ 0 .. n = (0 .. n - 1) \union {n}
  BY AgesUpTo
<1>2. SumOf(f, (0 .. n - 1) \union {n}) = f[n] + SumOf(f, 0 .. n - 1)
  BY <1>1, SumAdd
<1> QED BY <1>1, <1>2

\* What grows older by one tick adds up to what it did.
LEMMA SumShifted ==
    ASSUME NEW n \in Nat, NEW f, NEW g, \A a \in 0 .. n : f[a] \in Int /\ g[a] \in Int,
           g[0] = 0, \A a \in 1 .. n : g[a] = f[a - 1]
    PROVE  SumOf(g, 0 .. n) = SumOf(f, 0 .. n - 1)
<1> DEFINE P == {m \in Nat : m <= n => SumOf(g, 0 .. m) = SumOf(f, 0 .. m - 1)}
<1>1. 0 \in P
  <2>1. SumOf(g, 0 .. 0) = g[0] + SumOf(g, 0 .. 0 - 1)
    <3>1. 0 \in Nat /\ \A a \in 0 .. 0 : g[a] \in Int
      OBVIOUS
    <3> QED BY <3>1, PrefixNext
  <2>2. 0 .. 0 - 1 = {} /\ SumOf(g, {}) = 0 /\ SumOf(f, {}) = 0
    BY SumEmpty
  <2>3. SumOf(g, 0 .. 0) = SumOf(f, 0 .. 0 - 1)
    BY <2>1, <2>2
  <2> QED BY <2>3
<1>2. ASSUME NEW m \in P PROVE m + 1 \in P
  <2> SUFFICES ASSUME m + 1 <= n PROVE SumOf(g, 0 .. m + 1) = SumOf(f, 0 .. (m + 1) - 1)
    OBVIOUS
  <2>1. SumOf(g, 0 .. m + 1) = g[m + 1] + SumOf(g, 0 .. (m + 1) - 1)
    <3>1. m + 1 \in Nat /\ \A a \in 0 .. m + 1 : g[a] \in Int
      OBVIOUS
    <3> QED BY <3>1, PrefixNext
  <2>2. SumOf(f, 0 .. m) = f[m] + SumOf(f, 0 .. m - 1)
    <3>1. m \in Nat /\ \A a \in 0 .. m : f[a] \in Int
      OBVIOUS
    <3> QED BY <3>1, PrefixNext
  <2>3. (m + 1) - 1 = m /\ g[m + 1] = f[m] /\ SumOf(g, 0 .. m) = SumOf(f, 0 .. m - 1)
    OBVIOUS
  <2> QED BY <2>1, <2>2, <2>3
<1>3. P = Nat
  <2> HIDE DEF P
  <2>1. P \in SUBSET Nat
    BY DEF P
  <2> QED BY <1>1, <1>2, <2>1, NatSet
<1>4. n \in P
  BY <1>3
<1> QED BY <1>4

\* More ages never add up to less.
LEMMA PrefixGrows ==
    ASSUME NEW n \in Nat, NEW f, \A a \in 0 .. n : f[a] \in Nat, NEW m \in 0 .. n
    PROVE  SumOf(f, 0 .. m) <= SumOf(f, 0 .. n)
<1> DEFINE P == {d \in Nat : m + d <= n => SumOf(f, 0 .. m) <= SumOf(f, 0 .. m + d)}
<1>0. \A i \in 0 .. n : SumOf(f, 0 .. i) \in Int
  <2>1. SUFFICES ASSUME NEW i \in 0 .. n PROVE SumOf(f, 0 .. i) \in Int
    OBVIOUS
  <2>2. IsFiniteSet(0 .. i) /\ \A a \in 0 .. i : f[a] \in Int
    BY AgesUpTo
  <2> QED BY <2>2, SumType
<1>1. 0 \in P
  <2>1. m + 0 = m /\ SumOf(f, 0 .. m) \in Int
    BY <1>0
  <2>2. SumOf(f, 0 .. m) <= SumOf(f, 0 .. m + 0)
    BY <2>1
  <2> QED BY <2>2
<1>2. ASSUME NEW d \in P PROVE d + 1 \in P
  <2> SUFFICES ASSUME m + (d + 1) <= n
               PROVE  SumOf(f, 0 .. m) <= SumOf(f, 0 .. m + (d + 1))
    OBVIOUS
  <2> DEFINE i == m + (d + 1)
  <2>1. i \in Nat /\ i \in 0 .. n /\ i - 1 = m + d /\ i - 1 \in 0 .. n
    OBVIOUS
  <2>2. f[i] \in Nat /\ \A a \in 0 .. i : f[a] \in Int
    BY <2>1
  <2>3. SumOf(f, 0 .. m) <= SumOf(f, 0 .. i - 1)
    BY <2>1
  <2>4. SumOf(f, 0 .. m) \in Int /\ SumOf(f, 0 .. i - 1) \in Int
    BY <1>0, <2>1
  <2> HIDE DEF i
  <2>5. SumOf(f, 0 .. i) = f[i] + SumOf(f, 0 .. i - 1)
    BY <2>1, <2>2, PrefixNext
  <2>6. SumOf(f, 0 .. m) <= SumOf(f, 0 .. i)
    BY <2>2, <2>3, <2>4, <2>5
  <2> QED BY <2>6 DEF i
<1>3. P = Nat
  <2> HIDE DEF P
  <2>1. P \in SUBSET Nat
    BY DEF P
  <2> QED BY <1>1, <1>2, <2>1, NatSet
<1>4. n - m \in Nat /\ m + (n - m) = n
  OBVIOUS
<1>5. n - m \in P
  BY <1>3, <1>4
<1> QED BY <1>4, <1>5


LEMMA LimitsPositive ==
    ASSUME NEW k
    PROVE  Limit(k) \in Nat \ {0} /\ Window(k) \in Nat \ {0}
BY LimitsAssumption DEF Limit, Window

Lower(m, n) == IF m < n THEN m ELSE n

\* One key, of window W and limit L, after n restarts: r is what it got through
\* by age, h its hits, l what is left of its window.  What it got through since
\* the tick in which its window began is at most what its hits allow, and at
\* least that if the tick itself, which may have seen a restart, is counted.
\* The windows that a restart ended before their time, and the one that ran its
\* full time, account for the rest.
Books(r, h, l, W, L, n) ==
    /\ r \in [0 .. W - 1 -> Nat]
    /\ h \in Nat
    /\ l \in 0 .. W
    /\ l = 0 => SumOf(r, 0 .. W - 1) <= L * (1 + n)
    /\ l > 0 => /\ h > 0
                /\ SumOf(r, 0 .. W - l - 1) <= Lower(h, L)
                /\ Lower(h, L) <= SumOf(r, 0 .. W - l)
                /\ SumOf(r, 0 .. W - 1) <= L * (1 + n) + Lower(h, L)

LimiterInv ==
    /\ hits \in [Keys -> Nat]
    /\ left \in [Keys -> Nat]
    /\ restarts \in Nat
    /\ \A k \in Keys : Books(recent[k], hits[k], left[k], Window(k), Limit(k), restarts)

\* A sum over ages is a number.
LEMMA AgesSum ==
    ASSUME NEW W \in Int, NEW r, \A a \in 0 .. W - 1 : r[a] \in Int, NEW n \in Int, n <= W - 1
    PROVE  SumOf(r, 0 .. n) \in Int
<1>1. IsFiniteSet(0 .. n) /\ \A a \in 0 .. n : r[a] \in Int
  BY AgesUpTo
<1> QED BY <1>1, SumType

\* One more that is let through now counts once in every sum that has age 0.
LEMMA OneMore ==
    ASSUME NEW n \in Nat, NEW r, \A a \in 0 .. n : r[a] \in Nat,
           NEW f, f[0] = r[0] + 1, \A a \in 1 .. n : f[a] = r[a]
    PROVE  SumOf(f, 0 .. n) = SumOf(r, 0 .. n) + 1
<1>1. IsFiniteSet(0 .. n) /\ 0 \in 0 .. n
  BY AgesUpTo
<1>2. \A a \in (0 .. n) \ {0} : f[a] = r[a]
  OBVIOUS
<1>3. \A a \in 0 .. n : f[a] \in Int /\ r[a] \in Int
  OBVIOUS
<1>4. SumOf(f, 0 .. n) = SumOf(r, 0 .. n) - r[0] + f[0]
  BY <1>1, <1>2, <1>3, SumChange
<1>5. SumOf(r, 0 .. n) \in Int
  BY <1>1, <1>3, SumType
<1> QED BY <1>1, <1>3, <1>4, <1>5

LEMMA OneMoreRestart ==
    ASSUME NEW L \in Nat, NEW n \in Nat
    PROVE  L * (1 + n) \in Nat /\ L * (1 + (n + 1)) = L * (1 + n) + L /\ L <= L * (1 + n)
<1>1. L * n \in Nat
  OBVIOUS
<1>2. L * (1 + n) = L + L * n
  OBVIOUS
<1>3. L * (1 + (n + 1)) = L + L * n + L
  OBVIOUS
<1> QED BY <1>1, <1>2, <1>3

\* Nothing passed yet, and no window is open.
LEMMA BooksOpen ==
    ASSUME NEW W \in Nat \ {0}, NEW L \in Nat \ {0}
    PROVE  Books([a \in 0 .. W - 1 |-> 0], 0, 0, W, L, 0)
<1> DEFINE r == [a \in 0 .. W - 1 |-> 0]
<1>1. IsFiniteSet(0 .. W - 1) /\ \A a \in 0 .. W - 1 : r[a] = 0
  BY AgesUpTo
<1>2. r \in [0 .. W - 1 -> Nat]
  OBVIOUS
<1> HIDE DEF r
<1>3. SumOf(r, 0 .. W - 1) = 0
  BY <1>1, SumOfZeros
<1>4. L * (1 + 0) = L
  OBVIOUS
<1>5. Books(r, 0, 0, W, L, 0)
  BY <1>2, <1>3, <1>4 DEF Books
<1> QED BY <1>5 DEF r

\* A hit that opens a window passes.
LEMMA BooksFirst ==
    ASSUME NEW W \in Nat \ {0}, NEW L \in Nat \ {0}, NEW n \in Nat, NEW r, NEW h,
           Books(r, h, 0, W, L, n)
    PROVE  Books([r EXCEPT ![0] = @ + 1], 1, W, W, L, n)
<1> DEFINE f == [r EXCEPT ![0] = @ + 1]
<1>1. r \in [0 .. W - 1 -> Nat] /\ SumOf(r, 0 .. W - 1) <= L * (1 + n)
  BY DEF Books
<1>2. 0 \in 0 .. W - 1 /\ f \in [0 .. W - 1 -> Nat] /\ f[0] = r[0] + 1 /\ r[0] \in Nat
  BY <1>1
<1>3. \A a \in 1 .. W - 1 : f[a] = r[a]
  BY <1>1
<1> HIDE DEF f
<1>4. SumOf(f, 0 .. W - 1) = SumOf(r, 0 .. W - 1) + 1
  <2>1. W - 1 \in Nat /\ \A a \in 0 .. W - 1 : r[a] \in Nat
    BY <1>1
  <2> QED BY <1>2, <1>3, <2>1, OneMore
<1>5. SumOf(r, 0 .. W - 1) \in Int
  <2>1. IsFiniteSet(0 .. W - 1) /\ \A a \in 0 .. W - 1 : r[a] \in Int
    BY <1>1, AgesUpTo
  <2> QED BY <2>1, SumType
<1>6. SumOf(f, 0 .. W - W - 1) = 0
  <2>1. 0 .. W - W - 1 = {}
    OBVIOUS
  <2> QED BY <2>1, SumEmpty
<1>7. SumOf(f, 0 .. W - W) >= 1
  <2>1. \A a \in 0 .. 0 : f[a] \in Int
    BY <1>2
  <2>2. SumOf(f, 0 .. 0) = f[0] + SumOf(f, 0 .. 0 - 1)
    BY <2>1, PrefixNext
  <2>3. 0 .. 0 - 1 = {} /\ W - W = 0 /\ SumOf(f, {}) = 0
    BY SumEmpty
  <2>4. SumOf(f, 0 .. 0) = f[0]
    BY <1>2, <2>2, <2>3
  <2> QED BY <1>2, <2>3, <2>4
<1>8. Lower(1, L) = 1 /\ L * (1 + n) \in Nat
  BY OneMoreRestart DEF Lower
<1>9. SumOf(f, 0 .. W - 1) <= L * (1 + n) + Lower(1, L)
  BY <1>1, <1>4, <1>5, <1>8
<1>10. Books(f, 1, W, W, L, n)
  BY <1>2, <1>6, <1>7, <1>8, <1>9 DEF Books
<1> QED BY <1>10 DEF f

\* A hit that passes within the window.
LEMMA BooksPass ==
    ASSUME NEW W \in Nat \ {0}, NEW L \in Nat \ {0}, NEW n \in Nat, NEW r, NEW h, NEW l,
           Books(r, h, l, W, L, n), l # 0, h + 1 <= L
    PROVE  Books([r EXCEPT ![0] = @ + 1], h + 1, l, W, L, n)
<1> DEFINE f == [r EXCEPT ![0] = @ + 1]
<1>1. /\ r \in [0 .. W - 1 -> Nat] /\ h \in Nat /\ l \in 0 .. W
      /\ SumOf(r, 0 .. W - l - 1) <= Lower(h, L)
      /\ Lower(h, L) <= SumOf(r, 0 .. W - l)
      /\ SumOf(r, 0 .. W - 1) <= L * (1 + n) + Lower(h, L)
  BY DEF Books
<1>2. 0 \in 0 .. W - 1 /\ f \in [0 .. W - 1 -> Nat] /\ f[0] = r[0] + 1 /\ r[0] \in Nat
  BY <1>1
<1>3. \A a \in 1 .. W - 1 : f[a] = r[a]
  BY <1>1
<1> HIDE DEF f
<1>4. ASSUME NEW i \in 0 .. W - 1 PROVE SumOf(f, 0 .. i) = SumOf(r, 0 .. i) + 1
  <2>1. i \in Nat /\ (\A a \in 0 .. i : r[a] \in Nat) /\ \A a \in 1 .. i : f[a] = r[a]
    BY <1>1, <1>3
  <2> QED BY <1>2, <2>1, OneMore
<1>5. ASSUME NEW i \in Int, i <= W - 1 PROVE SumOf(r, 0 .. i) \in Int
  <2>1. \A a \in 0 .. W - 1 : r[a] \in Int
    BY <1>1
  <2> QED BY <1>5, <2>1, AgesSum
<1>6. Lower(h + 1, L) = Lower(h, L) + 1 /\ Lower(h, L) \in Nat /\ L * (1 + n) \in Nat
  BY <1>1, OneMoreRestart DEF Lower
<1>7. W - 1 \in 0 .. W - 1 /\ W - l \in 0 .. W - 1
  BY <1>1
<1>8. SumOf(f, 0 .. W - 1) <= L * (1 + n) + Lower(h + 1, L)
  <2>1. SumOf(f, 0 .. W - 1) = SumOf(r, 0 .. W - 1) + 1 /\ SumOf(r, 0 .. W - 1) \in Int
    BY <1>4, <1>5, <1>7
  <2> QED BY <1>1, <1>6, <2>1
<1>9. Lower(h + 1, L) <= SumOf(f, 0 .. W - l)
  <2>1. SumOf(f, 0 .. W - l) = SumOf(r, 0 .. W - l) + 1
    BY <1>4, <1>7
  <2>2. SumOf(r, 0 .. W - l) \in Int
    BY <1>5, <1>7
  <2> QED BY <1>1, <1>6, <2>1, <2>2
<1>10. SumOf(f, 0 .. W - l - 1) <= Lower(h + 1, L)
  <2>1. CASE W - l - 1 < 0
    <3>1. 0 .. W - l - 1 = {}
      BY <1>1, <2>1
    <3>2. SumOf(f, 0 .. W - l - 1) = 0
      BY <3>1, SumEmpty
    <3> QED BY <1>6, <3>2
  <2>2. CASE W - l - 1 >= 0
    <3> DEFINE i == W - l - 1
    <3>1. i \in 0 .. W - 1 /\ i \in Int
      BY <1>1, <2>2
    <3>2. SumOf(r, 0 .. i) <= Lower(h, L)
      BY <1>1
    <3> HIDE DEF i
    <3>3. SumOf(f, 0 .. i) = SumOf(r, 0 .. i) + 1
      BY <1>4, <3>1
    <3>4. SumOf(r, 0 .. i) \in Int
      BY <1>5, <3>1
    <3>5. SumOf(f, 0 .. i) <= Lower(h + 1, L)
      BY <1>6, <3>2, <3>3, <3>4
    <3> QED BY <3>5 DEF i
  <2> QED BY <1>1, <2>1, <2>2
<1>11. Books(f, h + 1, l, W, L, n)
  BY <1>1, <1>2, <1>8, <1>9, <1>10 DEF Books
<1> QED BY <1>11 DEF f

\* A hit that is refused: the limit is reached, and hits count no further.
LEMMA BooksRefuse ==
    ASSUME NEW W \in Nat \ {0}, NEW L \in Nat \ {0}, NEW n \in Nat, NEW r, NEW h, NEW l,
           Books(r, h, l, W, L, n), l # 0, NEW g \in {h, h + 1}, h + 1 > L
    PROVE  Books(r, g, l, W, L, n)
<1>1. h \in Nat /\ g \in Nat /\ g > 0
  BY DEF Books
<1>2. Lower(g, L) = Lower(h, L)
  BY <1>1 DEF Lower
<1> QED BY <1>1, <1>2 DEF Books

\* A restart forgets the window.
LEMMA BooksRestart ==
    ASSUME NEW W \in Nat \ {0}, NEW L \in Nat \ {0}, NEW n \in Nat, NEW r, NEW h, NEW l,
           Books(r, h, l, W, L, n)
    PROVE  Books(r, 0, 0, W, L, n + 1)
<1>1. r \in [0 .. W - 1 -> Nat] /\ h \in Nat /\ l \in 0 .. W
  BY DEF Books
<1>2. SumOf(r, 0 .. W - 1) \in Int
  <2>1. IsFiniteSet(0 .. W - 1) /\ \A a \in 0 .. W - 1 : r[a] \in Int
    BY <1>1, AgesUpTo
  <2> QED BY <2>1, SumType
<1>3. Lower(h, L) \in Nat /\ Lower(h, L) <= L
  BY <1>1 DEF Lower
<1>4. SumOf(r, 0 .. W - 1) <= L * (1 + n) + L
  <2>1. L * (1 + n) \in Nat
    BY OneMoreRestart
  <2>2. SumOf(r, 0 .. W - 1) <= L * (1 + n) \/ SumOf(r, 0 .. W - 1) <= L * (1 + n) + Lower(h, L)
    BY <1>1 DEF Books
  <2> QED BY <1>2, <1>3, <2>1, <2>2
<1>5. SumOf(r, 0 .. W - 1) <= L * (1 + (n + 1))
  BY <1>4, OneMoreRestart
<1>6. 0 \in Nat /\ 0 \in 0 .. W
  OBVIOUS
<1> QED BY <1>1, <1>5, <1>6 DEF Books

\* A tick: everything grows older, and a window may end.
LEMMA BooksTick ==
    ASSUME NEW W \in Nat \ {0}, NEW L \in Nat \ {0}, NEW n \in Nat, NEW r, NEW h, NEW l,
           Books(r, h, l, W, L, n)
    PROVE  Books([a \in 0 .. W - 1 |-> IF a = 0 THEN 0 ELSE r[a - 1]], h,
                 IF l = 0 THEN 0 ELSE l - 1, W, L, n)
<1> DEFINE f == [a \in 0 .. W - 1 |-> IF a = 0 THEN 0 ELSE r[a - 1]]
<1>1. r \in [0 .. W - 1 -> Nat] /\ h \in Nat /\ l \in 0 .. W
  BY DEF Books
<1>2. f \in [0 .. W - 1 -> Nat] /\ f[0] = 0 /\ \A a \in 1 .. W - 1 : f[a] = r[a - 1]
  BY <1>1
<1> HIDE DEF f
<1>3. ASSUME NEW i \in 0 .. W - 1 PROVE SumOf(f, 0 .. i) = SumOf(r, 0 .. i - 1)
  <2>1. /\ i \in Nat /\ (\A a \in 0 .. i : r[a] \in Int /\ f[a] \in Int)
        /\ \A a \in 1 .. i : f[a] = r[a - 1]
    BY <1>1, <1>2
  <2> QED BY <1>2, <2>1, SumShifted
<1>4. ASSUME NEW i \in Int, i <= W - 1 PROVE SumOf(r, 0 .. i) \in Int
  <2>1. \A a \in 0 .. W - 1 : r[a] \in Int
    BY <1>1
  <2> QED BY <1>4, <2>1, AgesSum
<1>5. Lower(h, L) \in Nat /\ Lower(h, L) <= L /\ L * (1 + n) \in Nat /\ L <= L * (1 + n)
  BY <1>1, OneMoreRestart DEF Lower
<1>6. SumOf(f, 0 .. W - 1) = SumOf(r, 0 .. W - 2) /\ SumOf(r, 0 .. W - 2) \in Int
  <2>1. W - 1 \in 0 .. W - 1 /\ (W - 1) - 1 = W - 2 /\ W - 2 \in Int /\ W - 2 <= W - 1
    OBVIOUS
  <2> QED BY <1>3, <1>4, <2>1
<1>7. SumOf(r, 0 .. W - 2) <= SumOf(r, 0 .. W - 1) /\ SumOf(r, 0 .. W - 1) \in Int
  <2>1. W - 1 \in Nat /\ (W - 1) - 1 = W - 2 /\ \A a \in 0 .. W - 1 : r[a] \in Int
    BY <1>1
  <2>2. SumOf(r, 0 .. W - 1) = r[W - 1] + SumOf(r, 0 .. W - 2)
    BY <2>1, PrefixNext
  <2>3. r[W - 1] \in Nat
    BY <1>1
  <2> QED BY <1>6, <2>2, <2>3
<1>8. CASE l = 0
  <2>1. SumOf(r, 0 .. W - 1) <= L * (1 + n)
    BY <1>8 DEF Books
  <2>2. SumOf(f, 0 .. W - 1) <= L * (1 + n)
    BY <1>5, <1>6, <1>7, <2>1
  <2>3. Books(f, h, 0, W, L, n)
    BY <1>1, <1>2, <2>2 DEF Books
  <2> QED BY <1>8, <2>3 DEF f
<1>9. CASE l = 1
  <2>1. SumOf(r, 0 .. W - 2) <= Lower(h, L)
    <3>1. W - l - 1 = W - 2 /\ l > 0
      BY <1>9
    <3> QED BY <3>1 DEF Books
  <2>2. SumOf(f, 0 .. W - 1) <= L * (1 + n)
    BY <1>5, <1>6, <2>1
  <2>3. Books(f, h, 0, W, L, n)
    BY <1>1, <1>2, <2>2 DEF Books
  <2>4. (IF l = 0 THEN 0 ELSE l - 1) = 0
    BY <1>9
  <2> QED BY <2>3, <2>4 DEF f
<1>10. CASE l > 1
  <2>1. /\ h > 0 /\ SumOf(r, 0 .. W - l - 1) <= Lower(h, L) /\ Lower(h, L) <= SumOf(r, 0 .. W - l)
        /\ SumOf(r, 0 .. W - 1) <= L * (1 + n) + Lower(h, L)
    BY <1>10, <1>1 DEF Books
  <2>2. /\ W - (l - 1) - 1 = W - l /\ W - l \in 0 .. W - 1
        /\ W - (l - 1) = W - l + 1 /\ W - l + 1 \in 0 .. W - 1 /\ (W - l + 1) - 1 = W - l
    BY <1>1, <1>10
  <2>3. SumOf(f, 0 .. W - (l - 1) - 1) <= Lower(h, L)
    <3>1. SumOf(f, 0 .. W - l) = SumOf(r, 0 .. W - l - 1)
      BY <1>3, <2>2
    <3> QED BY <2>1, <2>2, <3>1
  <2>4. Lower(h, L) <= SumOf(f, 0 .. W - (l - 1))
    <3>1. SumOf(f, 0 .. W - l + 1) = SumOf(r, 0 .. (W - l + 1) - 1)
      BY <1>3, <2>2
    <3> QED BY <2>1, <2>2, <3>1
  <2>5. SumOf(f, 0 .. W - 1) <= L * (1 + n) + Lower(h, L)
    BY <1>5, <1>6, <1>7, <2>1
  <2>6. l - 1 \in 0 .. W /\ l - 1 # 0
    BY <1>1, <1>10
  <2>7. Books(f, h, l - 1, W, L, n)
    BY <1>1, <1>2, <2>1, <2>3, <2>4, <2>5, <2>6 DEF Books
  <2>8. (IF l = 0 THEN 0 ELSE l - 1) = l - 1
    BY <1>1, <1>10
  <2> QED BY <2>7, <2>8 DEF f
<1> QED BY <1>1, <1>8, <1>9, <1>10

\* A request is counted for the keys of S and let through by those it passes.
LEMMA CountKeeps ==
    ASSUME LimiterInv, NEW S \in SUBSET Keys, NEW P \in SUBSET S,
           \A k \in S : k \in P <=> Passes(k), Count(S, P)
    PROVE  LimiterInv'
<1>1. restarts' = restarts /\ restarts \in Nat
  BY DEF Count, LimiterInv
<1>2. ASSUME NEW k \in Keys
      PROVE  /\ hits'[k] \in Nat /\ left'[k] \in Nat
             /\ Books(recent'[k], hits'[k], left'[k], Window(k), Limit(k), restarts)
  <2>1. Books(recent[k], hits[k], left[k], Window(k), Limit(k), restarts)
    BY DEF LimiterInv
  <2>2. /\ Window(k) \in Nat \ {0} /\ Limit(k) \in Nat \ {0}
        /\ hits[k] \in Nat /\ left[k] \in 0 .. Window(k)
        /\ recent[k] \in [0 .. Window(k) - 1 -> Nat]
    BY <2>1, LimitsPositive DEF Books
  <2>3. /\ hits'[k] = IF k \in S THEN Hits(k) ELSE hits[k]
        /\ left'[k] = IF k \in S THEN Left(k) ELSE left[k]
        /\ recent'[k] = IF k \in P THEN [recent[k] EXCEPT ![0] = @ + 1] ELSE recent[k]
    BY DEF Count
  <2>4. CASE k \notin S
    BY <2>1, <2>2, <2>3, <2>4
  <2>5. CASE k \in S /\ left[k] = 0
    <3>1. Hits(k) = 1 /\ Left(k) = Window(k) /\ k \in P
      BY <2>2, <2>5 DEF Hits, Left, Passes
    <3>2. Books([recent[k] EXCEPT ![0] = @ + 1], 1, Window(k), Window(k), Limit(k), restarts)
      BY <1>1, <2>1, <2>2, <2>5, BooksFirst
    <3> QED BY <2>2, <2>3, <2>5, <3>1, <3>2
  <2>6. CASE k \in S /\ left[k] # 0 /\ k \in P
    <3>1. Hits(k) = hits[k] + 1 /\ hits[k] + 1 <= Limit(k) /\ Left(k) = left[k]
      BY <2>2, <2>6 DEF Hits, Left, Passes
    <3>2. Books([recent[k] EXCEPT ![0] = @ + 1], hits[k] + 1, left[k], Window(k), Limit(k), restarts)
      BY <1>1, <2>1, <2>2, <2>6, <3>1, BooksPass
    <3> QED BY <2>2, <2>3, <2>6, <3>1, <3>2
  <2>7. CASE k \in S /\ left[k] # 0 /\ k \notin P
    <3>1. Hits(k) \in {hits[k], hits[k] + 1} /\ hits[k] + 1 > Limit(k) /\ Left(k) = left[k]
      BY <2>2, <2>7 DEF Hits, Left, Passes
    <3>2. Books(recent[k], Hits(k), left[k], Window(k), Limit(k), restarts)
      BY <1>1, <2>1, <2>2, <2>7, <3>1, BooksRefuse
    <3> QED BY <2>2, <2>3, <2>7, <3>1, <3>2
  <2> QED BY <2>4, <2>5, <2>6, <2>7
<1>3. hits' \in [Keys -> Nat] /\ left' \in [Keys -> Nat]
  BY <1>2 DEF Count
<1>4. \A k \in Keys : Window(k)' = Window(k) /\ Limit(k)' = Limit(k)
  BY DEF Window, Limit
<1> QED BY <1>1, <1>2, <1>3, <1>4 DEF LimiterInv

LEMMA LimiterStarts == LimiterInit => LimiterInv
<1> SUFFICES ASSUME LimiterInit PROVE LimiterInv
  OBVIOUS
<1>1. ASSUME NEW k \in Keys
      PROVE  Books(recent[k], hits[k], left[k], Window(k), Limit(k), restarts)
  <2>1. /\ recent[k] = [a \in 0 .. Window(k) - 1 |-> 0]
        /\ hits[k] = 0 /\ left[k] = 0 /\ restarts = 0
    BY DEF LimiterInit, NoneRecent, Ages
  <2>2. Window(k) \in Nat \ {0} /\ Limit(k) \in Nat \ {0}
    BY LimitsPositive
  <2> QED BY <2>1, <2>2, BooksOpen
<1> QED BY <1>1 DEF LimiterInit, LimiterInv

LEMMA LimiterStep == LimiterInv /\ [LimiterNext]_limiterVars => LimiterInv'
<1> SUFFICES ASSUME LimiterInv, [LimiterNext]_limiterVars PROVE LimiterInv'
  OBVIOUS
<1>0. \A k \in Keys : Window(k)' = Window(k) /\ Limit(k)' = Limit(k)
  BY DEF Window, Limit
<1>1. ASSUME NEW c \in Clients, RefusedGlobally(c) PROVE LimiterInv'
  <2>1. GlobalKey(c) \in Keys
    BY DEF Keys
  <2> QED BY <1>1, <2>1, CountKeeps DEF RefusedGlobally
<1>2. ASSUME NEW c \in Clients, Elsewhere(c) PROVE LimiterInv'
  <2>1. GlobalKey(c) \in Keys
    BY DEF Keys
  <2> QED BY <1>2, <2>1, CountKeeps DEF Elsewhere
<1>3. ASSUME NEW c \in Clients, NEW u \in Users
      PROVE  GlobalKey(c) \in Keys /\ RouteKey(c, u) \in Keys /\ GlobalKey(c) # RouteKey(c, u)
  <2>1. GlobalKey(c) \in Keys /\ RouteKey(c, u) \in Keys
    BY DEF Keys
  <2>2. GlobalKey(c)[1] = "global" /\ RouteKey(c, u)[1] = "route"
    BY DEF GlobalKey, RouteKey
  <2> QED BY <2>1, <2>2
<1>4. ASSUME NEW c \in Clients, NEW u \in Users, RefusedOnRoute(c, u) PROVE LimiterInv'
  <2> DEFINE g == GlobalKey(c)
             k == RouteKey(c, u)
  <2>1. g \in Keys /\ k \in Keys /\ g # k
    BY <1>3
  <2>2. Passes(g) /\ ~Passes(k) /\ Count({g, k}, {g})
    BY <1>4 DEF RefusedOnRoute
  <2> HIDE DEF g, k
  <2>3. {g, k} \in SUBSET Keys /\ {g} \in SUBSET {g, k}
        /\ \A x \in {g, k} : x \in {g} <=> Passes(x)
    BY <2>1, <2>2
  <2> QED BY <2>2, <2>3, CountKeeps
<1>5. ASSUME NEW c \in Clients, NEW u \in Users, Admitted(c, u) PROVE LimiterInv'
  <2> DEFINE g == GlobalKey(c)
             k == RouteKey(c, u)
  <2>1. g \in Keys /\ k \in Keys
    BY <1>3
  <2>2. Passes(g) /\ Passes(k) /\ Count({g, k}, {g, k})
    BY <1>5 DEF Admitted
  <2> HIDE DEF g, k
  <2>3. {g, k} \in SUBSET Keys /\ {g, k} \in SUBSET {g, k}
        /\ \A x \in {g, k} : x \in {g, k} <=> Passes(x)
    BY <2>1, <2>2
  <2> QED BY <2>2, <2>3, CountKeeps
<1>6. CASE Tick
  <2>1. ASSUME NEW k \in Keys
        PROVE  /\ left'[k] \in Nat
               /\ Books(recent'[k], hits'[k], left'[k], Window(k), Limit(k), restarts')
    <3>1. /\ recent'[k] = [a \in 0 .. Window(k) - 1 |-> IF a = 0 THEN 0 ELSE recent[k][a - 1]]
          /\ left'[k] = IF left[k] = 0 THEN 0 ELSE left[k] - 1
          /\ hits' = hits /\ restarts' = restarts
      BY <1>6 DEF Tick, Ages
    <3>2. Books(recent[k], hits[k], left[k], Window(k), Limit(k), restarts) /\ restarts \in Nat
          /\ left[k] \in Nat
      BY DEF LimiterInv
    <3>3. Window(k) \in Nat \ {0} /\ Limit(k) \in Nat \ {0}
      BY LimitsPositive
    <3>4. left'[k] \in Nat
      BY <3>1, <3>2
    <3> QED BY <3>1, <3>2, <3>3, <3>4, BooksTick
  <2>2. hits' \in [Keys -> Nat] /\ left' \in [Keys -> Nat] /\ restarts' \in Nat
    BY <1>6, <2>1 DEF Tick, LimiterInv
  <2> QED BY <1>0, <2>1, <2>2 DEF LimiterInv
<1>7. CASE Restart
  <2>1. ASSUME NEW k \in Keys
        PROVE  Books(recent'[k], hits'[k], left'[k], Window(k), Limit(k), restarts')
    <3>1. recent' = recent /\ left'[k] = 0 /\ hits'[k] = 0 /\ restarts' = restarts + 1
      BY <1>7 DEF Restart
    <3>2. Books(recent[k], hits[k], left[k], Window(k), Limit(k), restarts) /\ restarts \in Nat
      BY DEF LimiterInv
    <3>3. Window(k) \in Nat \ {0} /\ Limit(k) \in Nat \ {0}
      BY LimitsPositive
    <3> QED BY <3>1, <3>2, <3>3, BooksRestart
  <2>2. hits' \in [Keys -> Nat] /\ left' \in [Keys -> Nat] /\ restarts' \in Nat
    BY <1>7 DEF Restart, LimiterInv
  <2> QED BY <1>0, <2>1, <2>2 DEF LimiterInv
<1>8. CASE UNCHANGED limiterVars
  BY <1>0, <1>8 DEF limiterVars, LimiterInv
<1> QED BY <1>1, <1>2, <1>4, <1>5, <1>6, <1>7, <1>8 DEF LimiterNext

\* In any period as long as its window a key gets at most twice its limit
\* through, and once more for each restart of the process, whatever the limits,
\* the windows and the clients are (rateLimiter.ts:9-28, app.ts:18).
THEOREM LimitsHold == LimiterSpec => []WindowBound
<1>1. LimiterInv => WindowBound
  <2> SUFFICES ASSUME LimiterInv, NEW k \in Keys
               PROVE  LetThrough(k) <= Limit(k) * (2 + restarts)
    BY DEF WindowBound
  <2> DEFINE L == Limit(k)
             r == recent[k]
             n == restarts
             h == hits[k]
             s == SumOf(r, 0 .. Window(k) - 1)
  <2>1. LetThrough(k) = s
    BY SumOfValues DEF LetThrough, Ages
  <2>2. Books(r, h, left[k], Window(k), L, n)
    BY DEF LimiterInv
  <2>3. n \in Nat /\ L \in Nat /\ Window(k) \in Nat
    BY LimitsPositive DEF LimiterInv
  <2>4. h \in Nat /\ r \in [0 .. Window(k) - 1 -> Nat] /\ left[k] \in 0 .. Window(k)
    BY <2>2 DEF Books
  <2>5. s <= L * (1 + n) \/ s <= L * (1 + n) + Lower(h, L)
    BY <2>2, <2>4 DEF Books
  <2>6. Lower(h, L) \in Nat /\ Lower(h, L) <= L
    BY <2>3, <2>4 DEF Lower
  <2>7. s \in Int
    <3>1. IsFiniteSet(0 .. Window(k) - 1) /\ \A a \in 0 .. Window(k) - 1 : r[a] \in Int
      BY <2>3, <2>4, AgesUpTo
    <3> HIDE DEF r
    <3> QED BY <3>1, SumType
  <2> HIDE DEF L, n, h, s
  <2>8. L * (1 + n) \in Nat /\ L * (1 + (n + 1)) = L * (1 + n) + L
    BY <2>3, OneMoreRestart
  <2>9. 1 + (n + 1) = 2 + n
    BY <2>3
  <2>10. s <= L * (2 + n)
    <3>1. L * (2 + n) = L * (1 + n) + L
      BY <2>8, <2>9
    <3>2. s <= L * (1 + n) + L
      BY <2>3, <2>5, <2>6, <2>7, <2>8
    <3> QED BY <3>1, <3>2
  <2> QED BY <2>1, <2>10 DEF L, n
<1> QED BY LimiterStarts, LimiterStep, <1>1, PTL DEF LimiterSpec

\* Whoever is refused had the whole limit within one window, whatever the limits,
\* the windows and the clients are (rateLimiter.ts:9-28).
THEOREM RefusalsDeserved == LimiterSpec => []RefusedForCause
<1>1. LimiterInv => RefusedForCause
  <2> SUFFICES ASSUME LimiterInv, NEW k \in Keys, Over(k)
               PROVE  LetThrough(k) >= Limit(k)
    BY DEF RefusedForCause
  <2> DEFINE L == Limit(k)
             W == Window(k)
             r == recent[k]
             l == left[k]
             h == hits[k]
  <2>1. LetThrough(k) = SumOf(r, 0 .. W - 1)
    BY SumOfValues DEF LetThrough, Ages
  <2>2. Books(r, h, l, W, L, restarts) /\ l > 0 /\ h > L
    BY DEF LimiterInv, Over
  <2>3. L \in Nat /\ W \in Nat \ {0}
    BY LimitsPositive
  <2> HIDE DEF L, W, r, l, h
  <2>4. h \in Nat /\ r \in [0 .. W - 1 -> Nat] /\ l \in 0 .. W
    BY <2>2 DEF Books
  <2>5. Lower(h, L) = L /\ L <= SumOf(r, 0 .. W - l)
    BY <2>2, <2>3, <2>4 DEF Books, Lower
  <2>6. W - 1 \in Nat /\ W - l \in 0 .. W - 1 /\ \A a \in 0 .. W - 1 : r[a] \in Nat
    BY <2>2, <2>3, <2>4
  <2>7. SumOf(r, 0 .. W - l) <= SumOf(r, 0 .. W - 1)
    BY <2>6, PrefixGrows
  <2>8. SumOf(r, 0 .. W - l) \in Int /\ SumOf(r, 0 .. W - 1) \in Int
    <3>1. ASSUME NEW i \in 0 .. W - 1 PROVE SumOf(r, 0 .. i) \in Int
      <4>1. IsFiniteSet(0 .. i) /\ \A a \in 0 .. i : r[a] \in Int
        BY <2>6, AgesUpTo
      <4> QED BY <4>1, SumType
    <3>2. W - 1 \in 0 .. W - 1
      BY <2>3
    <3> QED BY <2>6, <3>1, <3>2
  <2>9. SumOf(r, 0 .. W - 1) >= L
    BY <2>3, <2>5, <2>7, <2>8
  <2> QED BY <2>1, <2>9 DEF L
<1> QED BY LimiterStarts, LimiterStep, <1>1, PTL DEF LimiterSpec


-----------------------------------------------------------------------------
(* The queries of the history *)

\* How many rows of S are newer than row i.
Rank(S) == [i \in S |-> Cardinality({j \in S : Newer(j, i)})]

\* Of two rows one is newer.
LEMMA NewerOrders ==
    ASSUME NEW i \in Ids, NEW j \in Ids
    PROVE  /\ ~(Newer(i, j) /\ Newer(j, i))
           /\ i = j \/ Newer(i, j) \/ Newer(j, i)
           /\ \A k \in Ids : Newer(i, j) /\ Newer(j, k) => Newer(i, k)
<1>1. \A k \in Ids : k \in Nat /\ Table[k].at \in Nat
  BY TableAssumption DEF Ids
<1>2. ~(Newer(i, j) /\ Newer(j, i))
  BY <1>1 DEF Newer
<1>3. i = j \/ Newer(i, j) \/ Newer(j, i)
  BY <1>1 DEF Newer
<1>4. ASSUME NEW k \in Ids, Newer(i, j), Newer(j, k) PROVE Newer(i, k)
  <2>1. /\ i \in Nat /\ j \in Nat /\ k \in Nat
        /\ Table[i].at \in Nat /\ Table[j].at \in Nat /\ Table[k].at \in Nat
    BY <1>1
  <2> QED BY <1>4, <2>1 DEF Newer
<1> QED BY <1>2, <1>3, <1>4

LEMMA IdsFinite == ASSUME NEW S \in SUBSET Ids PROVE IsFiniteSet(S) /\ Cardinality(S) \in Nat
<1>1. IsFiniteSet(Ids)
  BY TableAssumption, FS_Interval
<1>2. IsFiniteSet(S)
  BY <1>1, FS_Subset
<1> QED BY <1>2, FS_CardinalityType

\* Whoever is newer has the smaller rank, and every rank is taken.
LEMMA RankCounts ==
    ASSUME NEW S \in SUBSET Ids
    PROVE  /\ \A i, j \in S : Rank(S)[i] < Rank(S)[j] <=> Newer(i, j)
           /\ \A i, j \in S : Rank(S)[i] = Rank(S)[j] => i = j
           /\ \A i \in S : Rank(S)[i] \in 0 .. Cardinality(S) - 1
           /\ \A n \in 0 .. Cardinality(S) - 1 : \E i \in S : Rank(S)[i] = n
<1> DEFINE N(i) == {j \in S : Newer(j, i)}
           R == Rank(S)
           n == Cardinality(S)
<1>0. IsFiniteSet(S) /\ n \in Nat
  BY IdsFinite
<1>1. \A i \in S : R[i] = Cardinality(N(i))
  BY DEF Rank
<1>2. ASSUME NEW i \in S PROVE R[i] \in 0 .. n - 1
  <2>1. N(i) \in SUBSET S /\ i \notin N(i)
    BY NewerOrders
  <2> HIDE DEF N, R
  <2>2. N(i) # S
    BY <2>1
  <2>3. Cardinality(N(i)) \in Nat
    BY <2>1, IdsFinite
  <2>4. Cardinality(N(i)) <= Cardinality(S) /\ Cardinality(N(i)) # Cardinality(S)
    BY <1>0, <2>1, <2>2, FS_Subset
  <2> QED BY <1>0, <1>1, <2>3, <2>4
<1>3. ASSUME NEW i \in S, NEW j \in S, Newer(i, j) PROVE R[i] < R[j]
  <2>1. N(i) \in SUBSET N(j) /\ i \in N(j) /\ i \notin N(i)
    BY <1>3, NewerOrders
  <2>2. N(j) \in SUBSET Ids
    OBVIOUS
  <2> HIDE DEF N, R
  <2>3. IsFiniteSet(N(j)) /\ N(i) # N(j) /\ Cardinality(N(j)) \in Nat
    BY <2>1, <2>2, IdsFinite
  <2>4. Cardinality(N(i)) <= Cardinality(N(j)) /\ Cardinality(N(i)) # Cardinality(N(j))
    BY <2>1, <2>3, FS_Subset
  <2>5. Cardinality(N(i)) \in Nat
    BY <2>1, <2>2, IdsFinite
  <2> QED BY <1>1, <2>3, <2>4, <2>5
<1> HIDE DEF R, N
<1>4. ASSUME NEW i \in S, NEW j \in S PROVE (R[i] < R[j] <=> Newer(i, j)) /\ (R[i] = R[j] => i = j)
  <2>1. R[i] \in Int /\ R[j] \in Int
    BY <1>2
  <2>2. i = j \/ Newer(i, j) \/ Newer(j, i)
    BY NewerOrders
  <2>3. ~(Newer(i, j) /\ Newer(j, i))
    BY NewerOrders
  <2> QED BY <1>3, <2>1, <2>2, <2>3
<1>5. ASSUME NEW m \in 0 .. n - 1 PROVE \E i \in S : R[i] = m
  <2> DEFINE T == 0 .. n - 1
  <2>1. IsFiniteSet(T) /\ Cardinality(T) = n
    BY <1>0, FS_Interval
  <2>2. R \in [S -> T]
    BY <1>2 DEF R, Rank
  <2>3. R \in Injection(S, T)
    BY <1>4, <2>2 DEF Injection, IsInjective
  <2>4. R \in Surjection(S, T)
    BY <2>1, <2>3, FS_Injection
  <2> QED BY <2>4 DEF Surjection
<1> QED BY <1>2, <1>4, <1>5 DEF R

\* Ordered lists every row of S once, the newest first.
LEMMA OrderedSorts ==
    ASSUME NEW S \in SUBSET Ids
    PROVE  /\ Ordered(S) \in [1 .. Cardinality(S) -> S]
           /\ \A k, l \in 1 .. Cardinality(S) : k < l <=> Newer(Ordered(S)[k], Ordered(S)[l])
           /\ \A i \in S : \E k \in 1 .. Cardinality(S) : Ordered(S)[k] = i
<1> DEFINE n == Cardinality(S)
           R == Rank(S)
           all == Ordered(S)
<1>0. n \in Nat
  BY IdsFinite
<1>1. \A k \in 1 .. n : all[k] = CHOOSE i \in S : R[i] = k - 1
  BY DEF Ordered, Rank
<1>1a. DOMAIN all = 1 .. n /\ all = [k \in 1 .. n |-> all[k]]
  BY DEF Ordered
<1> HIDE DEF all, R
<1>2. ASSUME NEW k \in 1 .. n PROVE all[k] \in S /\ R[all[k]] = k - 1
  <2>1. k - 1 \in 0 .. n - 1
    BY <1>0
  <2>2. \E i \in S : R[i] = k - 1
    BY <2>1, RankCounts DEF R
  <2> QED BY <1>1, <2>2
<1>3. all \in [1 .. n -> S]
  BY <1>1a, <1>2
<1>4. ASSUME NEW k \in 1 .. n, NEW l \in 1 .. n PROVE k < l <=> Newer(all[k], all[l])
  <2>1. R[all[k]] < R[all[l]] <=> Newer(all[k], all[l])
    BY <1>2, RankCounts DEF R
  <2>2. R[all[k]] = k - 1 /\ R[all[l]] = l - 1
    BY <1>2
  <2> QED BY <2>1, <2>2
<1>5. ASSUME NEW i \in S PROVE \E k \in 1 .. n : all[k] = i
  <2>1. R[i] \in 0 .. n - 1
    BY RankCounts DEF R
  <2>2. R[i] + 1 \in 1 .. n /\ (R[i] + 1) - 1 = R[i]
    BY <1>0, <2>1
  <2>3. all[R[i] + 1] \in S /\ R[all[R[i] + 1]] = R[i]
    BY <1>2, <2>2
  <2>4. all[R[i] + 1] = i
    BY <2>3, RankCounts DEF R
  <2> QED BY <2>2, <2>4
<1> QED BY <1>3, <1>4, <1>5 DEF all


\* The rows that an answer is a page of.
Chosen == {i \in Ids : Selected(Filters(caller, query), Table[i])}

QueryInv ==
    /\ query \in Queries
    /\ \/ answer = None
       \/ answer = [code |-> 400]
       \/ Valid(query) /\ answer = FindWithFilters(Filters(caller, query), Pagination(query))

LEMMA QueryStarts == QueryInit => QueryInv
BY DEF QueryInit, QueryInv

LEMMA QueryStep == QueryInv /\ [QueryNext]_queryVars => QueryInv'
<1> SUFFICES ASSUME QueryInv, [QueryNext]_queryVars PROVE QueryInv'
  OBVIOUS
<1>1. CASE GetTransactions
  <2>1. query' = query /\ caller' = caller
    BY <1>1 DEF GetTransactions
  <2>2. Valid(query)' /\ answer' = FindWithFilters(Filters(caller', query'), Pagination(query'))
    BY <1>1, <2>1 DEF GetTransactions, Valid
  <2> QED BY <2>1, <2>2 DEF QueryInv
<1>2. CASE RefuseQuery
  BY <1>2 DEF RefuseQuery, QueryInv
<1>3. CASE UNCHANGED queryVars
  BY <1>3 DEF queryVars, QueryInv
<1> QED BY <1>1, <1>2, <1>3 DEF QueryNext

\* What an answer consists of.
LEMMA AnswerIs ==
    ASSUME QueryInv, Served
    PROVE  LET all == Ordered(Chosen)
               shown == Min({Cardinality(Chosen), PageSize(query)})
           IN  /\ Valid(query)
               /\ Chosen \in SUBSET Ids
               /\ all \in [1 .. Cardinality(Chosen) -> Chosen]
               /\ answer.total = Cardinality(Chosen)
               /\ shown \in 0 .. Cardinality(Chosen)
               /\ shown \in {Cardinality(Chosen), PageSize(query)}
               /\ answer.ids = [k \in 1 .. shown |-> all[k]]
<1> DEFINE all == Ordered(Chosen)
           n == Cardinality(Chosen)
           size == PageSize(query)
           shown == Min({n, size})
           f == Filters(caller, query)
           p == Pagination(query)
<1>1. Valid(query) /\ answer = FindWithFilters(f, p)
  <2>1. [code |-> 400].code = 400
    OBVIOUS
  <2> QED BY <2>1 DEF QueryInv, Served
<1>2. Chosen \in SUBSET Ids /\ n \in Nat /\ all \in [1 .. n -> Chosen]
  BY IdsFinite, OrderedSorts DEF Chosen
<1>3. size \in Nat \ {0}
  BY <1>1 DEF Valid, PageSize
<1>4. shown \in {n, size} /\ shown \in 0 .. n
  <2>1. \E x \in {n, size} : \A y \in {n, size} : x <= y
    BY <1>2, <1>3
  <2>2. shown \in {n, size} /\ \A y \in {n, size} : shown <= y
    BY <2>1 DEF Min
  <2> QED BY <1>2, <1>3, <2>2
<1>5. Page(p) = 1 /\ PageSize(p) = size
  BY DEF Page, PageSize, Pagination
<1>6. Ordered({i \in Ids : Selected(f, Table[i])}) = all
  BY DEF Chosen
<1>7. Len(all) = n /\ all \in Seq(Chosen)
  BY <1>2
<1>8. (1 - 1) * size = 0 /\ 0 + 1 = 1 /\ 0 + size = size
  BY <1>3
<1>9. answer.total = n /\ answer.ids = SubSeq(all, 1, shown)
  <2> HIDE DEF all, n, f, p, size
  <2> QED BY <1>1, <1>5, <1>6, <1>7, <1>8 DEF FindWithFilters
<1>10. SubSeq(all, 1, shown) = [k \in 1 .. shown |-> all[k]]
  <2> HIDE DEF all, n, shown
  <2>1. shown \in Nat /\ 1 \in 1 .. Len(all) + 1 /\ shown \in 1 - 1 .. Len(all)
    BY <1>2, <1>4, <1>7
  <2>2. Len(SubSeq(all, 1, shown)) = shown /\ SubSeq(all, 1, shown) \in Seq(Chosen)
    BY <1>7, <2>1
  <2>3. \A k \in 1 .. shown : SubSeq(all, 1, shown)[k] = all[k]
    BY <1>7, <2>1
  <2> QED BY <2>1, <2>2, <2>3
<1> QED BY <1>1, <1>2, <1>4, <1>9, <1>10


\* Half a kobo to and fro: a row within the bounds in kobo is within those in the
\* query but for the slack, and a row well within the latter is within the former.
LEMMA BoundsMeant ==
    ASSUME NEW a \in Nat, NEW x \in Nat
    PROVE  /\ a >= Kobo(x) => 10 * a >= x - 5
           /\ a <= Kobo(x) => 10 * a <= x + 5
           /\ Kobo(x) = 0 => 10 * a >= x - 5
           /\ 10 * a >= x - (-5) => a >= Kobo(x)
           /\ 10 * a <= x + (-5) => a <= Kobo(x)
<1>1. Kobo(x) \in Int /\ 10 * Kobo(x) - x \in -5 .. 5
  BY KoboNearest
<1> DEFINE k == Kobo(x)
<1>2. k \in Int /\ 10 * k - x >= -5 /\ 10 * k - x <= 5
  BY <1>1
<1> HIDE DEF k
<1>3. /\ a >= k => 10 * a >= x - 5
      /\ a <= k => 10 * a <= x + 5
      /\ k = 0 => 10 * a >= x - 5
  BY <1>2
<1>4. /\ 10 * a >= x - (-5) => a >= k
      /\ 10 * a <= x + (-5) => a <= k
  BY <1>2
<1> QED BY <1>3, <1>4 DEF k

LEMMA SelectedIsMeant ==
    ASSUME query \in Queries, Valid(query), NEW i \in Ids
    PROVE  /\ Selected(Filters(caller, query), Table[i]) /\ MaxCounts => Meant(Table[i], 5)
           /\ Meant(Table[i], -5) => Selected(Filters(caller, query), Table[i])
<1> DEFINE row == Table[i]
           f == Filters(caller, query)
<1>1. row.amount \in Nat /\ row.at \in Nat
  BY TableAssumption
<1>2. /\ query.min = None \/ query.min \in Nat
      /\ query.max = None \/ query.max \in Nat
  BY QueriesAssumption DEF Valid
<1>3. /\ f.user = caller /\ f.type = query.type /\ f.status = query.status
      /\ f.from = query.from /\ f.to = query.to
      /\ f.min = InKobo(query.min) /\ f.max = InKobo(query.max)
  BY DEF Filters
<1>4. /\ query.min # None => f.min = Kobo(query.min) /\ f.min # None
      /\ query.max # None => f.max = Kobo(query.max) /\ f.max # None
  BY <1>2, <1>3, KoboNearest, NothingAssumption DEF InKobo
<1>5. /\ query.min = None => f.min = None
      /\ query.max = None => f.max = None
  BY <1>3 DEF InKobo
<1> HIDE DEF row, f
<1>6. ASSUME Selected(f, row), MaxCounts PROVE Meant(row, 5)
  <2>1. query.min = None \/ 10 * row.amount >= query.min - 5
    <3> SUFFICES ASSUME query.min # None PROVE 10 * row.amount >= query.min - 5
      OBVIOUS
    <3>1. Kobo(query.min) = 0 \/ row.amount >= Kobo(query.min)
      BY <1>4, <1>6 DEF Selected, Given
    <3> QED BY <1>1, <1>2, <3>1, BoundsMeant
  <2>2. query.max = None \/ 10 * row.amount <= query.max + 5
    <3> SUFFICES ASSUME query.max # None PROVE 10 * row.amount <= query.max + 5
      OBVIOUS
    <3>1. row.amount <= Kobo(query.max)
      BY <1>4, <1>6 DEF Selected, Given, MaxCounts
    <3> QED BY <1>1, <1>2, <3>1, BoundsMeant
  <2>3. row.user = caller /\ query.type \in {None, row.type} /\ query.status \in {None, row.status}
    BY <1>3, <1>6 DEF Selected
  <2>4. Between(row.at, query.from, query.to)
    BY <1>3, <1>6 DEF Selected, Between
  <2> QED BY <2>1, <2>2, <2>3, <2>4 DEF Meant
<1>7. ASSUME Meant(row, -5) PROVE Selected(f, row)
  <2>1. Given(f.min) => row.amount >= f.min
    <3> SUFFICES ASSUME Given(f.min) PROVE row.amount >= f.min
      OBVIOUS
    <3>1. query.min # None /\ f.min = Kobo(query.min)
      BY <1>4, <1>5 DEF Given
    <3>2. 10 * row.amount >= query.min - (-5)
      BY <1>7, <3>1 DEF Meant
    <3> QED BY <1>1, <1>2, <3>1, <3>2, BoundsMeant
  <2>2. Given(f.max) => row.amount <= f.max
    <3> SUFFICES ASSUME Given(f.max) PROVE row.amount <= f.max
      OBVIOUS
    <3>1. query.max # None /\ f.max = Kobo(query.max)
      BY <1>4, <1>5 DEF Given
    <3>2. 10 * row.amount <= query.max + (-5)
      BY <1>7, <3>1 DEF Meant
    <3> QED BY <1>1, <1>2, <3>1, <3>2, BoundsMeant
  <2>3. /\ row.user = f.user
        /\ f.type # None => row.type = f.type
        /\ f.status # None => row.status = f.status
    BY <1>3, <1>7 DEF Meant
  <2>4. (f.from # None => row.at >= f.from) /\ (f.to # None => row.at <= f.to)
    BY <1>3, <1>7 DEF Meant, Between
  <2> QED BY <2>1, <2>2, <2>3, <2>4 DEF Selected
<1> QED BY <1>6, <1>7 DEF row, f

\* Every row shown is one the query means and the total counts all that are
\* meant, up to half a kobo, for any table and any query that zod lets through
\* (transaction.repo.ts:63-124, transaction.controller.ts:24-91).
THEOREM AnswersMeant == QuerySpec => []AnswerMeant
<1>1. QueryInv => AnswerMeant
  <2> SUFFICES ASSUME QueryInv, Served, MaxCounts
      PROVE  /\ \A k \in DOMAIN answer.ids : Meant(Table[answer.ids[k]], 5)
             /\ Cardinality({i \in Ids : Meant(Table[i], -5)}) <= answer.total
             /\ answer.total <= Cardinality({i \in Ids : Meant(Table[i], 5)})
    BY DEF AnswerMeant
  <2> DEFINE n == Cardinality(Chosen)
             shown == Min({n, PageSize(query)})
             all == Ordered(Chosen)
  <2>1. /\ Valid(query) /\ Chosen \in SUBSET Ids /\ all \in [1 .. n -> Chosen]
        /\ answer.total = n /\ shown \in 0 .. n /\ answer.ids = [k \in 1 .. shown |-> all[k]]
    BY AnswerIs
  <2>2. \A i \in Chosen : Meant(Table[i], 5)
    BY <2>1, SelectedIsMeant DEF QueryInv, Chosen
  <2>3. \A i \in Ids : Meant(Table[i], -5) => i \in Chosen
    BY <2>1, SelectedIsMeant DEF QueryInv, Chosen
  <2>4. IsFiniteSet(Chosen) /\ n \in Nat
    BY <2>1, IdsFinite
  <2> HIDE DEF n, shown, all
  <2>5. ASSUME NEW k \in DOMAIN answer.ids PROVE Meant(Table[answer.ids[k]], 5)
    <3>1. k \in 1 .. n /\ answer.ids[k] = all[k]
      BY <2>1, <2>4
    <3>2. all[k] \in Chosen
      BY <2>1, <3>1
    <3> QED BY <2>2, <3>1, <3>2
  <2>6. Cardinality({i \in Ids : Meant(Table[i], -5)}) <= n
    <3> DEFINE T == {i \in Ids : Meant(Table[i], -5)}
    <3>1. T \in SUBSET Chosen
      BY <2>3
    <3> HIDE DEF T
    <3>2. Cardinality(T) <= Cardinality(Chosen)
      BY <2>4, <3>1, FS_Subset
    <3> QED BY <3>2 DEF T, n
  <2>7. n <= Cardinality({i \in Ids : Meant(Table[i], 5)})
    <3> DEFINE T == {i \in Ids : Meant(Table[i], 5)}
    <3>1. Chosen \in SUBSET T /\ T \in SUBSET Ids
      BY <2>1, <2>2
    <3> HIDE DEF T
    <3>2. IsFiniteSet(T)
      BY <3>1, IdsFinite
    <3>3. Cardinality(Chosen) <= Cardinality(T)
      BY <3>1, <3>2, FS_Subset
    <3> QED BY <3>3 DEF T, n
  <2> QED BY <2>1, <2>5, <2>6, <2>7
<1> QED BY QueryStarts, QueryStep, <1>1, PTL DEF QuerySpec

\* The first page is a gapless beginning of what is meant, the newest first and also
\* ordered among rows of one moment, for any table and any query that zod lets
\* through (transaction.repo.ts:98-107).
THEOREM PagesAreNewest == QuerySpec => []PageIsNewest
<1>1. QueryInv => PageIsNewest
  <2> SUFFICES ASSUME QueryInv, Served
      PROVE  /\ Len(answer.ids) = Min({answer.total, PageSize(query)})
             /\ \A k, l \in DOMAIN answer.ids : k < l => Newer(answer.ids[k], answer.ids[l])
             /\ \A i \in Ids :
                  /\ Meant(Table[i], -5)
                  /\ \E k \in DOMAIN answer.ids : Table[i].at > Table[answer.ids[k]].at
                  => \E k \in DOMAIN answer.ids : answer.ids[k] = i
    BY DEF PageIsNewest
  <2> DEFINE n == Cardinality(Chosen)
             shown == Min({n, PageSize(query)})
             all == Ordered(Chosen)
  <2>1. /\ Valid(query) /\ Chosen \in SUBSET Ids /\ all \in [1 .. n -> Chosen]
        /\ answer.total = n /\ shown \in 0 .. n /\ answer.ids = [k \in 1 .. shown |-> all[k]]
    BY AnswerIs
  <2>2. n \in Nat
    BY <2>1, IdsFinite
  <2>3. \A k, l \in 1 .. n : k < l <=> Newer(all[k], all[l])
    BY <2>1, OrderedSorts
  <2>4. \A i \in Chosen : \E k \in 1 .. n : all[k] = i
    BY <2>1, OrderedSorts
  <2>5. \A i \in Ids : Meant(Table[i], -5) => i \in Chosen
    BY <2>1, SelectedIsMeant DEF QueryInv, Chosen
  <2>6. Min({answer.total, PageSize(query)}) = shown
    BY <2>1
  <2> HIDE DEF n, shown, all
  <2>7. /\ DOMAIN answer.ids = 1 .. shown /\ Len(answer.ids) = shown
        /\ \A k \in 1 .. shown : k \in 1 .. n /\ answer.ids[k] = all[k]
    BY <2>1, <2>2
  <2>8. ASSUME NEW k \in 1 .. shown, NEW l \in 1 .. shown, k < l
        PROVE  Newer(answer.ids[k], answer.ids[l])
    BY <2>3, <2>7, <2>8
  <2>9. ASSUME NEW i \in Ids, Meant(Table[i], -5), NEW k \in 1 .. shown,
               Table[i].at > Table[answer.ids[k]].at
        PROVE  \E l \in 1 .. shown : answer.ids[l] = i
    <3>1. PICK l \in 1 .. n : all[l] = i
      BY <2>4, <2>5, <2>9
    <3>2. Newer(all[l], all[k]) /\ k \in 1 .. n
      BY <2>7, <2>9, <3>1 DEF Newer
    <3>3. l < k
      BY <2>3, <3>2
    <3>4. l \in 1 .. shown
      BY <2>1, <2>2, <3>3
    <3> QED BY <2>7, <3>1, <3>4
  <2> QED BY <2>6, <2>7, <2>8, <2>9
<1> QED BY QueryStarts, QueryStep, <1>1, PTL DEF QuerySpec

=============================================================================
