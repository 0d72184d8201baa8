------------------------------ MODULE ApiProofs ------------------------------
(***************************************************************************)
(* Proofs about Api.  A request that the middleware has not let through    *)
(* has not called its service, and what its service is doing is what its   *)
(* body asked for.  So the keys of Idempotency protect the services: two   *)
(* confirmations of one transaction have one key, one of them at a time is *)
(* handled, and the next finds that the transaction is not pending.        *)
(***************************************************************************)
EXTENDS Api, BankProofs

\* confirmDeposit may complete the key of the deposit's owner as well.  Nobody
\* has that key if transactions are confirmed by one caller, so Idempotency,
\* which has no such effect, sees all the others.
OwnEffects == {e \in effects : e.key = ask[e.by].key}
KP == INSTANCE IdempotencyProofs WITH effects <- OwnEffects

LEMMA KeysAssumed == KP!IdempotencyAssumption /\ KP!NoneAssumption
BY KeyedAssumption DEF KP!IdempotencyAssumption, KP!NoneAssumption, KP!KeyRow, KP!Reply,
   Keyed!KeyRow, Keyed!Reply

KInv == KP!IInv /\ KP!ReplayFaithful /\ KP!DoneCommitted

\* Where a request is in the middleware, and where in its service.
Staged(r) ==
    /\ phase[r] \in {"new", "recheck", "clear", "insert"} => pc[r] = "new"
    /\ Active(r) => phase[r] = "handling"
    /\ pc[r] = "ok" <=> r \in committed

AskOf(c) == [key |-> <<c.caller, c.name>>, body |-> Validated(c.body)]
Asked(r) == ask[r] # None => \E c \in Calls : ask[r] = AskOf(c)

\* The service does what the body says.
Serving(r) ==
    /\ job[r] # None =>
         /\ ask[r] # None
         /\ job[r].op \in Confirming =>
              ask[r].body.op \in Confirmations /\ job[r].txn = ask[r].body.txn
         /\ job[r].op = "confirmDeposit" <=> ask[r].body.op = "confirmDeposit"
    /\ pc[r] = "ok" /\ job[r] = None => ask[r] # None /\ ask[r].body.op = "deposit"

\* An effect is on the key of its request, or on that of a deposit's owner.
EffectKnown(e) ==
    /\ e.by \in Requests /\ ask[e.by] # None
    /\ e.key # ask[e.by].key =>
         /\ e.kind = "complete" /\ ask[e.by].body.op \in Confirmations
         /\ e.key \in Keys /\ e.key[2] = ask[e.by].key[2]

AInv ==
    /\ RInv /\ KInv
    /\ \A r \in Requests : Staged(r) /\ Asked(r) /\ Serving(r)
    /\ \A e \in effects : EffectKnown(e)

-----------------------------------------------------------------------------
(* Calls *)

LEMMA CallFacts ==
    ASSUME NEW c \in Calls
    PROVE  /\ <<c.caller, c.name>> \in Keys /\ Validated(c.body) \in Bodies
           /\ AskOf(c).key = <<c.caller, c.name>> /\ AskOf(c).body = Validated(c.body)
           /\ Validated(c.body).op = c.body.op /\ Validated(c.body).user = c.body.user
           /\ Validated(c.body).peer = c.body.peer /\ Validated(c.body).amount = c.body.amount
           /\ Validated(c.body).txn = c.body.txn
           /\ c.body.op \in {"deposit", "withdraw", "transfer"} \union Confirmations
           /\ c.body.user \in Users /\ c.body.peer \in Users \union {Stranger}
           /\ c.body.amount \in Amounts
           /\ c.body.op \in Confirmations => c.body.txn \in TxnIds /\ c.name = c.body.txn
<1>1. /\ c.caller \in Callers /\ c.name \in TxnIds \union Names /\ c.body \in CallBody
      /\ c.body.op \in Confirmations => c.body.txn \in TxnIds /\ c.name = c.body.txn
  BY CallsAssumption
<1>2. <<c.caller, c.name>> \in Keys /\ Validated(c.body) \in Bodies
  BY <1>1 DEF Keys, Bodies
<1>3. /\ Validated(c.body).op = c.body.op /\ Validated(c.body).user = c.body.user
      /\ Validated(c.body).peer = c.body.peer /\ Validated(c.body).amount = c.body.amount
      /\ Validated(c.body).txn = c.body.txn
  BY <1>1 DEF Validated, CallBody
<1> QED BY <1>1, <1>2, <1>3 DEF AskOf, CallBody

\* What a request has asked for.
LEMMA AskFacts ==
    ASSUME NEW r \in Requests, ask[r] # None, Asked(r)
    PROVE  /\ ask[r].key \in Keys /\ ask[r].body \in Bodies /\ ask[r].key[1] \in Callers
           /\ ask[r].key = <<ask[r].key[1], ask[r].key[2]>>
           /\ ask[r].body.op \in {"deposit", "withdraw", "transfer"} \union Confirmations
           /\ ask[r].body.user \in Users /\ ask[r].body.peer \in Users \union {Stranger}
           /\ ask[r].body.amount \in Amounts
           /\ ask[r].body.op \in Confirmations =>
                ask[r].body.txn \in TxnIds /\ ask[r].key[2] = ask[r].body.txn
<1>1. PICK c \in Calls : ask[r] = AskOf(c)
  BY DEF Asked
<1>2. c.caller \in Callers
  BY CallsAssumption
<1>3. ask[r].key = <<c.caller, c.name>> /\ ask[r].body = Validated(c.body)
  BY <1>1, CallFacts
<1> QED BY <1>2, <1>3, CallFacts

\* Requests with the name of a confirmed transaction have the key of its
\* confirmation.
LEMMA SameConfirmer ==
    ASSUME OneConfirmer(Calls), NEW q \in Requests, NEW r \in Requests, Asked(q), Asked(r),
           ask[q] # None, ask[r] # None, ask[q].body.op \in Confirmations,
           ask[r].key[2] = ask[q].key[2]
    PROVE  ask[r].key = ask[q].key
<1>1. PICK c \in Calls : ask[q] = AskOf(c)
  BY DEF Asked
<1>2. PICK d \in Calls : ask[r] = AskOf(d)
  BY DEF Asked
<1>3. /\ ask[q].key = <<c.caller, c.name>> /\ ask[q].body.op = c.body.op
      /\ ask[r].key = <<d.caller, d.name>>
  BY <1>1, <1>2, CallFacts
<1> QED BY <1>3 DEF OneConfirmer

-----------------------------------------------------------------------------
(* The middleware: a step of the key table is one of Idempotency *)

\* An effect on a key of another user meets no row.
LEMMA ForeignKey ==
    ASSUME AInv, OneConfirmer(Calls), NEW e \in effects, e.key # ask[e.by].key
    PROVE  e.kind = "complete" /\ rows[e.key] = None
<1>1. /\ e.by \in Requests /\ ask[e.by] # None /\ e.kind = "complete" /\ e.key \in Keys
      /\ ask[e.by].body.op \in Confirmations /\ e.key[2] = ask[e.by].key[2]
  BY DEF AInv, EffectKnown
<1>2. ASSUME rows[e.key] # None PROVE FALSE
  <2>1. /\ rows[e.key].id \in Requests /\ ask[rows[e.key].id].key = e.key
        /\ phase[rows[e.key].id] # "new"
    BY <1>1, <1>2, KeysAssumed, KP!RowOwner DEF AInv, KInv
  <2>2. PICK q \in Requests : ask[q].key = e.key /\ phase[q] # "new"
    BY <2>1
  <2>3. ask[q] # None
    BY <2>2 DEF AInv, KInv, KP!IInv, KP!RowsOwned, KP!AskKnown
  <2> QED BY <1>1, <2>2, <2>3, SameConfirmer DEF AInv
<1> QED BY <1>1, <1>2

\* The effects that Idempotency sees stay, while no request with effects asks.
LEMMA SameEffects ==
    ASSUME \A e \in effects : ask'[e.by] = ask[e.by], effects' = effects
    PROVE  OwnEffects' = OwnEffects
BY DEF OwnEffects

LEMMA SendKeyed ==
    ASSUME AInv, NEW r \in Requests, Send(r)
    PROVE  /\ \E k \in Keys, b \in Bodies : KP!Lookup(r, k, b)
           /\ \E c \in Calls : ask' = [ask EXCEPT ![r] = AskOf(c)]
           /\ phase[r] = "new" /\ ask[r] = None /\ effects' = effects
<1>1. PICK c \in Calls : Keyed!Lookup(r, <<c.caller, c.name>>, Validated(c.body))
  BY DEF Send
<1>2. /\ phase[r] = "new" /\ effects' = effects
      /\ ask' = [ask EXCEPT ![r] = AskOf(c)]
  BY <1>1 DEF Keyed!Lookup, Keyed!Pass, Keyed!RefuseKey, Keyed!Replay, Keyed!Arrives, AskOf
<1>3. ask[r] = None /\ ask \in [Requests -> [key : Keys, body : Bodies] \union {None}]
  BY <1>2 DEF AInv, KInv, KP!IInv, KP!RowsOwned, KP!AskKnown, KP!IdempotencyTypeOK
<1>4. \A e \in effects : ask'[e.by] = ask[e.by]
  BY <1>2, <1>3 DEF AInv, EffectKnown
<1>5. OwnEffects' = OwnEffects
  BY <1>2, <1>4, SameEffects
<1>6. KP!Lookup(r, <<c.caller, c.name>>, Validated(c.body))
  BY <1>1, <1>5 DEF Keyed!Lookup, Keyed!Pass, Keyed!RefuseKey, Keyed!Replay, Keyed!Arrives,
     KP!Lookup, KP!Pass, KP!RefuseKey, KP!Replay, KP!Arrives, Keyed!Valid, KP!Valid,
     Keyed!MustRefuse, KP!MustRefuse, Keyed!Answer, KP!Answer, Keyed!Goto, KP!Goto
<1> QED BY <1>2, <1>3, <1>6, CallFacts

LEMMA CreateKeyKeyed ==
    ASSUME NEW r \in Requests, CreateKey(r)
    PROVE  KP!CreateKey(r) /\ UNCHANGED <<ask, effects, committed>>
<1>1. UNCHANGED <<ask, effects, committed>> /\ Keyed!CreateKey(r)
  BY DEF CreateKey, Keyed!CreateKey, Keyed!Recheck, Keyed!Clear, Keyed!Insert,
     Keyed!RefuseDuplicate
<1>2. OwnEffects' = OwnEffects
  BY <1>1 DEF OwnEffects
<1> QED BY <1>1, <1>2 DEF Keyed!CreateKey, Keyed!Recheck, Keyed!Clear, Keyed!Insert,
     Keyed!RefuseDuplicate, KP!CreateKey, KP!Recheck, KP!Clear, KP!Insert, KP!RefuseDuplicate,
     Keyed!Expired, KP!Expired, Keyed!Goto, KP!Goto, Keyed!IsStale, KP!IsStale, Keyed!RowOf,
     KP!RowOf, Keyed!CanInsert, KP!CanInsert, Keyed!Answer, KP!Answer

LEMMA CommitKeyed ==
    ASSUME NEW r \in Requests, Keyed!ServiceCommits(r)
    PROVE  /\ KP!ServiceCommits(r) /\ UNCHANGED <<ask, effects>>
           /\ phase[r] = "handling" /\ phase' = [phase EXCEPT ![r] = "committed"]
           /\ committed' = committed \union {r}
<1>1. UNCHANGED <<ask, effects>>
  BY DEF Keyed!ServiceCommits
<1>2. OwnEffects' = OwnEffects
  BY <1>1 DEF OwnEffects
<1> QED BY <1>1, <1>2 DEF Keyed!ServiceCommits, KP!ServiceCommits, Keyed!Goto, KP!Goto

\* Of the keys that are completed Idempotency sees the request's own.
LEMMA SucceedKeyed ==
    ASSUME NEW r \in Requests, NEW also, Keyed!Succeed(r, also)
    PROVE  /\ KP!Succeed(r, {}) /\ UNCHANGED <<ask, committed>>
           /\ phase[r] = "committed" /\ phase' = [phase EXCEPT ![r] = "answered"]
           /\ effects' = effects \union
                {[kind |-> "complete", key |-> k, by |-> r] : k \in {ask[r].key} \union also}
<1> DEFINE E(k) == [kind |-> "complete", key |-> k, by |-> r]
<1>1. /\ UNCHANGED <<ask, stale, rows, committed, lapsed, crashes>> /\ phase[r] = "committed"
      /\ phase' = [phase EXCEPT ![r] = "answered"]
      /\ reply' = [reply EXCEPT ![r] = [kind |-> "done", from |-> None]]
      /\ effects' = effects \union {E(k) : k \in {ask[r].key} \union also}
  BY DEF Keyed!Succeed, Keyed!Spawn, Keyed!Answer, Keyed!Goto
<1>2. \A k : E(k).by = r /\ E(k).key = k
  OBVIOUS
<1>3. {e \in effects' : e.key = ask[e.by].key} =
        {e \in effects : e.key = ask[e.by].key} \union {E(ask[r].key)}
  <2> HIDE DEF E
  <2> QED BY <1>1, <1>2
<1>4. OwnEffects' = OwnEffects \union {E(k) : k \in {ask[r].key} \union {}}
  BY <1>1, <1>3 DEF OwnEffects
<1>5. KP!Succeed(r, {})
  BY <1>1, <1>4 DEF KP!Succeed, KP!Spawn, KP!Answer, KP!Goto
<1> QED BY <1>1, <1>5

LEMMA FailKeyed ==
    ASSUME NEW r \in Requests, Keyed!Fail(r)
    PROVE  /\ KP!Fail(r) /\ UNCHANGED <<ask, committed>>
           /\ phase[r] \in {"handling", "committed"}
           /\ phase' = [phase EXCEPT ![r] = "answered"]
           /\ effects' = effects \union {[kind |-> "delete", key |-> ask[r].key, by |-> r]}
<1> DEFINE new == [kind |-> "delete", key |-> ask[r].key, by |-> r]
<1>1. /\ UNCHANGED <<ask, stale, rows, committed, lapsed, crashes>>
      /\ phase[r] = "handling" \/ (LostAcks /\ phase[r] = "committed")
      /\ phase' = [phase EXCEPT ![r] = "answered"]
      /\ reply' = [reply EXCEPT ![r] = [kind |-> "failed", from |-> None]]
      /\ effects' = effects \union {[kind |-> "delete", key |-> k, by |-> r] : k \in {ask[r].key}}
  BY DEF Keyed!Fail, Keyed!Spawn, Keyed!Answer, Keyed!Goto
<1>2. {[kind |-> "delete", key |-> k, by |-> r] : k \in {ask[r].key}} = {new}
  OBVIOUS
<1>3. new.by = r /\ new.key = ask[r].key
  OBVIOUS
<1>4. OwnEffects' = OwnEffects \union {new}
  <2> HIDE DEF new
  <2> QED BY <1>1, <1>2, <1>3 DEF OwnEffects
<1>5. KP!Fail(r)
  BY <1>1, <1>2, <1>4 DEF KP!Fail, KP!Spawn, KP!Answer, KP!Goto
<1> QED BY <1>1, <1>2, <1>5

\* Effects that land and keys that expire.
LEMMA LandKeyed ==
    ASSUME AInv, OneConfirmer(Calls), NEW e \in effects, Keyed!Land(e)
    PROVE  /\ [KP!IdempotencyNext]_KP!keyVars
           /\ UNCHANGED <<phase, ask, committed>> /\ effects' \subseteq effects
<1>1. /\ UNCHANGED <<phase, ask, stale, reply, committed, lapsed, crashes>>
      /\ effects' = effects \ {e}
      /\ Keyed!Complete(e) \/ Keyed!Delete(e)
  BY DEF Keyed!Land
<1>2. CASE e.key = ask[e.by].key
  <2>1. e \in OwnEffects /\ OwnEffects' = OwnEffects \ {e}
    BY <1>1, <1>2 DEF OwnEffects
  <2>2. KP!Land(e)
    BY <1>1, <2>1 DEF KP!Land, Keyed!Complete, KP!Complete, Keyed!Delete, KP!Delete
  <2> QED BY <1>1, <2>1, <2>2 DEF KP!IdempotencyNext
<1>3. CASE e.key # ask[e.by].key
  <2>1. e.kind = "complete" /\ rows[e.key] = None
    BY <1>3, ForeignKey
  <2>2. rows' = rows /\ OwnEffects' = OwnEffects
    BY <1>1, <1>3, <2>1 DEF Keyed!Complete, Keyed!Delete, OwnEffects
  <2> QED BY <1>1, <2>2 DEF KP!keyVars
<1> QED BY <1>2, <1>3

LEMMA ExpireKeyed ==
    ASSUME NEW k \in Keys, Keyed!Expire(k)
    PROVE  /\ KP!IdempotencyNext /\ UNCHANGED <<phase, ask, committed, effects>>
<1>1. UNCHANGED <<phase, ask, committed, effects>>
  BY DEF Keyed!Expire
<1>2. OwnEffects' = OwnEffects /\ OwnEffects \subseteq effects
  BY <1>1 DEF OwnEffects
<1>3. KP!Expire(k)
  BY <1>2 DEF Keyed!Expire, KP!Expire, Keyed!Valid, KP!Valid, Keyed!With, KP!With
<1> QED BY <1>1, <1>3 DEF KP!IdempotencyNext

-----------------------------------------------------------------------------
(* The services: a request calls its own, once, with what its body says *)

\* What the service of r has been called with.
Fits(r, j) ==
    /\ j.op \in Confirming => ask[r].body.op \in Confirmations /\ j.txn = ask[r].body.txn
    /\ j.op = "confirmDeposit" <=> ask[r].body.op = "confirmDeposit"

LEMMA ServiceCalled ==
    ASSUME AInv, NEW r \in Requests, CallService(r)
    PROVE  /\ Arrive(r) /\ phase[r] = "handling" /\ pc[r] = "new" /\ UNCHANGED db
           /\ \E s : s \notin {"new", "ok"} /\ pc' = [pc EXCEPT ![r] = s]
           /\ job' = job \/ \E j : Fits(r, j) /\ job' = [job EXCEPT ![r] = j]
<1> DEFINE b == ask[r].body
<1>1. phase[r] = "handling" /\ Serves(r, b)
  BY DEF CallService
<1>2. ask[r] # None /\ Asked(r)
  BY <1>1 DEF AInv, KInv, KP!IInv, KP!RowsOwned, KP!AskKnown
<1>3. /\ b.user \in Users /\ b.peer \in Users \union {Stranger} /\ b.amount \in Amounts
      /\ b.op \in Confirmations => b.txn \in TxnIds
  BY <1>2, AskFacts
<1>4. ASSUME NEW j, BeginLocking(r, j), j.op \in Locking, b.op \notin Confirmations
      PROVE  /\ pc[r] = "new" /\ UNCHANGED db
             /\ \E s : s \notin {"new", "ok"} /\ pc' = [pc EXCEPT ![r] = s]
             /\ \E k : Fits(r, k) /\ job' = [job EXCEPT ![r] = k]
  <2>1. Fits(r, j)
    BY <1>4 DEF Fits, Locking, Confirming, Confirmations
  <2> QED BY <1>4, <2>1 DEF BeginLocking
<1>5. ASSUME NEW op \in Confirming, NEW next \in {"shareTxn", "updateTxn"},
             BeginConfirming(r, op, b.txn, next), b.op \in Confirmations,
             op = "confirmDeposit" <=> b.op = "confirmDeposit"
      PROVE  /\ pc[r] = "new" /\ UNCHANGED db
             /\ \E s : s \notin {"new", "ok"} /\ pc' = [pc EXCEPT ![r] = s]
             /\ \E k : Fits(r, k) /\ job' = [job EXCEPT ![r] = k]
  <2> DEFINE j == NewJob(op, txns[b.txn].user, Stranger, txns[b.txn].amount, b.txn)
  <2>1. j.op = op /\ j.txn = b.txn
    BY DEF NewJob
  <2>2. Fits(r, j)
    BY <1>5, <2>1 DEF Fits
  <2>3. job' = [job EXCEPT ![r] = j]
    BY <1>5 DEF BeginConfirming
  <2> HIDE DEF j
  <2> QED BY <1>5, <2>2, <2>3 DEF BeginConfirming
<1>6. ASSUME RefuseSelfTransfer(r) \/ RefuseConfirmation(r, b.txn)
      PROVE  /\ pc[r] = "new" /\ UNCHANGED db /\ job' = job
             /\ \E s : s \notin {"new", "ok"} /\ pc' = [pc EXCEPT ![r] = s]
  BY <1>6 DEF RefuseSelfTransfer, RefuseConfirmation, Rollback, Finish
<1>7. CASE b.op = "withdraw" /\ InitiateWithdrawal(r, b.user, b.amount)
  <2>1. BeginLocking(r, NewJob("withdraw", b.user, Stranger, b.amount, None))
    BY <1>7 DEF InitiateWithdrawal
  <2>2. Arrive(r)
    BY <1>3, <1>7 DEF Arrive, Open
  <2>3. /\ NewJob("withdraw", b.user, Stranger, b.amount, None).op \in Locking
        /\ b.op \notin Confirmations
    BY <1>7 DEF NewJob, Locking, Confirmations
  <2> QED BY <1>1, <1>4, <2>1, <2>2, <2>3
<1>8. CASE b.op = "transfer" /\ InitiateTransfer(r, b.user, b.peer, b.amount)
  <2>1. BeginLocking(r, NewJob("transfer", b.user, b.peer, b.amount, None))
    BY <1>8 DEF InitiateTransfer
  <2>2. Arrive(r)
    BY <1>3, <1>8 DEF Arrive, Open
  <2>3. /\ NewJob("transfer", b.user, b.peer, b.amount, None).op \in Locking
        /\ b.op \notin Confirmations
    BY <1>8 DEF NewJob, Locking, Confirmations
  <2> QED BY <1>1, <1>4, <2>1, <2>2, <2>3
<1>9. CASE b.op = "confirmDeposit" /\ ConfirmDeposit(r, b.txn)
  <2>1. Arrive(r)
    BY <1>3, <1>9 DEF Arrive, Open, Confirmations
  <2>2. BeginConfirming(r, "confirmDeposit", b.txn, "updateTxn")
    BY <1>9 DEF ConfirmDeposit
  <2> QED BY <1>1, <1>5, <1>9, <2>1, <2>2 DEF Confirming, Confirmations
<1>10. CASE b.op = "confirmWithdrawal" /\ Settle(r, b.txn)
  <2>1. Arrive(r)
    BY <1>3, <1>10 DEF Arrive, Open, Confirmations
  <2>2. BeginConfirming(r, "settle", b.txn, "updateTxn")
    BY <1>10 DEF Settle
  <2> QED BY <1>1, <1>5, <1>10, <2>1, <2>2 DEF Confirming, Confirmations
<1>11. CASE b.op = "confirmWithdrawal" /\ Reverse(r, b.txn)
  <2>1. Arrive(r)
    BY <1>3, <1>11 DEF Arrive, Open, Confirmations
  <2>2. BeginConfirming(r, "reverse", b.txn, "shareTxn")
    BY <1>11 DEF Reverse
  <2> QED BY <1>1, <1>5, <1>11, <2>1, <2>2 DEF Confirming, Confirmations
<1>12. CASE \/ RefuseSelfTransfer(r)
            \/ b.op \in Confirmations /\ RefuseConfirmation(r, b.txn)
  <2>1. Arrive(r)
    BY <1>3, <1>12 DEF Arrive, Open
  <2> QED BY <1>1, <1>6, <1>12, <2>1
<1> HIDE DEF b
<1> QED BY <1>1, <1>7, <1>8, <1>9, <1>10, <1>11, <1>12 DEF Serves, Confirmations

\* The process dies: every open transaction is rolled back at once.
LEMMA ServerDiesKeeps ==
    ASSUME RInv, ServerDies
    PROVE  /\ RInv' /\ UNCHANGED <<db, job>>
           /\ \A r \in Requests : pc'[r] = IF Active(r) THEN "error" ELSE pc[r]
<1>1. /\ pc' = [r \in Requests |-> IF Active(r) THEN "error" ELSE pc[r]]
      /\ held' = [r \in Requests |-> IF Active(r) THEN {} ELSE held[r]]
      /\ txnLock' = [r \in Requests |-> IF Active(r) THEN "none" ELSE txnLock[r]]
      /\ todo' = [r \in Requests |-> IF Active(r) THEN << >> ELSE todo[r]]
      /\ seen' = [r \in Requests |-> IF Active(r) THEN Unread ELSE seen[r]]
      /\ UNCHANGED <<balance, txns, ledger, details, job>>
  BY DEF ServerDies, db
<1>2. TypeOK /\ LockDiscipline /\ MainNeverOverdrawn
  BY DEF RInv, IInv
<1>3. \A r \in Requests : ~Active(r)'
  BY <1>1 DEF Active, Waiting
<1>4. Unread \in [Wallets -> Int] /\ << >> \in Seq(Wallets)
  BY DEF Unread
<1>5. TypeOK'
  BY <1>1, <1>2, <1>4 DEF TypeOK, Answers
<1>6. ASSUME NEW r \in Requests PROVE held'[r] = {} /\ txnLock'[r] = "none"
  BY <1>1, <1>2 DEF LockDiscipline, OnPlan
<1>7. ASSUME NEW r \in Requests PROVE OnPlan(r)'
  BY <1>3, <1>6 DEF OnPlan, Active, Waiting
<1>8. LockDiscipline'
  BY <1>3, <1>6, <1>7 DEF LockDiscipline, Exclusive, JobKnown, StillAccepted
<1>9. MainNeverOverdrawn'
  BY <1>1, <1>2 DEF MainNeverOverdrawn
<1>10. \A r \in Requests : (pc[r] = "ok" => pc'[r] = "ok") /\ (pc'[r] = "new" => pc[r] = "new")
  BY <1>1 DEF Active, Waiting
<1>11. Fresh'
  BY <1>1, <1>10 DEF RInv, Fresh, Inserted
<1>12. \A r \in Requests : JobTrue(r)'
  BY <1>1, <1>10 DEF RInv, JobTrue
<1>13. \A t \in TxnIds : (ParentKnown(t) /\ Refunded(t))'
  BY <1>1 DEF RInv, ParentKnown, Refunded, Refund
<1>14. IsFiniteSet({t \in TxnIds : txns[t] # None})'
  BY <1>1 DEF RInv
<1> QED BY <1>1, <1>5, <1>8, <1>9, <1>11, <1>12, <1>13, <1>14 DEF RInv, IInv, db

-----------------------------------------------------------------------------
(* The invariant *)

LEMMA KInvStep ==
    ASSUME KInv, [KP!IdempotencyNext]_KP!keyVars
    PROVE  KInv'
BY KeysAssumed, KP!RowsStep, KP!RepliesStep, KP!DoneStep DEF KInv

LEMMA KInvIdle == ASSUME KInv, UNCHANGED keyState PROVE KInv'
<1>1. UNCHANGED KP!keyVars
  BY DEF keyState, KP!keyVars, OwnEffects
<1> QED BY <1>1, KInvStep

LEMMA RInvService ==
    ASSUME RInv, NEW r \in Requests, Arrive(r) \/ Proceed(r) \/ Victim(r) \/ Abort(r)
    PROVE  RInv'
<1>1. Next
  BY DEF Next
<1>2. IInv'
  BY <1>1, NextKeeps DEF RInv
<1> QED BY <1>2, RInvStep

\* A request that a step leaves alone.
LEMMA Bystander ==
    ASSUME NEW q, Staged(q), Asked(q), Serving(q), phase'[q] = phase[q], pc'[q] = pc[q],
           ask'[q] = ask[q], job'[q] = job[q], q \in committed' <=> q \in committed
    PROVE  (Staged(q) /\ Asked(q) /\ Serving(q))'
BY DEF Staged, Asked, Serving, Active

LEMMA EffectsKept ==
    ASSUME AInv, \A r \in Requests : ask[r] # None => ask'[r] = ask[r], effects' \subseteq effects
    PROVE  \A e \in effects' : EffectKnown(e)'
BY DEF AInv, EffectKnown

LEMMA Typed ==
    ASSUME AInv
    PROVE  /\ phase \in [Requests -> KP!InFlight \union {"new", "answered"}]
           /\ ask \in [Requests -> [key : Keys, body : Bodies] \union {None}]
           /\ pc \in [Requests -> Waiting \union Answers \union {"new", "check", "commit"}]
           /\ job \in [Requests -> Job \union {None}] /\ committed \subseteq Requests
           /\ \A r \in Requests :
                /\ phase[r] = "new" <=> ask[r] = None
                /\ r \in committed => phase[r] \in {"committed", "answered"}
                /\ phase[r] = "committed" => r \in committed
BY DEF AInv, RInv, IInv, TypeOK, KInv, KP!IInv, KP!IdempotencyTypeOK, KP!RowsOwned, KP!AskKnown,
   KP!ExecutedOwns

LEMMA SendKeeps == ASSUME AInv, NEW r \in Requests, Send(r) PROVE AInv'
<1>1. PICK c \in Calls : ask' = [ask EXCEPT ![r] = AskOf(c)]
  BY SendKeyed
<1>2. /\ phase[r] = "new" /\ ask[r] = None /\ effects' = effects /\ UNCHANGED vars
      /\ \E k \in Keys, b \in Bodies : KP!Lookup(r, k, b)
  BY SendKeyed DEF Send
<1>3. KInv'
  BY <1>2, KInvStep DEF AInv, KP!IdempotencyNext
<1>4. RInv'
  BY <1>2, RInvStutter DEF AInv
<1>5. /\ \A q \in Requests : q # r => phase'[q] = phase[q]
      /\ phase'[r] \in {"recheck", "answered"} /\ committed' = committed
  BY <1>2, Typed DEF KP!Lookup, KP!Pass, KP!RefuseKey, KP!Replay, KP!Arrives, KP!Goto, KP!Answer
<1>6. UNCHANGED <<pc, job>>
  BY <1>2 DEF vars, local
<1>7. ASSUME NEW q \in Requests PROVE (Staged(q) /\ Asked(q) /\ Serving(q))'
  <2>1. CASE q # r
    <3>1. ask'[q] = ask[q]
      BY <1>1, <2>1, Typed
    <3> QED BY <1>5, <1>6, <2>1, <3>1, Bystander DEF AInv
  <2>2. CASE q = r
    <3>1. ask'[r] = AskOf(c) /\ pc[r] = "new" /\ job[r] = None
      BY <1>1, <1>2, Typed DEF AInv, Staged, RInv, JobTrue
    <3> QED BY <1>2, <1>5, <1>6, <2>2, <3>1 DEF AInv, Staged, Asked, Serving, Active, Waiting
  <2> QED BY <2>1, <2>2
<1>8. \A e \in effects' : EffectKnown(e)'
  <2>1. \A q \in Requests : ask[q] # None => ask'[q] = ask[q]
    BY <1>1, <1>2, Typed
  <2> QED BY <1>2, <2>1, EffectsKept
<1> QED BY <1>3, <1>4, <1>7, <1>8 DEF AInv

LEMMA CreateKeyKeeps == ASSUME AInv, NEW r \in Requests, CreateKey(r) PROVE AInv'
<1>1. KP!CreateKey(r) /\ UNCHANGED <<ask, effects, committed>> /\ UNCHANGED vars
  BY CreateKeyKeyed DEF CreateKey
<1>2. KInv'
  BY <1>1, KInvStep DEF AInv, KP!IdempotencyNext
<1>3. RInv'
  BY <1>1, RInvStutter DEF AInv
<1>4. /\ \A q \in Requests : q # r => phase'[q] = phase[q]
      /\ phase[r] \in {"recheck", "clear", "insert"}
      /\ phase'[r] \in {"clear", "insert", "handling", "answered"}
  BY <1>1, Typed DEF KP!CreateKey, KP!Recheck, KP!Clear, KP!Insert, KP!RefuseDuplicate, KP!Goto,
     KP!Answer
<1>5. UNCHANGED <<pc, job>>
  BY <1>1 DEF vars, local
<1>6. ASSUME NEW q \in Requests PROVE (Staged(q) /\ Asked(q) /\ Serving(q))'
  <2>1. CASE q # r
    BY <1>1, <1>4, <1>5, <2>1, Bystander DEF AInv
  <2>2. CASE q = r
    <3>1. pc[r] = "new"
      BY <1>4 DEF AInv, Staged
    <3> QED BY <1>1, <1>4, <1>5, <2>2, <3>1 DEF AInv, Staged, Asked, Serving, Active, Waiting
  <2> QED BY <2>1, <2>2
<1> QED BY <1>1, <1>2, <1>3, <1>6, EffectsKept DEF AInv

\* A step of the service that the key table does not notice.
LEMMA ServiceKeeps ==
    ASSUME AInv, NEW r \in Requests, Arrive(r) \/ Proceed(r) \/ Victim(r) \/ Abort(r),
           KeysUnchanged, phase[r] = "handling", ask[r] # None,
           \E s : s \notin {"new", "ok"} /\ pc' = [pc EXCEPT ![r] = s],
           job' = job \/ \E j : Fits(r, j) /\ job' = [job EXCEPT ![r] = j]
    PROVE  AInv'
<1>1. KInv' /\ UNCHANGED <<phase, ask, effects, committed>>
  BY KInvIdle DEF AInv, KeysUnchanged, keyState
<1>2. RInv'
  BY RInvService DEF AInv
<1>3. /\ \A q \in Requests : q # r => pc'[q] = pc[q] /\ job'[q] = job[q]
      /\ pc'[r] \notin {"new", "ok"} /\ r \notin committed
      /\ job'[r] = job[r] \/ Fits(r, job'[r])
  BY Typed
<1>4. ASSUME NEW q \in Requests PROVE (Staged(q) /\ Asked(q) /\ Serving(q))'
  <2>1. CASE q # r
    BY <1>1, <1>3, <2>1, Bystander DEF AInv
  <2>2. CASE q = r
    <3>1. Staged(r)' /\ Asked(r)'
      BY <1>1, <1>3 DEF AInv, Staged, Asked
    <3>2. Serving(r)'
      BY <1>1, <1>3 DEF AInv, Serving, Fits
    <3> QED BY <2>2, <3>1, <3>2
  <2> QED BY <2>1, <2>2
<1> QED BY <1>1, <1>2, <1>4, EffectsKept DEF AInv

LEMMA CallServiceKeeps == ASSUME AInv, NEW r \in Requests, CallService(r) PROVE AInv'
<1>1. ask[r] # None /\ KeysUnchanged
  BY ServiceCalled, Typed DEF CallService
<1> QED BY <1>1, ServiceCalled, ServiceKeeps

LEMMA RunsKeeps ==
    ASSUME AInv, NEW r \in Requests, Statement(r) \/ Victim(r) \/ Abort(r), KeysUnchanged
    PROVE  AInv'
<1>1. Active(r) /\ job' = job /\ \E s : s \notin {"new", "ok"} /\ pc' = [pc EXCEPT ![r] = s]
  BY ServiceRuns DEF AInv, RInv
<1>2. phase[r] = "handling"
  BY <1>1 DEF AInv, Staged
<1>3. ask[r] # None
  BY <1>2, Typed
<1> QED BY <1>1, <1>2, <1>3, ServiceKeeps DEF Proceed

\* A service commits: the request has its answer, and the handler returns.
LEMMA CommitsKeep ==
    ASSUME AInv, NEW r \in Requests, Arrive(r) \/ Proceed(r) \/ Victim(r) \/ Abort(r),
           Keyed!ServiceCommits(r), pc' = [pc EXCEPT ![r] = "ok"], job' = job,
           job[r] # None \/ ask[r].body.op = "deposit"
    PROVE  AInv'
<1>1. /\ KP!ServiceCommits(r) /\ UNCHANGED <<ask, effects>> /\ phase[r] = "handling"
      /\ phase' = [phase EXCEPT ![r] = "committed"] /\ committed' = committed \union {r}
  BY CommitKeyed
<1>2. KInv'
  BY <1>1, KInvStep DEF AInv, KP!IdempotencyNext, KP!Handle
<1>3. RInv'
  BY RInvService DEF AInv
<1>4. /\ \A q \in Requests : q # r => phase'[q] = phase[q] /\ pc'[q] = pc[q]
      /\ phase'[r] = "committed" /\ pc'[r] = "ok" /\ ask[r] # None
  BY <1>1, Typed
<1>5. ASSUME NEW q \in Requests PROVE (Staged(q) /\ Asked(q) /\ Serving(q))'
  <2>1. CASE q # r
    BY <1>1, <1>4, <2>1, Bystander DEF AInv
  <2>2. CASE q = r
    BY <1>1, <1>4, <2>2 DEF AInv, Staged, Asked, Serving, Active, Waiting
  <2> QED BY <2>1, <2>2
<1> QED BY <1>1, <1>2, <1>3, <1>5, EffectsKept DEF AInv

LEMMA CallInitiateDepositKeeps ==
    ASSUME AInv, NEW r \in Requests, CallInitiateDeposit(r)
    PROVE  AInv'
<1>1. /\ ask[r] # None /\ ask[r].body.op = "deposit" /\ Keyed!ServiceCommits(r)
      /\ InitiateDeposit(r, ask[r].body.user, ask[r].body.amount)
  BY DEF CallInitiateDeposit
<1>2. ask[r].body.user \in Users /\ ask[r].body.amount \in Amounts
  BY <1>1, AskFacts DEF AInv
<1>3. Arrive(r) /\ pc' = [pc EXCEPT ![r] = "ok"] /\ job' = job
  BY <1>1, <1>2 DEF Arrive, Open, InitiateDeposit, local
<1> QED BY <1>1, <1>3, CommitsKeep

LEMMA RunServiceKeeps == ASSUME AInv, NEW r \in Requests, RunService(r) PROVE AInv'
<1>1. CASE Commit(r) /\ Keyed!ServiceCommits(r)
  <2>1. pc' = [pc EXCEPT ![r] = "ok"] /\ job' = job /\ job[r] # None
    BY <1>1, CommitWritesRows DEF AInv
  <2> QED BY <1>1, <2>1, CommitsKeep DEF Proceed
<1> QED BY <1>1, RunsKeeps DEF RunService

\* The wrapper answers, and starts the statements on the key.
LEMMA AnswerCallKeeps == ASSUME AInv, NEW r \in Requests, AnswerCall(r) PROVE AInv'
<1>1. pc[r] \in Answers /\ UNCHANGED vars
  BY DEF AnswerCall
<1>2. UNCHANGED <<pc, job>>
  BY <1>1 DEF vars, local
<1>3. RInv'
  BY <1>1, RInvStutter DEF AInv
<1>4. ASSUME phase' = [phase EXCEPT ![r] = "answered"], UNCHANGED <<ask, committed>>,
             NEW q \in Requests
      PROVE  (Staged(q) /\ Asked(q) /\ Serving(q))'
  <2>1. CASE q # r
    BY <1>2, <1>4, <2>1, Typed, Bystander DEF AInv
  <2>2. CASE q = r
    <3>1. phase'[r] = "answered"
      BY <1>4, Typed
    <3> QED BY <1>1, <1>2, <1>4, <2>2, <3>1 DEF AInv, Staged, Asked, Serving, Active, Waiting, Answers
  <2> QED BY <2>1, <2>2
<1>5. CASE Keyed!Succeed(r, OwnersKey(r))
  <2>1. /\ KP!Succeed(r, {}) /\ UNCHANGED <<ask, committed>> /\ phase[r] = "committed"
        /\ phase' = [phase EXCEPT ![r] = "answered"]
        /\ effects' = effects \union
             {[kind |-> "complete", key |-> k, by |-> r] : k \in {ask[r].key} \union OwnersKey(r)}
    BY <1>5, SucceedKeyed
  <2>2. KInv'
    BY <2>1, KInvStep DEF AInv, KP!IdempotencyNext, KP!Handle
  <2>3. ask[r] # None /\ pc[r] = "ok" /\ Asked(r) /\ Serving(r)
    BY <2>1, Typed DEF AInv, Staged
  <2>4. ASSUME NEW k \in {ask[r].key} \union OwnersKey(r), k # ask[r].key
        PROVE  ask[r].body.op \in Confirmations /\ k \in Keys /\ k[2] = ask[r].key[2]
    <3>1. ask[r].body.op = "confirmDeposit" /\ k = <<job[r].user, ask[r].key[2]>>
      BY <2>4 DEF OwnersKey
    <3>2. job[r] # None /\ job[r] \in Job
      BY <2>3, <3>1, Typed DEF Serving
    <3>3. job[r].user \in Callers
      BY <3>2, CallsAssumption DEF Job
    <3>4. ask[r].body.op \in Confirmations
      BY <3>1 DEF Confirmations
    <3>5. ask[r].key[2] \in TxnIds
      BY <2>3, <3>4, AskFacts
    <3> QED BY <3>1, <3>3, <3>4, <3>5 DEF Keys
  <2>5. ASSUME NEW e \in effects' PROVE EffectKnown(e)'
    <3>1. CASE e \in effects
      BY <2>1, <3>1 DEF AInv, EffectKnown
    <3>2. ASSUME NEW k \in {ask[r].key} \union OwnersKey(r),
                 e = [kind |-> "complete", key |-> k, by |-> r]
          PROVE  EffectKnown(e)'
      <4>1. e.kind = "complete" /\ e.key = k /\ e.by = r
        BY <3>2
      <4> QED BY <2>1, <2>3, <2>4, <4>1 DEF EffectKnown
    <3> QED BY <2>1, <3>1, <3>2
  <2> QED BY <1>3, <1>4, <2>1, <2>2, <2>5 DEF AInv
<1>6. CASE Keyed!Fail(r)
  <2>1. /\ KP!Fail(r) /\ UNCHANGED <<ask, committed>> /\ phase[r] \in {"handling", "committed"}
        /\ phase' = [phase EXCEPT ![r] = "answered"]
        /\ effects' = effects \union {[kind |-> "delete", key |-> ask[r].key, by |-> r]}
    BY <1>6, FailKeyed
  <2>2. KInv'
    BY <2>1, KInvStep DEF AInv, KP!IdempotencyNext, KP!Handle
  <2>3. ask[r] # None
    BY <2>1, Typed
  <2>4. ASSUME NEW e \in effects' PROVE EffectKnown(e)'
    <3>1. CASE e \in effects
      BY <2>1, <3>1 DEF AInv, EffectKnown
    <3>2. CASE e = [kind |-> "delete", key |-> ask[r].key, by |-> r]
      <4>1. e.key = ask[r].key /\ e.by = r
        BY <3>2
      <4> QED BY <2>1, <2>3, <4>1 DEF EffectKnown
    <3> QED BY <2>1, <3>1, <3>2
  <2> QED BY <1>3, <1>4, <2>1, <2>2, <2>4 DEF AInv
<1> QED BY <1>5, <1>6 DEF AnswerCall

LEMMA KeyTableKeeps == ASSUME AInv, OneConfirmer(Calls), KeyTable PROVE AInv'
<1>1. /\ [KP!IdempotencyNext]_KP!keyVars
      /\ UNCHANGED <<phase, ask, committed>> /\ effects' \subseteq effects
  BY LandKeyed, ExpireKeyed DEF KeyTable
<1>2. UNCHANGED vars /\ UNCHANGED <<pc, job>>
  BY DEF KeyTable, vars, local
<1>3. KInv' /\ RInv'
  BY <1>1, <1>2, KInvStep, RInvStutter DEF AInv
<1>4. \A q \in Requests : (Staged(q) /\ Asked(q) /\ Serving(q))'
  BY <1>1, <1>2, Bystander DEF AInv
<1> QED BY <1>1, <1>3, <1>4, EffectsKept DEF AInv

\* A crash is one of Idempotency, or it kills only a statement on a key that
\* nobody has.
LEMMA CrashKeepsKeys ==
    ASSUME AInv, Keyed!Crash
    PROVE  KInv'
<1>1. /\ crashes < MaxCrashes /\ crashes' = crashes + 1 /\ effects' = {}
      /\ UNCHANGED <<ask, stale, rows, committed, lapsed>>
      /\ phase' = [r \in Requests |-> IF Keyed!Dies(r) THEN "answered" ELSE phase[r]]
      /\ reply' = [r \in Requests |->
                     IF Keyed!Dies(r) THEN [kind |-> "lost", from |-> None] ELSE reply[r]]
  BY DEF Keyed!Crash
<1>2. OwnEffects' = {}
  BY <1>1 DEF OwnEffects
<1>3. CASE \E r \in Requests : KP!Dies(r) \/ OwnEffects # {}
  <2>1. \A r \in Requests : KP!Dies(r) <=> Keyed!Dies(r)
    BY DEF KP!Dies, Keyed!Dies, KP!InFlight, Keyed!InFlight
  <2>2. KP!Crash
    BY <1>1, <1>2, <1>3, <2>1 DEF KP!Crash
  <2> QED BY <2>2, KInvStep DEF AInv, KP!IdempotencyNext
<1>4. CASE ~ \E r \in Requests : KP!Dies(r) \/ OwnEffects # {}
  <2>1. \A r \in Requests : ~Keyed!Dies(r)
    BY <1>4 DEF KP!Dies, Keyed!Dies, KP!InFlight, Keyed!InFlight
  <2>2. KP!IdempotencyTypeOK /\ KP!RowsOwned /\ KP!ReplayFaithful /\ KP!DoneCommitted
    BY DEF AInv, KInv, KP!IInv
  <2>3. phase' = phase /\ reply' = reply
    BY <1>1, <2>1, <2>2 DEF KP!IdempotencyTypeOK
  <2>4. crashes' \in 0 .. MaxCrashes
    BY <1>1, <2>2, KeyedAssumption DEF KP!IdempotencyTypeOK
  <2>5. KP!IdempotencyTypeOK'
    BY <1>1, <1>2, <2>2, <2>3, <2>4 DEF KP!IdempotencyTypeOK
  <2>6. KP!RowsOwned'
    BY <1>1, <1>2, <2>2, <2>3 DEF KP!RowsOwned, KP!AskKnown, KP!HandlerOwns, KP!ClearsExpired,
       KP!ExecutedOwns, KP!RowKnown, KP!Handling, KP!RowOf, KP!IsStale
  <2>7. KP!ReplayFaithful' /\ KP!DoneCommitted'
    BY <1>1, <2>2, <2>3 DEF KP!ReplayFaithful, KP!DoneCommitted
  <2> QED BY <2>5, <2>6, <2>7 DEF KInv, KP!IInv
<1> QED BY <1>3, <1>4

LEMMA ServerDiesKeepsAll == ASSUME AInv, ServerDies PROVE AInv'
<1>1. Keyed!Crash /\ RInv' /\ job' = job
      /\ \A r \in Requests : pc'[r] = IF Active(r) THEN "error" ELSE pc[r]
  BY ServerDiesKeeps DEF AInv, ServerDies
<1>2. /\ UNCHANGED <<ask, committed>> /\ effects' = {}
      /\ \A r \in Requests :
           phase'[r] = IF phase[r] \in Keyed!InFlight THEN "answered" ELSE phase[r]
  BY <1>1 DEF Keyed!Crash, Keyed!Dies
<1>3. KInv'
  BY <1>1, CrashKeepsKeys
<1>4. ASSUME NEW q \in Requests PROVE (Staged(q) /\ Asked(q) /\ Serving(q))'
  <2>1. Staged(q)'
    <3>1. ~Active(q)' /\ (pc'[q] = "ok" <=> pc[q] = "ok") /\ (pc[q] = "new" => pc'[q] = "new")
      BY <1>1 DEF Active, Waiting
    <3>2. phase'[q] \in {"new", "recheck", "clear", "insert"} => phase[q] = "new"
      BY <1>2 DEF Keyed!InFlight
    <3> QED BY <1>2, <3>1, <3>2 DEF AInv, Staged
  <2>2. Asked(q)'
    BY <1>2 DEF AInv, Asked
  <2>3. Serving(q)'
    <3>1. pc'[q] = "ok" => pc[q] = "ok"
      BY <1>1
    <3> QED BY <1>1, <1>2, <3>1 DEF AInv, Serving
  <2> QED BY <2>1, <2>2, <2>3
<1> QED BY <1>1, <1>2, <1>3, <1>4 DEF AInv

LEMMA AInvInit == ApiInit => AInv
<1> SUFFICES ASSUME ApiInit PROVE AInv
  OBVIOUS
<1>1. RInv
  BY RInvInit DEF ApiInit
<1>2. OwnEffects = {} /\ effects = {}
  BY DEF ApiInit, Keyed!IdempotencyInit, OwnEffects
<1>3. KP!IdempotencyInit
  BY <1>2 DEF ApiInit, Keyed!IdempotencyInit, KP!IdempotencyInit
<1>4. KInv
  BY <1>3, KeysAssumed, KP!RowsInit DEF KInv, KP!IdempotencyInit, KP!ReplayFaithful,
     KP!DoneCommitted
<1>5. \A r \in Requests : Staged(r) /\ Asked(r) /\ Serving(r)
  BY DEF ApiInit, Init, Keyed!IdempotencyInit, Staged, Asked, Serving, Active, Waiting
<1> QED BY <1>1, <1>2, <1>4, <1>5 DEF AInv

LEMMA AInvNext == ASSUME OneConfirmer(Calls) PROVE AInv /\ [ApiNext]_apiVars => AInv'
<1> SUFFICES ASSUME AInv, [ApiNext]_apiVars PROVE AInv'
  OBVIOUS
<1>1. ASSUME NEW r \in Requests, Send(r) \/ CreateKey(r) PROVE AInv'
  BY <1>1, SendKeeps, CreateKeyKeeps
<1>2. ASSUME NEW r \in Requests, CallService(r) \/ CallInitiateDeposit(r) PROVE AInv'
  BY <1>2, CallServiceKeeps, CallInitiateDepositKeeps
<1>3. ASSUME NEW r \in Requests, RunService(r) \/ AnswerCall(r) PROVE AInv'
  BY <1>3, RunServiceKeeps, AnswerCallKeeps
<1>4. CASE KeyTable \/ ServerDies
  BY <1>4, KeyTableKeeps, ServerDiesKeepsAll
<1>5. CASE UNCHANGED apiVars
  <2>1. UNCHANGED vars /\ UNCHANGED keyState
    BY <1>5 DEF apiVars
  <2>2. UNCHANGED <<pc, job, phase, ask, effects, committed>>
    BY <2>1 DEF vars, local, keyState
  <2>3. KInv' /\ RInv'
    BY <2>1, KInvIdle, RInvStutter DEF AInv
  <2>4. \A q \in Requests : (Staged(q) /\ Asked(q) /\ Serving(q))'
    BY <2>2, Bystander DEF AInv
  <2> QED BY <2>2, <2>3, <2>4, EffectsKept DEF AInv
<1> QED BY <1>1, <1>2, <1>3, <1>4, <1>5 DEF ApiNext

LEMMA AInvariance == ASSUME OneConfirmer(Calls) PROVE ApiSpec => []AInv
<1> QED BY AInvInit, AInvNext, PTL DEF ApiSpec

-----------------------------------------------------------------------------
(* Answers *)

\* A client is told of a success only when its work has been committed, and a
\* replayed success is that of a committed request with the same body, with
\* lost acknowledgements, crashes and statements on keys that run late
\* (helpers.ts:28-53, idempotency.middleware.ts:38-50).
THEOREM AnswersAlwaysTrue ==
    ASSUME OneConfirmer(Calls)
    PROVE  ApiSpec => []AnswersTrue
<1>1. AInv => AnswersTrue
  <2> SUFFICES ASSUME AInv, NEW r \in Requests, reply[r] # None
               PROVE  /\ reply[r].kind = "done" => pc[r] = "ok"
                      /\ reply[r].kind = "replay" =>
                           /\ reply[r].from # None /\ pc[reply[r].from] = "ok"
                           /\ ask[reply[r].from].body = ask[r].body
    BY DEF AnswersTrue
  <2>1. reply[r].kind = "done" => r \in committed
    BY DEF AInv, KInv, KP!DoneCommitted
  <2>2. reply[r].kind = "replay" => reply[r].from \in committed /\ ask[reply[r].from] = ask[r]
    BY DEF AInv, KInv, KP!ReplayFaithful
  <2>3. \A q \in committed : q \in Requests /\ q # None
    BY Typed, KeyedAssumption
  <2>4. \A q \in committed : pc[q] = "ok"
    BY <2>3 DEF AInv, Staged
  <2> QED BY <2>1, <2>2, <2>3, <2>4
<1> QED BY <1>1, AInvariance, PTL

-----------------------------------------------------------------------------
(* Confirmations *)

\* Who is confirming a transaction finds it pending to the end, and nobody
\* finds it so after it was confirmed.
Pending(t) == txns[t].status = "PENDING"
Confirmation(r) ==
    /\ Active(r) /\ job[r].op \in Confirming => Pending(job[r].txn)
    /\ pc[r] = "ok" /\ Confirms(r) => ~Pending(job[r].txn)
CInv == AInv /\ ConfirmedOnce /\ \A r \in Requests : Confirmation(r)

\* Two requests are not confirming one transaction at the same time: they have
\* one key, and the row of a key has one owner.
LEMMA OneConfirms ==
    ASSUME AInv, OneConfirmer(Calls), NEW q \in Requests, NEW r \in Requests,
           Active(q), Active(r), job[q].op \in Confirming, job[r].op \in Confirming,
           job[q].txn = job[r].txn
    PROVE  q = r
<1>1. /\ phase[q] = "handling" /\ phase[r] = "handling" /\ job[q] # None /\ job[r] # None
      /\ Asked(q) /\ Asked(r) /\ Serving(q) /\ Serving(r)
  BY NullAssumption DEF AInv, Staged, RInv, IInv, LockDiscipline, JobKnown
<1>2. /\ ask[q] # None /\ ask[r] # None /\ ask[q].body.op \in Confirmations
      /\ ask[r].body.op \in Confirmations /\ ask[q].body.txn = ask[r].body.txn
  BY <1>1 DEF Serving
<1>3. ask[q].key[2] = ask[r].key[2]
  BY <1>1, <1>2, AskFacts
<1>4. ask[q].key = ask[r].key
  BY <1>1, <1>2, <1>3, SameConfirmer
<1> QED BY <1>1, <1>4 DEF AInv, KInv, KP!IInv, KP!RowsOwned, KP!HandlerOwns, KP!Handling, KP!RowOf

\* A service commits a confirmation of a pending transaction, or none.
LEMMA CommitConfirms ==
    ASSUME CInv, NEW r \in Requests, Commit(r)
    PROVE  /\ job[r] \in Job /\ Active(r)
           /\ job[r].op \in Confirming =>
                /\ Confirms(r) /\ job[r].txn \in TxnIds /\ txns[job[r].txn] # None
                /\ Pending(job[r].txn) /\ txns'[job[r].txn].status # "PENDING"
<1>1. /\ pc[r] = "commit" /\ job[r] \in Job /\ job[r] # None /\ \A t \in TxnIds : CommitsRow(r, t)
      /\ \A leg \in Legs : txns[<<r, leg>>] = None
  BY CommitWritesRows DEF CInv, AInv
<1>2. Active(r)
  BY <1>1 DEF Active
<1>3. CASE job[r].op \in Confirming
  <2> DEFINE t == job[r].txn
  <2>1. Confirms(r) /\ t \in TxnIds /\ txns[t] # None /\ Pending(t)
    BY <1>1, <1>2, <1>3 DEF CInv, AInv, RInv, JobTrue, Job, Confirmation, Confirms
  <2>2. txns[t] \in Row
    BY <2>1 DEF CInv, AInv, RInv, IInv, TypeOK
  <2>3. PICK s \in Statuses \ {"PENDING"} : txns'[t] = [txns[t] EXCEPT !.status = s]
    BY <1>1, <1>3, <2>1 DEF CommitsRow, Confirming, Statuses, Legs
  <2>4. txns'[t].status = s
    BY <2>2, <2>3, RowFacts
  <2> QED BY <1>1, <1>2, <2>1, <2>3, <2>4
<1> QED BY <1>1, <1>2, <1>3

\* What a step of the API does to the services.
LEMMA ServiceSteps ==
    ASSUME AInv, [ApiNext]_apiVars
    PROVE  \/ UNCHANGED vars \/ ServerDies
           \/ \E r \in Requests : Arrive(r) \/ Proceed(r) \/ Victim(r) \/ Abort(r)
<1>1. ASSUME NEW r \in Requests, CallInitiateDeposit(r) PROVE Arrive(r)
  <2>1. ask[r].body.user \in Users /\ ask[r].body.amount \in Amounts
    BY <1>1, AskFacts DEF AInv, CallInitiateDeposit
  <2> QED BY <1>1, <2>1 DEF CallInitiateDeposit, Arrive, Open
<1>2. ASSUME NEW r \in Requests, Send(r) \/ CreateKey(r) \/ AnswerCall(r) PROVE UNCHANGED vars
  BY <1>2 DEF Send, CreateKey, AnswerCall
<1>3. ASSUME NEW r \in Requests, RunService(r) PROVE Proceed(r) \/ Victim(r) \/ Abort(r)
  BY <1>3 DEF RunService, Proceed
<1>4. KeyTable => UNCHANGED vars
  BY DEF KeyTable
<1>5. UNCHANGED apiVars => UNCHANGED vars
  BY DEF apiVars
<1> QED BY <1>1, <1>2, <1>3, <1>4, <1>5, ServiceCalled DEF ApiNext

LEMMA ConfirmationService ==
    ASSUME CInv, RInv', OneConfirmer(Calls), NEW r \in Requests,
           Arrive(r) \/ Proceed(r) \/ Victim(r) \/ Abort(r)
    PROVE  ConfirmedOnce' /\ \A q \in Requests : Confirmation(q)'
<1>1. PICK s : pc' = [pc EXCEPT ![r] = s]
  BY StepOfOne DEF CInv, AInv, RInv
<1>2. /\ job' = job
         \/ /\ pc[r] = "new" /\ pc'[r] \in Waiting /\ UNCHANGED db
            /\ \E j \in Job : job' = [job EXCEPT ![r] = j] /\ ArrivesWith(j)
      /\ (\A t \in TxnIds : Lasts(t)) /\ (txns' # txns => pc'[r] = "ok")
      /\ pc[r] \notin Answers
  BY StepOfOne, RowsLast DEF CInv, AInv, RInv
<1>3. \A q \in Requests : q # r => pc'[q] = pc[q] /\ job'[q] = job[q]
  BY <1>1, <1>2, Typed DEF CInv
<1>4. pc'[r] = "ok" => job' = job /\ (Commit(r) \/ job[r] = None)
  <2>1. pc'[r] = "ok" => job' = job
    BY <1>2 DEF Waiting
  <2>2. CASE Arrive(r)
    BY <2>1, <2>2, Arriving DEF CInv, AInv, RInv, JobTrue
  <2>3. CASE Statement(r) \/ Victim(r) \/ Abort(r)
    <3>1. pc'[r] # "ok"
      BY <2>3, ServiceRuns, Typed DEF CInv, AInv, RInv
    <3> QED BY <3>1
  <2> QED BY <2>1, <2>2, <2>3 DEF Proceed
<1>5. ASSUME NEW q \in Requests, q # r PROVE Confirmation(q)'
  <2>1. pc'[q] = pc[q] /\ job'[q] = job[q] /\ Confirmation(q)
    BY <1>3, <1>5 DEF CInv
  <2>2. CASE Active(q) /\ job[q].op \in Confirming
    <3>1. job[q].txn \in TxnIds /\ txns[job[q].txn] # None
      <4>1. job[q] \in Job /\ job[q] # None /\ JobTrue(q)
        BY <2>2, NullAssumption DEF CInv, AInv, RInv, IInv, LockDiscipline, JobKnown
      <4> QED BY <2>2, <4>1 DEF JobTrue, Job
    <3>2. ~(job[r].op \in Confirming /\ pc[r] = "commit" /\ job[q].txn = job[r].txn)
      BY <1>5, <2>2, OneConfirms DEF CInv, Active
    <3>3. txns'[job[q].txn] = txns[job[q].txn]
      BY <3>1, <3>2, RowChange DEF CInv, AInv
    <3> QED BY <2>1, <2>2, <3>3 DEF Confirmation, Pending, Active, Waiting
  <2>3. CASE pc[q] = "ok" /\ Confirms(q)
    <3>1. job[q].txn \in TxnIds /\ txns[job[q].txn] # None
      <4>1. job[q] \in Job /\ JobTrue(q)
        BY <2>3, Typed DEF CInv, AInv, RInv, Confirms
      <4> QED BY <2>3, <4>1 DEF JobTrue, Job, Confirms
    <3>2. Lasts(job[q].txn)
      BY <1>2, <3>1
    <3> QED BY <2>1, <2>3, <3>1, <3>2 DEF Confirmation, Pending, Active, Waiting, Lasts, Confirms
  <2> QED BY <2>1, <2>2, <2>3 DEF Confirmation, Active, Confirms
<1>6. Confirmation(r)'
  <2>1. ASSUME pc'[r] = "ok", Confirms(r)' PROVE txns'[job'[r].txn].status # "PENDING"
    <3>1. job' = job /\ Commit(r) /\ Confirms(r)
      BY <1>4, <2>1 DEF Confirms
    <3>2. job[r].op \in Confirming
      BY <3>1 DEF CInv, AInv, RInv, JobTrue, Confirms
    <3> QED BY <3>1, <3>2, CommitConfirms
  <2>2. ASSUME Active(r)', job'[r].op \in Confirming PROVE txns'[job'[r].txn].status = "PENDING"
    <3>1. txns' = txns
      BY <1>2, <2>2 DEF Active, Waiting
    <3>2. CASE job' = job
      <4>1. job[r] \in Job
        BY <2>2, <3>2 DEF RInv, IInv, LockDiscipline, JobKnown
      <4>2. pc[r] # "new"
        BY <4>1, NullAssumption DEF CInv, AInv, RInv, JobTrue
      <4>3. Active(r)
        BY <1>2, <4>2, Typed DEF CInv, Active
      <4> QED BY <2>2, <3>1, <3>2, <4>3 DEF CInv, Confirmation, Pending
    <3>3. ASSUME NEW j \in Job, job' = [job EXCEPT ![r] = j], ArrivesWith(j)
          PROVE  txns'[job'[r].txn].status = "PENDING"
      <4>1. job'[r] = j
        BY <3>3, Typed DEF CInv
      <4>2. j.op \in Confirming
        BY <2>2, <4>1
      <4> QED BY <3>1, <3>3, <4>1, <4>2 DEF ArrivesWith, Confirmable, Locking, Confirming
    <3> QED BY <1>2, <3>2, <3>3
  <2> QED BY <2>1, <2>2 DEF Confirmation, Pending
<1>7. ConfirmedOnce'
  <2>1. ASSUME NEW q \in Requests, q # r, pc[q] = "ok", Confirms(q), pc'[r] = "ok", Confirms(r)',
               job[q].txn = job'[r].txn
        PROVE  FALSE
    <3>1. job' = job /\ Commit(r) /\ Confirms(r)
      BY <1>4, <2>1 DEF Confirms
    <3>2. Pending(job[r].txn)
      BY <3>1, CommitConfirms DEF CInv, AInv, RInv, JobTrue, Confirms
    <3> QED BY <2>1, <3>1, <3>2 DEF CInv, Confirmation
  <2> SUFFICES ASSUME NEW p \in Requests, NEW q \in Requests, pc'[p] = "ok", pc'[q] = "ok",
                      Confirms(p)', Confirms(q)', job'[p].txn = job'[q].txn, p # q
               PROVE  FALSE
    BY DEF ConfirmedOnce
  <2>2. CASE p # r /\ q # r
    BY <1>3, <2>2 DEF CInv, ConfirmedOnce, Confirms
  <2>3. CASE p = r
    BY <1>3, <2>1, <2>3 DEF Confirms
  <2>4. CASE q = r
    BY <1>3, <2>1, <2>4 DEF Confirms
  <2> QED BY <2>2, <2>3, <2>4
<1> QED BY <1>5, <1>6, <1>7

LEMMA CInvNext == ASSUME OneConfirmer(Calls) PROVE CInv /\ [ApiNext]_apiVars => CInv'
<1> SUFFICES ASSUME CInv, [ApiNext]_apiVars PROVE CInv'
  OBVIOUS
<1>1. AInv'
  BY AInvNext DEF CInv
<1>2. CASE UNCHANGED vars
  <2>1. UNCHANGED <<pc, job, txns>>
    BY <1>2 DEF vars, db, local
  <2> QED BY <1>1, <2>1 DEF CInv, ConfirmedOnce, Confirms, Confirmation, Active, Pending
<1>3. CASE ServerDies
  <2>1. /\ UNCHANGED <<job, txns>>
        /\ \A r \in Requests : pc'[r] = IF Active(r) THEN "error" ELSE pc[r]
    BY <1>3, ServerDiesKeeps DEF CInv, AInv, db
  <2>2. \A r \in Requests : ~Active(r)' /\ (pc'[r] = "ok" <=> pc[r] = "ok")
    BY <2>1 DEF Active, Waiting
  <2> QED BY <1>1, <2>1, <2>2 DEF CInv, ConfirmedOnce, Confirms, Confirmation, Pending
<1>4. ASSUME NEW r \in Requests, Arrive(r) \/ Proceed(r) \/ Victim(r) \/ Abort(r)
      PROVE  CInv'
  BY <1>1, <1>4, ConfirmationService DEF CInv, AInv
<1> QED BY <1>2, <1>3, <1>4, ServiceSteps DEF CInv

LEMMA CInvariance == ASSUME OneConfirmer(Calls) PROVE ApiSpec => []CInv
<1>1. ApiInit => ConfirmedOnce /\ \A r \in Requests : Confirmation(r)
  BY DEF ApiInit, Init, ConfirmedOnce, Confirms, Confirmation, Active, Waiting
<1>2. ApiInit => CInv
  BY <1>1, AInvInit DEF CInv
<1> QED BY <1>2, CInvNext, PTL DEF ApiSpec

\* A transaction is confirmed once, however often the gateway sends it again,
\* at either endpoint and with either report, although the status is tested
\* without a lock (deposit.service.ts:60, withdrawal.service.ts:110): its
\* reference is the key of all its confirmations.
THEOREM ConfirmedAtMostOnce ==
    ASSUME OneConfirmer(Calls)
    PROVE  ApiSpec => []ConfirmedOnce
<1>1. CInv => ConfirmedOnce
  BY DEF CInv
<1> QED BY <1>1, CInvariance, PTL

\* A row is changed by the one confirmation that finds it pending.
LEMMA SettledRow ==
    ASSUME CInv, [ApiNext]_apiVars, NEW t \in TxnIds, txns[t] # None, txns[t].status # "PENDING"
    PROVE  txns'[t] = txns[t]
<1>1. CASE UNCHANGED vars
  BY <1>1 DEF vars, db
<1>2. CASE ServerDies
  BY <1>2, ServerDiesKeeps DEF CInv, AInv, db
<1>3. ASSUME NEW r \in Requests, Arrive(r) \/ Proceed(r) \/ Victim(r) \/ Abort(r)
      PROVE  txns'[t] = txns[t]
  <2>1. t = job[r].txn /\ job[r].op \in Confirming /\ pc[r] = "commit" => Pending(t)
    BY DEF CInv, Confirmation, Active
  <2> QED BY <1>3, <2>1, RowChange DEF CInv, AInv, Pending
<1> QED BY <1>1, <1>2, <1>3, ServiceSteps DEF CInv

\* No step changes a transaction that is not pending (the services answer 409
\* for those, deposit.service.ts:60 and withdrawal.service.ts:110), whoever
\* confirms it again, meanwhile or after a crash.
THEOREM StatusNeverChangesAgain ==
    ASSUME OneConfirmer(Calls)
    PROVE  ApiSpec => StatusFinal
<1>1. CInv /\ [ApiNext]_apiVars =>
        [\A t \in TxnIds : txns[t] # None /\ txns[t].status # "PENDING" => txns'[t] = txns[t]]_txns
  BY SettledRow
<1> QED BY <1>1, CInvariance, PTL DEF ApiSpec, StatusFinal

-----------------------------------------------------------------------------
(* Reversals *)

\* Whoever has been refunded has a withdrawal that failed.
ReversedFailed(s) ==
    \A t \in TxnIds :
        /\ txns[s] # None /\ txns[s].type = "REVERSAL" /\ txns[s].parent = t
        /\ txns[t] # None /\ txns[t].type = "WITHDRAWAL"
        => txns[t].status = "FAILED"
FInv == CInv /\ \A s \in TxnIds : ReversedFailed(s)

LEMMA FInvInit == ApiInit => FInv
<1> SUFFICES ASSUME ApiInit PROVE FInv
  OBVIOUS
<1>1. CInv
  <2>1. ConfirmedOnce /\ \A r \in Requests : Confirmation(r)
    BY DEF ApiInit, Init, ConfirmedOnce, Confirms, Confirmation, Active, Waiting
  <2> QED BY <2>1, AInvInit DEF CInv
<1>2. \A t \in TxnIds : txns[t] # None => t \in DOMAIN OpeningTxns /\ txns[t] = OpeningTxns[t]
  BY DEF ApiInit, Init
<1>3. ASSUME NEW s \in TxnIds PROVE ReversedFailed(s)
  BY <1>2, ReversalsAssumption DEF ReversedFailed
<1> QED BY <1>1, <1>3 DEF FInv

LEMMA ReversedFailedKept ==
    ASSUME FInv, CInv', [ApiNext]_apiVars, NEW r \in Requests,
           Arrive(r) \/ Proceed(r) \/ Victim(r) \/ Abort(r), NEW s \in TxnIds
    PROVE  ReversedFailed(s)'
<1> SUFFICES ASSUME NEW t \in TxnIds, txns'[s] # None, txns'[s].type = "REVERSAL",
                    txns'[s].parent = t, txns'[t] # None, txns'[t].type = "WITHDRAWAL"
             PROVE  txns'[t].status = "FAILED"
  BY DEF ReversedFailed
<1>1. RInv /\ Lasts(s) /\ Lasts(t)
  BY RowsLast DEF FInv, CInv, AInv
<1>2. t # None
  BY NullAssumption
<1>3. CASE txns[s] # None
  <2>1. txns[s].type = "REVERSAL" /\ txns[s].parent = t
    BY <1>1, <1>3 DEF Lasts
  <2>2. txns[t] # None
    BY <1>1, <1>2, <1>3, <2>1 DEF RInv, ParentKnown
  <2>3. txns[t].type = "WITHDRAWAL"
    BY <1>1, <2>2 DEF Lasts
  <2>4. txns[t].status = "FAILED"
    BY <1>3, <2>1, <2>2, <2>3 DEF FInv, ReversedFailed
  <2> QED BY <2>2, <2>4, SettledRow DEF FInv
<1>4. CASE txns[s] = None
  <2>1. Commit(r) /\ job[r].op = "reverse" /\ t = job[r].txn
    BY <1>1, <1>2, <1>4, RowChange
  <2>2. txns[t] # None /\ Pending(t) /\ txns'[t].status # "PENDING"
    BY <2>1, CommitConfirms DEF FInv, Confirming
  <2>3. txns'[t] # txns[t]
    BY <2>2 DEF Pending
  <2> QED BY <1>1, <2>1, <2>2, <2>3, RowChange
<1> QED BY <1>3, <1>4

LEMMA FInvNext == ASSUME OneConfirmer(Calls) PROVE FInv /\ [ApiNext]_apiVars => FInv'
<1> SUFFICES ASSUME FInv, [ApiNext]_apiVars PROVE FInv'
  OBVIOUS
<1>1. CInv'
  BY CInvNext DEF FInv
<1>2. CASE txns' = txns
  BY <1>1, <1>2 DEF FInv, ReversedFailed
<1>3. ASSUME NEW r \in Requests, Arrive(r) \/ Proceed(r) \/ Victim(r) \/ Abort(r)
      PROVE  FInv'
  BY <1>1, <1>3, ReversedFailedKept DEF FInv
<1>4. UNCHANGED vars \/ ServerDies => txns' = txns
  BY ServerDiesKeeps DEF vars, db, FInv, CInv, AInv
<1> QED BY <1>2, <1>3, <1>4, ServiceSteps DEF FInv, CInv

\* A withdrawal has failed exactly if its REVERSAL row is there: never both
\* settled and refunded, and never failed without its refund, whichever reports
\* of the gateway race (withdrawal.service.ts:126 and :186).
THEOREM FailedExactlyIfReversed ==
    ASSUME OneConfirmer(Calls)
    PROVE  ApiSpec => []FailedIffReversed
<1>1. FInv => FailedIffReversed
  <2> SUFFICES ASSUME FInv, NEW t \in TxnIds, txns[t] # None, txns[t].type = "WITHDRAWAL"
               PROVE  txns[t].status = "FAILED" <=>
                        \E s \in TxnIds : txns[s] # None /\ txns[s].type = "REVERSAL"
                                          /\ txns[s].parent = t
    BY DEF FailedIffReversed
  <2>1. Refunded(t)
    BY DEF FInv, CInv, AInv, RInv
  <2>2. \A s \in TxnIds : ReversedFailed(s)
    BY DEF FInv
  <2> QED BY <2>1, <2>2 DEF Refunded, Refund, ReversedFailed
<1>2. ApiSpec => []FInv
  BY FInvInit, FInvNext, PTL DEF ApiSpec
<1> QED BY <1>1, <1>2, PTL

-----------------------------------------------------------------------------
(* The escrow *)

\* Withdrawals are told from other transactions by their names.
Filing(t) == txns[t] # None => (txns[t].type = "WITHDRAWAL" <=> t \in WithdrawalIds)

\* What the pending withdrawals promise is in HOLDING.
Promised(S) == SumOf(RowAmounts(txns, S), S)
Backed == balance[HOLDING] = Promised(PendingWithdrawals)
EscrowInv == CInv /\ Backed /\ \A t \in TxnIds : Filing(t)

LEMMA NewWithdrawals ==
    \A r \in Requests, leg \in Legs : <<r, leg>> \in WithdrawalIds <=> leg = "WD"
BY OpeningAssumption DEF WithdrawalIds

LEMMA RightKind ==
    ASSUME AInv, RightEndpoints(Calls), NEW r \in Requests, Active(r), job[r].op \in Confirming
    PROVE  job[r].txn \in WithdrawalIds <=> job[r].op # "confirmDeposit"
<1>1. Asked(r) /\ Serving(r) /\ job[r] # None
  BY NullAssumption DEF AInv, RInv, IInv, LockDiscipline, JobKnown
<1>2. /\ ask[r] # None /\ ask[r].body.op \in Confirmations /\ job[r].txn = ask[r].body.txn
      /\ job[r].op = "confirmDeposit" <=> ask[r].body.op = "confirmDeposit"
  BY <1>1 DEF Serving
<1>3. PICK c \in Calls : ask[r] = AskOf(c)
  BY <1>1, <1>2 DEF Asked
<1>4. ask[r].body = Validated(c.body)
  BY <1>3 DEF AskOf
<1>5. Validated(c.body).op = c.body.op /\ Validated(c.body).txn = c.body.txn
  BY CallFacts
<1>6. /\ c.body.op \in Confirmations /\ job[r].txn = c.body.txn
      /\ job[r].op = "confirmDeposit" <=> c.body.op = "confirmDeposit"
  BY <1>2, <1>4, <1>5
<1> QED BY <1>6 DEF RightEndpoints, Confirmations

LEMMA FilingKept ==
    ASSUME RInv, NEW r \in Requests, Arrive(r) \/ Proceed(r) \/ Victim(r) \/ Abort(r),
           NEW t \in TxnIds, Filing(t)
    PROVE  Filing(t)'
<1>1. Lasts(t)
  BY RowsLast
<1>2. CASE txns[t] # None \/ txns'[t] = None
  BY <1>1, <1>2 DEF Filing, Lasts
<1>3. CASE txns[t] = None /\ txns'[t] # None
  <2>1. CASE Commit(r)
    <3>1. /\ job[r] \in Job /\ CommitsRow(r, t) /\ JobTrue(r)
          /\ job[r].user \in Users /\ job[r].amount \in Amounts
          /\ job[r].peer \in Users \union {Stranger} /\ job[r].txn \in TxnIds \union {None}
      BY <2>1, CommitWritesRows DEF RInv, Job
    <3>2. job[r].op \in Confirming => t # job[r].txn
      BY <1>3, <3>1, <2>1, CommitWritesRows DEF JobTrue
    <3>3. \/ t = <<r, "WD">> /\ txns'[t].type = "WITHDRAWAL"
          \/ t = <<r, "TRF-WD">> /\ txns'[t].type = "TRANSFER"
          \/ t = <<r, "TRF-FD">> /\ txns'[t].type = "FUNDING"
          \/ t = <<r, "REV">> /\ txns'[t].type = "REVERSAL"
      <4>1. \A type, s, u, a, p : NewTxn(type, s, u, a, p).type = type
        BY DEF NewTxn
      <4> QED BY <1>3, <3>1, <3>2, <4>1 DEF CommitsRow, Confirming
    <3> QED BY <3>3, NewWithdrawals DEF Filing, Legs
  <2>2. ASSUME NEW u \in Users, NEW a \in Amounts, InitiateDeposit(r, u, a)
        PROVE  Filing(t)'
    <3>0. txns'[t] = IF t = <<r, "DEP">> THEN NewTxn("FUNDING", "PENDING", u, a, None) ELSE txns[t]
      BY <2>2, DepositRow
    <3>1. t = <<r, "DEP">> /\ txns'[t].type = "FUNDING"
      BY <1>3, <3>0 DEF NewTxn
    <3> QED BY <3>1, NewWithdrawals DEF Filing, Legs
  <2> QED BY <1>3, <2>1, <2>2, QuietSteps DEF Proceed
<1> QED BY <1>2, <1>3

\* What a commit does to the balance of HOLDING.
LEMMA HoldingMoves ==
    ASSUME RInv, NEW r \in Requests, Commit(r)
    PROVE  LET a == job[r].amount
           IN  /\ job[r].op = "withdraw" => balance'[HOLDING] = balance[HOLDING] + a
               /\ job[r].op \in {"transfer", "confirmDeposit"} =>
                    balance'[HOLDING] = balance[HOLDING]
               /\ job[r].op \in {"settle", "reverse"} =>
                    balance'[HOLDING] = balance[HOLDING] - a
<1> DEFINE j == job[r]
<1>1. /\ j \in Job /\ pc[r] = "commit" /\ balance \in [Wallets -> Int]
      /\ StillAccepted(r) /\ JobKnown(r)
  BY CommitWritesRows DEF RInv, IInv, TypeOK, LockDiscipline
<1>2. j.user \in Users /\ j.amount \in Int /\ balance[HOLDING] \in Int /\ j.user \in Wallets
  BY <1>1, AmountsInt, WalletFacts DEF Job
<1>3. HOLDING \in Wallets /\ SYSTEM \in Wallets /\ HOLDING # SYSTEM /\ j.user # HOLDING
  BY <1>2, WalletFacts
<1>4. CASE CommitWithdrawal(r)
  <2>1. j.op = "withdraw" /\ balance' = Move(balance, j.user, HOLDING, j.amount)
    BY <1>4 DEF CommitWithdrawal, Commits
  <2> QED BY <1>1, <1>2, <1>3, <2>1 DEF Move
<1>5. CASE CommitTransfer(r)
  <2>1. /\ j.op = "transfer"
        /\ balance' = Move(Move(balance, j.user, HOLDING, j.amount), HOLDING, j.peer, j.amount)
    BY <1>5 DEF CommitTransfer, Commits
  <2>2. j.peer \in Users
    BY <1>1, <2>1 DEF StillAccepted, Accepted, Active, Locking
  <2>3. j.peer # HOLDING /\ j.peer \in Wallets
    BY <2>2, WalletFacts
  <2> DEFINE b == Move(balance, j.user, HOLDING, j.amount)
  <2>4. b \in [Wallets -> Int] /\ b[HOLDING] = balance[HOLDING] + j.amount
    BY <1>1, <1>2, <1>3 DEF Move
  <2> HIDE DEF b
  <2>5. balance'[HOLDING] = b[HOLDING] - j.amount
    BY <1>2, <1>3, <2>1, <2>3, <2>4 DEF Move, b
  <2> QED BY <1>2, <2>1, <2>4, <2>5
<1>6. CASE CommitDeposit(r)
  <2>1. j.op = "confirmDeposit" /\ balance' = Move(balance, SYSTEM, j.user, j.amount)
    BY <1>6 DEF CommitDeposit, Commits
  <2> QED BY <1>1, <1>2, <1>3, <2>1 DEF Move
<1>7. CASE CommitSettlement(r)
  <2>1. j.op = "settle" /\ balance' = Move(balance, HOLDING, SYSTEM, j.amount)
    BY <1>7 DEF CommitSettlement, Commits
  <2> QED BY <1>1, <1>2, <1>3, <2>1 DEF Move
<1>8. CASE CommitReversal(r)
  <2>1. j.op = "reverse" /\ balance' = Move(balance, HOLDING, j.user, j.amount)
    BY <1>8 DEF CommitReversal, Commits
  <2> QED BY <1>1, <1>2, <1>3, <2>1 DEF Move
<1> QED BY <1>4, <1>5, <1>6, <1>7, <1>8 DEF Commit

LEMMA PendingFinite ==
    ASSUME RInv, RInv'
    PROVE  IsFiniteSet(PendingWithdrawals) /\ IsFiniteSet(PendingWithdrawals')
<1>1. PendingWithdrawals \subseteq {t \in TxnIds : txns[t] # None}
  BY DEF PendingWithdrawals
<1>2. PendingWithdrawals' \subseteq {t \in TxnIds : txns'[t] # None}
  BY DEF PendingWithdrawals
<1>3. IsFiniteSet({t \in TxnIds : txns'[t] # None})
  BY DEF RInv
<1> QED BY <1>1, <1>2, <1>3, FS_Subset DEF RInv

\* HOLDING keeps its balance and the withdrawals pending are the same, or one
\* is added, or one is taken out.
LEMMA EscrowSame ==
    ASSUME RInv, RInv', Backed, PendingWithdrawals' = PendingWithdrawals,
           \A t \in PendingWithdrawals : txns'[t].amount = txns[t].amount,
           balance'[HOLDING] = balance[HOLDING]
    PROVE  Backed'
<1>1. SumOf(RowAmounts(txns', PendingWithdrawals), PendingWithdrawals) =
        SumOf(RowAmounts(txns, PendingWithdrawals), PendingWithdrawals)
  BY PendingFinite, RowAmountsSame
<1> QED BY <1>1 DEF Backed, Promised

LEMMA EscrowMore ==
    ASSUME RInv, RInv', Backed, NEW x, x \notin PendingWithdrawals,
           PendingWithdrawals' = PendingWithdrawals \union {x},
           \A t \in PendingWithdrawals : txns'[t].amount = txns[t].amount,
           \A t \in PendingWithdrawals' : txns'[t].amount \in Int,
           balance'[HOLDING] = balance[HOLDING] + txns'[x].amount
    PROVE  Backed'
<1> DEFINE P == PendingWithdrawals
<1>1. SumOf(RowAmounts(txns', P), P) = SumOf(RowAmounts(txns, P), P)
  BY PendingFinite, RowAmountsSame
<1>2. /\ SumOf(RowAmounts(txns', P), P) \in Int
      /\ SumOf(RowAmounts(txns', P \union {x}), P \union {x}) =
           txns'[x].amount + SumOf(RowAmounts(txns', P), P)
  BY PendingFinite, RowAmountsAdd
<1>3. txns'[x].amount \in Int
  OBVIOUS
<1>4. balance[HOLDING] = SumOf(RowAmounts(txns, P), P)
  BY DEF Backed, Promised
<1>5. Promised(PendingWithdrawals)' = SumOf(RowAmounts(txns', P \union {x}), P \union {x})
  BY DEF Promised
<1> HIDE DEF P
<1>6. balance'[HOLDING] = Promised(PendingWithdrawals)'
  BY <1>1, <1>2, <1>3, <1>4, <1>5
<1> QED BY <1>6 DEF Backed

LEMMA EscrowLess ==
    ASSUME RInv, RInv', Backed, NEW x, x \notin PendingWithdrawals',
           PendingWithdrawals = PendingWithdrawals' \union {x},
           \A t \in PendingWithdrawals : txns'[t].amount = txns[t].amount,
           \A t \in PendingWithdrawals : txns[t].amount \in Int,
           balance'[HOLDING] = balance[HOLDING] - txns[x].amount
    PROVE  Backed'
<1> DEFINE Q == PendingWithdrawals'
<1>1. SumOf(RowAmounts(txns', Q), Q) = SumOf(RowAmounts(txns, Q), Q)
  BY PendingFinite, RowAmountsSame
<1>2. /\ SumOf(RowAmounts(txns, Q), Q) \in Int
      /\ SumOf(RowAmounts(txns, Q \union {x}), Q \union {x}) =
           txns[x].amount + SumOf(RowAmounts(txns, Q), Q)
  BY PendingFinite, RowAmountsAdd
<1>3. txns[x].amount \in Int
  OBVIOUS
<1>4. balance[HOLDING] = SumOf(RowAmounts(txns, Q \union {x}), Q \union {x})
  BY DEF Backed, Promised
<1>5. Promised(PendingWithdrawals)' = SumOf(RowAmounts(txns', Q), Q)
  BY DEF Promised
<1> HIDE DEF Q
<1>6. balance'[HOLDING] = Promised(PendingWithdrawals)'
  BY <1>1, <1>2, <1>3, <1>4, <1>5
<1> QED BY <1>6 DEF Backed


\* A confirmation of a deposit pays out no withdrawal; another pays out one.
LEMMA PaysOut ==
    ASSUME EscrowInv, RInv', RightEndpoints(Calls), NEW r \in Requests, Commit(r),
           job[r].op \in Confirming, NEW t, t = job[r].txn
    PROVE  /\ t \in TxnIds /\ txns[t] # None /\ txns[t].amount = job[r].amount
           /\ t \in PendingWithdrawals <=> job[r].op # "confirmDeposit"
           /\ t \notin PendingWithdrawals'
           /\ t # <<r, "REV">>
<1>1. /\ Active(r) /\ t \in TxnIds /\ txns[t] # None /\ Pending(t) /\ txns'[t].status # "PENDING"
  BY CommitConfirms DEF EscrowInv
<1>2. job[r] # None /\ JobTrue(r) /\ \A leg \in Legs : txns[<<r, leg>>] = None
  BY CommitWritesRows DEF EscrowInv, CInv, AInv, RInv
<1>3. txns[t].amount = job[r].amount
  BY <1>2 DEF JobTrue
<1>4. t \in WithdrawalIds <=> job[r].op # "confirmDeposit"
  BY <1>1, RightKind DEF EscrowInv, CInv
<1>5. txns[t].type = "WITHDRAWAL" <=> t \in WithdrawalIds
  BY <1>1 DEF EscrowInv, Filing
<1>6. t # <<r, "REV">>
  BY <1>1, <1>2 DEF Legs
<1> QED BY <1>1, <1>3, <1>4, <1>5, <1>6 DEF PendingWithdrawals, Pending

LEMMA CommitKeepsEscrow ==
    ASSUME EscrowInv, RInv', RightEndpoints(Calls), NEW r \in Requests, Commit(r)
    PROVE  Backed'
<1> DEFINE j == job[r]
           P == PendingWithdrawals
<1>1. RInv /\ Backed
  BY DEF EscrowInv, CInv, AInv
<1>2. /\ \A t \in TxnIds : CommitsRow(r, t)
      /\ \A leg \in Legs : txns[<<r, leg>>] = None /\ <<r, leg>> \in TxnIds
      /\ j \in Job
  BY <1>1, CommitWritesRows, NewIds
<1>3. /\ j.user \in Users /\ j.amount \in Amounts /\ j.amount \in Int
      /\ j.peer \in Users \union {Stranger} /\ j.txn \in TxnIds \union {None}
  BY <1>2, AmountsInt DEF Job
<1>4. /\ \A t \in P : txns'[t].amount = txns[t].amount /\ txns[t].amount \in Int
      /\ \A t \in P' : txns'[t].amount \in Int
  <2>1. \A t \in TxnIds : Lasts(t)
    BY <1>1, RowsLast DEF Proceed
  <2>2. \A t \in TxnIds : txns[t] # None => txns[t] \in Row
    BY <1>1 DEF RInv, IInv, TypeOK
  <2>3. \A t \in TxnIds : txns'[t] # None => txns'[t] \in Row
    BY DEF RInv, IInv, TypeOK
  <2>4. \A row \in Row : row.amount \in Int
    BY RowFacts, AmountsInt
  <2> QED BY <2>1, <2>2, <2>3, <2>4 DEF Lasts, PendingWithdrawals
<1>5. CASE j.op = "withdraw"
  <2> DEFINE x == <<r, "WD">>
  <2>1. /\ x \in TxnIds /\ txns[x] = None
        /\ \A t \in TxnIds : t # x => txns'[t] = txns[t]
        /\ txns'[x] = NewTxn("WITHDRAWAL", "PENDING", j.user, j.amount, None)
    BY <1>2, <1>5 DEF CommitsRow, Legs
  <2>2. /\ txns'[x] # None /\ txns'[x].type = "WITHDRAWAL" /\ txns'[x].status = "PENDING"
        /\ txns'[x].amount = j.amount
    <3>1. "WITHDRAWAL" \in Types /\ "PENDING" \in Statuses /\ None \in TxnIds \union {None}
      BY DEF Types, Statuses
    <3> QED BY <1>3, <2>1, <3>1, NewTxnFacts
  <2> HIDE DEF x
  <2>3. x \notin P /\ P' = P \union {x}
    BY <2>1, <2>2 DEF PendingWithdrawals
  <2>4. balance'[HOLDING] = balance[HOLDING] + j.amount
    BY <1>1, <1>5, HoldingMoves
  <2> QED BY <1>1, <1>4, <2>2, <2>3, <2>4, EscrowMore
<1>6. CASE j.op = "transfer"
  <2>1. j.peer \in Users
    BY <1>2, <1>6, NewIds DEF CommitsRow, Legs
  <2>2. \A t \in TxnIds :
          txns'[t] = IF t = <<r, "TRF-WD">>
                     THEN NewTxn("TRANSFER", "SUCCESSFUL", j.user, j.amount, None)
                     ELSE IF t = <<r, "TRF-FD">>
                     THEN NewTxn("FUNDING", "SUCCESSFUL", j.peer, j.amount, None) ELSE txns[t]
    BY <1>2, <1>6 DEF CommitsRow
  <2>3. P' = P
    BY <1>2, <2>2 DEF PendingWithdrawals, NewTxn, Legs
  <2>4. balance'[HOLDING] = balance[HOLDING]
    BY <1>1, <1>6, HoldingMoves
  <2> QED BY <1>1, <1>4, <2>3, <2>4, EscrowSame
<1>7. CASE j.op = "confirmDeposit"
  <2>1. j.txn \notin P /\ j.txn \notin P'
    BY <1>7, PaysOut DEF Confirming
  <2>2. \A t \in TxnIds : t # j.txn => txns'[t] = txns[t]
    BY <1>2, <1>7 DEF CommitsRow
  <2>3. P' = P
    BY <2>1, <2>2 DEF PendingWithdrawals
  <2>4. balance'[HOLDING] = balance[HOLDING]
    BY <1>1, <1>7, HoldingMoves
  <2> QED BY <1>1, <1>4, <2>3, <2>4, EscrowSame
<1>8. CASE j.op \in {"settle", "reverse"}
  <2>1. j.txn \in P /\ j.txn \notin P' /\ txns[j.txn].amount = j.amount
    BY <1>8, PaysOut DEF Confirming
  <2>2. \A t \in TxnIds : t # j.txn /\ t # <<r, "REV">> => txns'[t] = txns[t]
    BY <1>2, <1>8 DEF CommitsRow
  <2>3. <<r, "REV">> \notin P /\ <<r, "REV">> \notin P'
    <3>1. txns[<<r, "REV">>] = None /\ CommitsRow(r, <<r, "REV">>)
      BY <1>2 DEF Legs
    <3>2. CASE j.op = "settle"
      <4>1. <<r, "REV">> # j.txn
        BY <1>8, PaysOut DEF Confirming
      <4> QED BY <3>1, <3>2, <4>1 DEF CommitsRow, PendingWithdrawals
    <3>3. CASE j.op = "reverse"
      BY <3>1, <3>3 DEF CommitsRow, NewTxn, PendingWithdrawals
    <3> QED BY <1>8, <3>2, <3>3
  <2>4. P = P' \union {j.txn}
    BY <2>1, <2>2, <2>3 DEF PendingWithdrawals
  <2>5. balance'[HOLDING] = balance[HOLDING] - j.amount
    BY <1>1, <1>8, HoldingMoves
  <2> QED BY <1>1, <1>4, <2>1, <2>4, <2>5, EscrowLess
<1> QED BY <1>2, <1>5, <1>6, <1>7, <1>8 DEF Job, Ops

LEMMA EscrowInvNext ==
    ASSUME OneConfirmer(Calls), RightEndpoints(Calls)
    PROVE  EscrowInv /\ [ApiNext]_apiVars => EscrowInv'
<1> SUFFICES ASSUME EscrowInv, [ApiNext]_apiVars PROVE EscrowInv'
  OBVIOUS
<1>1. CInv' /\ RInv' /\ RInv /\ CInv /\ Backed
  BY CInvNext DEF EscrowInv, CInv, AInv
<1>2. CASE UNCHANGED <<balance, txns>>
  BY <1>1, <1>2 DEF EscrowInv, Backed, Promised, PendingWithdrawals, Filing
<1>3. ASSUME NEW r \in Requests, Arrive(r) \/ Proceed(r) \/ Victim(r) \/ Abort(r)
      PROVE  EscrowInv'
  <2>1. \A t \in TxnIds : Filing(t)'
    BY <1>1, <1>3, FilingKept DEF EscrowInv
  <2>2. CASE Commit(r)
    BY <1>1, <2>1, <2>2, CommitKeepsEscrow DEF EscrowInv
  <2>3. CASE UNCHANGED <<balance, txns>>
    BY <1>2, <2>3
  <2>4. ASSUME NEW u \in Users, NEW a \in Amounts, InitiateDeposit(r, u, a)
        PROVE  EscrowInv'
    <3>1. txns[<<r, "DEP">>] = None
          /\ \A t \in TxnIds :
               txns'[t] = IF t = <<r, "DEP">> THEN NewTxn("FUNDING", "PENDING", u, a, None)
                          ELSE txns[t]
      BY <1>1, <2>4, DepositRow
    <3>2. PendingWithdrawals' = PendingWithdrawals
      BY <3>1 DEF PendingWithdrawals, NewTxn
    <3>3. \A t \in PendingWithdrawals : txns'[t].amount = txns[t].amount
      BY <3>1 DEF PendingWithdrawals
    <3>4. balance'[HOLDING] = balance[HOLDING]
      BY <2>4 DEF InitiateDeposit
    <3> QED BY <1>1, <2>1, <3>2, <3>3, <3>4, EscrowSame DEF EscrowInv
  <2> QED BY <1>3, <2>2, <2>3, <2>4, QuietSteps DEF Proceed
<1>4. UNCHANGED vars \/ ServerDies => UNCHANGED <<balance, txns>>
  BY <1>1, ServerDiesKeeps DEF vars, db, CInv, AInv
<1> QED BY <1>1, <1>2, <1>3, <1>4, ServiceSteps DEF CInv

LEMMA EscrowInvInit == ApiInit => EscrowInv
<1> SUFFICES ASSUME ApiInit PROVE EscrowInv
  OBVIOUS
<1>1. CInv /\ RInv
  BY FInvInit DEF FInv, CInv, AInv
<1>2. /\ DOMAIN OpeningTxns \subseteq TxnIds
      /\ \A t \in DOMAIN OpeningTxns : txns[t] = OpeningTxns[t] /\ txns[t] # None
      /\ \A t \in TxnIds : txns[t] # None => t \in DOMAIN OpeningTxns
  <2>1. \A t \in DOMAIN OpeningTxns : OpeningTxns[t] # None
    BY OpeningAssumption, RowFacts
  <2> QED BY <2>1 DEF ApiInit, Init, TxnIds
<1>3. \A t \in TxnIds : Filing(t)
  <2>1. \A t \in DOMAIN OpeningTxns : t \notin Requests \X {"WD"}
    BY OpeningAssumption DEF Legs
  <2> QED BY <1>2, <2>1 DEF Filing, WithdrawalIds
<1>4. Backed
  <2> DEFINE P == PendingWithdrawals
  <2>1. P = {t \in DOMAIN OpeningTxns :
               OpeningTxns[t].type = "WITHDRAWAL" /\ OpeningTxns[t].status = "PENDING"}
    BY <1>2 DEF PendingWithdrawals
  <2>2. IsFiniteSet(P)
    BY <2>1, OpeningAssumption, FS_Subset
  <2>3. MapThenSumSet(LAMBDA t : OpeningTxns[t].amount, P) = SumOf(RowAmounts(OpeningTxns, P), P)
    BY <2>2, SumOfRowAmounts
  <2>4. balance[HOLDING] = MapThenSumSet(LAMBDA t : OpeningTxns[t].amount, P)
    BY <2>1, EscrowAssumption DEF ApiInit, Init
  <2>5. \A t \in P : OpeningTxns[t].amount = txns[t].amount
    BY <1>2, <2>1
  <2>6. SumOf(RowAmounts(OpeningTxns, P), P) = SumOf(RowAmounts(txns, P), P)
    BY <2>2, <2>5, RowAmountsSame
  <2> QED BY <2>3, <2>4, <2>6 DEF Backed, Promised
<1> QED BY <1>1, <1>3, <1>4 DEF EscrowInv

\* HOLDING has what the pending withdrawals wait for, whatever crashes or is
\* sent again, as long as withdrawals are confirmed as withdrawals: nothing in
\* the services compares the two (withdrawal.service.ts:29-87, 106-178).
THEOREM EscrowBalanced ==
    ASSUME OneConfirmer(Calls), RightEndpoints(Calls)
    PROVE  ApiSpec => []Escrow
<1>1. EscrowInv => Escrow
  <2> SUFFICES ASSUME EscrowInv PROVE Escrow
    OBVIOUS
  <2>1. IsFiniteSet(PendingWithdrawals)
    <3>1. PendingWithdrawals \subseteq {t \in TxnIds : txns[t] # None}
      BY DEF PendingWithdrawals
    <3> QED BY <3>1, FS_Subset DEF EscrowInv, CInv, AInv, RInv
  <2>2. MapThenSumSet(LAMBDA t : txns[t].amount, PendingWithdrawals) = Promised(PendingWithdrawals)
    BY <2>1, SumOfRowAmounts DEF Promised
  <2> QED BY <2>2 DEF EscrowInv, Backed, Escrow
<1>2. ApiSpec => []EscrowInv
  BY EscrowInvInit, EscrowInvNext, PTL DEF ApiSpec
<1> QED BY <1>1, <1>2, PTL

=============================================================================
