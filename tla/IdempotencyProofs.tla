------------------------- MODULE IdempotencyProofs --------------------------
(* Proofs about Idempotency, for any number of requests, keys and bodies.    *)
EXTENDS Idempotency, TLAPS

IInv == IdempotencyTypeOK /\ RowsOwned

\* A request that has arrived has a key and a body, and its row is well formed.
LEMMA AskTyped ==
    ASSUME IInv, NEW r \in Requests, phase[r] # "new"
    PROVE  /\ ask[r] \in [key : Keys, body : Bodies]
           /\ ask[r].key \in Keys /\ ask[r].body \in Bodies
           /\ RowOf(r) # None => RowOf(r) \in KeyRow
<1>1. ask[r] # None
  BY DEF IInv, RowsOwned, AskKnown
<1>2. ask[r] \in [key : Keys, body : Bodies]
  BY <1>1 DEF IInv, IdempotencyTypeOK
<1>3. ask[r].key \in Keys /\ ask[r].body \in Bodies
  BY <1>2
<1> QED BY <1>2, <1>3 DEF IInv, IdempotencyTypeOK, RowOf

\* The requests of createKey and of the middleware keep the types.
LEMMA ArriveTyped ==
    ASSUME IInv, NEW r \in Requests, NEW k \in Keys, NEW b \in Bodies, Lookup(r, k, b)
    PROVE  IdempotencyTypeOK'
<1> USE DEF IInv, IdempotencyTypeOK, InFlight, Goto
<1>1. CASE Pass(r, k, b)
  BY <1>1 DEF Pass, Arrives
<1>2. CASE RefuseKey(r, k, b)
  BY <1>2 DEF RefuseKey, Arrives, Answer, Reply
<1>3. CASE Replay(r, k, b)
  <2>1. rows[k].cached \in Requests \union {None}
    BY <1>3 DEF Replay, Valid, KeyRow
  <2>2. [kind |-> "replay", from |-> rows[k].cached] \in Reply
    BY <2>1 DEF Reply
  <2> QED BY <1>3, <2>2 DEF Replay, Arrives, Answer
<1> QED BY <1>1, <1>2, <1>3 DEF Lookup

LEMMA CreateKeyTyped ==
    ASSUME IInv, NEW r \in Requests, CreateKey(r)
    PROVE  IdempotencyTypeOK'
<1>1. phase[r] # "new"
  BY DEF CreateKey, Recheck, Clear, Insert, RefuseDuplicate
<1>2. ask[r].key \in Keys /\ ask[r].body \in Bodies
  BY <1>1, AskTyped
<1>3. rows[ask[r].key] # None => rows[ask[r].key].id \in Requests
  BY <1>2 DEF IInv, IdempotencyTypeOK, KeyRow
<1> USE DEF IInv, IdempotencyTypeOK, InFlight, Goto
<1>4. CASE Recheck(r)
  BY <1>4, <1>3 DEF Recheck, Expired
<1>5. CASE Clear(r)
  BY <1>5 DEF Clear
<1>6. CASE Insert(r)
  BY <1>6, <1>2 DEF Insert, KeyRow
<1>7. CASE RefuseDuplicate(r)
  BY <1>7 DEF RefuseDuplicate, Answer, Reply
<1> QED BY <1>4, <1>5, <1>6, <1>7 DEF CreateKey

LEMMA HandleTyped ==
    ASSUME IInv, NEW r \in Requests, Handle(r)
    PROVE  IdempotencyTypeOK'
<1>1. phase[r] # "new"
  BY DEF Handle, ServiceCommits, Succeed, Fail
<1>2. ask[r].key \in Keys
  BY <1>1, AskTyped
<1> USE DEF IInv, IdempotencyTypeOK, InFlight, Goto
<1>3. CASE ServiceCommits(r)
  BY <1>3 DEF ServiceCommits
<1>4. CASE Succeed(r, {})
  BY <1>4, <1>2 DEF Succeed, Spawn, Effect, Answer, Reply
<1>5. CASE Fail(r)
  BY <1>5, <1>2 DEF Fail, Spawn, Effect, Answer, Reply
<1> QED BY <1>3, <1>4, <1>5 DEF Handle

LEMMA LandTyped ==
    ASSUME IInv, NEW e \in effects, Land(e)
    PROVE  IdempotencyTypeOK'
<1> USE DEF IInv, IdempotencyTypeOK
<1>1. e.key \in Keys /\ e.by \in Requests
  BY DEF Effect
<1>2. CASE Complete(e)
  BY <1>1, <1>2 DEF Land, Complete, KeyRow
<1>3. CASE Delete(e)
  BY <1>1, <1>3 DEF Land, Delete
<1> QED BY <1>2, <1>3 DEF Land

LEMMA WorldTyped ==
    ASSUME IInv, Crash \/ (\E k \in Keys : Expire(k)) \/ UNCHANGED keyVars
    PROVE  IdempotencyTypeOK'
<1> USE IdempotencyAssumption DEF IInv, IdempotencyTypeOK
<1>1. CASE Crash
  BY <1>1 DEF Crash, Dies, InFlight, Reply
<1>2. ASSUME NEW k \in Keys, Expire(k) PROVE IdempotencyTypeOK'
  BY <1>2 DEF Expire, Valid, KeyRow, With
<1>3. CASE UNCHANGED keyVars
  BY <1>3 DEF keyVars
<1> QED BY <1>1, <1>2, <1>3

-----------------------------------------------------------------------------
\* The owner of a row is past its insert.
LEMMA RowOwner ==
    ASSUME IInv, NEW k \in Keys, rows[k] # None
    PROVE  /\ rows[k].id \in Requests
           /\ phase[rows[k].id] \in {"handling", "committed", "answered"}
           /\ ask[rows[k].id].key = k
<1>1. rows[k] \in KeyRow
  BY DEF IInv, IdempotencyTypeOK
<1>2. rows[k].id \in Requests
  BY <1>1 DEF KeyRow
<1>3. RowKnown(k)
  BY DEF IInv, RowsOwned
<1> QED BY <1>2, <1>3 DEF RowKnown, Handling

\* A row keeps its owner while the row stays and its owner goes on or ends.
LEMMA RowStays ==
    ASSUME NEW k, RowKnown(k), rows'[k] = rows[k],
           rows[k] # None =>
             /\ ask'[rows[k].id] = ask[rows[k].id]
             /\ \/ phase'[rows[k].id] = phase[rows[k].id]
                \/ Handling(rows[k].id) /\ phase'[rows[k].id] \in {"committed", "answered"},
           committed \subseteq committed'
    PROVE  RowKnown(k)'
<1>1. CASE rows[k] = None
  BY <1>1 DEF RowKnown
<1>2. CASE rows[k] # None
  <2>0. PICK q : q = rows[k].id
    OBVIOUS
  <2>1. /\ ask[q] = [key |-> k, body |-> rows[k].body]
        /\ Handling(q) \/ phase[q] = "answered"
        /\ Handling(q) => rows[k].live /\ rows[k].status = "PROCESSING"
        /\ rows[k].status = "COMPLETED" => rows[k].cached = q /\ q \in committed
    BY <1>2, <2>0 DEF RowKnown
  <2>2. /\ Handling(q)' \/ phase'[q] = "answered"
        /\ Handling(q)' => Handling(q)
        /\ ask'[q] = ask[q]
    BY <1>2, <2>0, <2>1 DEF Handling
  <2>3. rows'[k].id = q
    BY <2>0
  <2>4. /\ ask'[q] = [key |-> k, body |-> rows'[k].body]
        /\ Handling(q)' \/ phase'[q] = "answered"
        /\ Handling(q)' => rows'[k].live /\ rows'[k].status = "PROCESSING"
        /\ rows'[k].status = "COMPLETED" => rows'[k].cached = q /\ q \in committed'
    BY <2>1, <2>2
  <2> QED BY <2>3, <2>4 DEF RowKnown
<1> QED BY <1>1, <1>2

\* A request that arrives owns nothing yet, and disturbs nothing.
LEMMA ArriveOwned ==
    ASSUME IInv, NEW r \in Requests, NEW k0 \in Keys, NEW b \in Bodies, Lookup(r, k0, b)
    PROVE  RowsOwned'
<1> USE NoneAssumption DEF IInv, RowsOwned, IdempotencyTypeOK
<1>1. /\ phase[r] = "new"
      /\ phase' = [phase EXCEPT ![r] = phase'[r]] /\ phase'[r] \in {"recheck", "answered"}
      /\ ask' = [ask EXCEPT ![r] = [key |-> k0, body |-> b]]
      /\ UNCHANGED <<stale, rows, effects, committed, lapsed>>
  BY DEF Lookup, Pass, RefuseKey, Replay, Arrives, Goto, Answer
<1>2. r \notin committed /\ \A q \in Requests : q # r => phase'[q] = phase[q] /\ ask'[q] = ask[q]
  BY <1>1 DEF ExecutedOwns
<1>3. \A q \in Requests : AskKnown(q)' /\ HandlerOwns(q)'
  BY <1>1, <1>2 DEF AskKnown, HandlerOwns, RowOf, Handling
<1>4. \A q \in Requests : ClearsExpired(q)'
  <2> SUFFICES ASSUME NEW q \in Requests, phase'[q] = "clear" PROVE ClearsExpired(q)'
    BY DEF ClearsExpired
  <2>1. q # r /\ phase[q] = "clear" /\ stale[q] # r
    BY <1>1, <1>2 DEF ClearsExpired
  <2> QED BY <1>1, <1>2, <2>1 DEF ClearsExpired, IsStale, RowOf
<1>5. \A q \in Requests : ExecutedOwns(q)'
  BY <1>1, <1>2 DEF ExecutedOwns, RowOf
<1>6. \A k \in Keys : RowKnown(k)'
  <2> SUFFICES ASSUME NEW k \in Keys, rows[k] # None PROVE RowKnown(k)'
    BY <1>1 DEF RowKnown
  <2>1. rows[k].id \in Requests /\ rows[k].id # r
    BY <1>1, RowOwner
  <2>2. RowKnown(k) /\ rows'[k] = rows[k] /\ committed \subseteq committed'
    BY <1>1
  <2> QED BY <1>2, <2>1, <2>2, RowStays
<1>7. \A e \in effects' : EffectOwns(e)'
  <2> SUFFICES ASSUME NEW e \in effects PROVE EffectOwns(e)'
    BY <1>1
  <2>1. e.by \in Requests /\ e.by # r
    BY <1>1 DEF EffectOwns, Effect
  <2> QED BY <1>1, <1>2, <2>1 DEF EffectOwns
<1> QED BY <1>1, <1>3, <1>4, <1>5, <1>6, <1>7

\* The unique index lets a row in only where there is none, and so no effect of
\* another request is left for it (idempotency.service.ts:44).
LEMMA InsertOwned ==
    ASSUME IInv, NEW r \in Requests, Insert(r)
    PROVE  RowsOwned'
<1>0. PICK k0 : k0 = ask[r].key
  OBVIOUS
<1> DEFINE n == [id |-> r, body |-> ask[r].body, status |-> "PROCESSING",
                 cached |-> None, live |-> TRUE]
<1>1. phase[r] = "insert"
  BY DEF Insert
<1>2. ask[r] = [key |-> k0, body |-> ask[r].body] /\ k0 \in Keys /\ n \in KeyRow
  BY <1>0, <1>1, AskTyped DEF KeyRow
<1> USE NoneAssumption DEF IInv, RowsOwned, IdempotencyTypeOK
<1>3. /\ rows[k0] = None /\ rows'[k0] = n /\ n # None
      /\ \A k \in Keys : k # k0 => rows'[k] = rows[k]
      /\ phase'[r] = "handling"
      /\ \A q \in Requests : q # r => phase'[q] = phase[q]
      /\ UNCHANGED <<ask, stale, effects, committed, lapsed>>
  BY <1>0, <1>2 DEF Insert, CanInsert, Goto
<1> HIDE DEF n
<1>4. n.id = r /\ n.body = ask[r].body /\ n.status = "PROCESSING" /\ n.live
  BY DEF n
<1>5. r \notin committed
  BY <1>1 DEF ExecutedOwns
<1>6. \A q \in Requests : AskKnown(q)'
  BY <1>1, <1>3 DEF AskKnown
<1>7. \A q \in Requests : HandlerOwns(q)'
  <2> SUFFICES ASSUME NEW q \in Requests, Handling(q)' PROVE HandlerOwns(q)'
    BY DEF HandlerOwns
  <2>1. CASE q = r
    <3>1. RowOf(r)' = n
      BY <1>0, <1>3 DEF RowOf
    <3> QED BY <2>1, <3>1, <1>3, <1>4 DEF HandlerOwns
  <2>2. CASE q # r
    <3>1. phase[q] # "new" /\ RowOf(q) # None /\ RowOf(q).id = q
      BY <2>2, <1>3 DEF HandlerOwns, Handling
    <3>2. ask[q].key \in Keys
      BY <3>1, AskTyped
    <3> QED BY <3>1, <3>2, <1>3 DEF HandlerOwns, RowOf
  <2> QED BY <2>1, <2>2
<1>8. \A q \in Requests : ClearsExpired(q)'
  <2> SUFFICES ASSUME NEW q \in Requests, phase'[q] = "clear" PROVE ClearsExpired(q)'
    BY DEF ClearsExpired
  <2>1. q # r /\ phase[q] = "clear" /\ stale[q] # r
    BY <1>1, <1>3 DEF ClearsExpired
  <2>2. ask[q].key \in Keys
    BY <2>1, AskTyped
  <2> QED BY <1>1, <1>3, <1>4, <2>1, <2>2 DEF ClearsExpired, IsStale, RowOf
<1>9. \A q \in Requests : ExecutedOwns(q)'
  <2> SUFFICES ASSUME NEW q \in Requests, q # r PROVE ExecutedOwns(q)'
    BY <1>3, <1>5 DEF ExecutedOwns
  <2>1. CASE phase[q] = "new"
    BY <2>1, <1>3 DEF ExecutedOwns
  <2>2. CASE phase[q] # "new"
    <3>1. ask[q].key \in Keys
      BY <2>2, AskTyped
    <3> QED BY <3>1, <1>3 DEF ExecutedOwns, RowOf
  <2> QED BY <2>1, <2>2
<1>10. \A k \in Keys : RowKnown(k)'
  <2>1. RowKnown(k0)'
    <3>1. ask'[r] = [key |-> k0, body |-> rows'[k0].body] /\ rows'[k0].id = r
      BY <1>2, <1>3, <1>4
    <3> QED BY <3>1, <1>3, <1>4 DEF RowKnown, Handling
  <2>2. ASSUME NEW k \in Keys, k # k0, rows[k] # None PROVE RowKnown(k)'
    <3>1. rows[k].id \in Requests /\ rows[k].id # r
      BY <1>1, <2>2, RowOwner
    <3>2. RowKnown(k) /\ rows'[k] = rows[k] /\ committed \subseteq committed'
      BY <2>2, <1>3
    <3> QED BY <1>3, <3>1, <3>2, RowStays
  <2>3. ASSUME NEW k \in Keys, k # k0, rows[k] = None PROVE RowKnown(k)'
    BY <2>3, <1>3 DEF RowKnown
  <2> QED BY <2>1, <2>2, <2>3
<1>11. \A e \in effects' : EffectOwns(e)'
  <2> SUFFICES ASSUME NEW e \in effects PROVE EffectOwns(e)'
    BY <1>3
  <2>1. e.by \in Requests /\ e.key \in Keys /\ e.by # r /\ e.key # k0
    BY <1>1, <1>3 DEF EffectOwns, Effect
  <2> QED BY <1>3, <2>1 DEF EffectOwns
<1> QED BY <1>3, <1>6, <1>7, <1>8, <1>9, <1>10, <1>11

\* A request that owns nothing yet goes on, or is answered.
LEMMA GoesOwned ==
    ASSUME IInv, NEW r \in Requests, phase[r] \in {"recheck", "insert"},
           phase'[r] \in {"clear", "insert", "answered"},
           \A q \in Requests : q # r => phase'[q] = phase[q] /\ stale'[q] = stale[q],
           UNCHANGED <<ask, rows, effects, committed, lapsed>>,
           ClearsExpired(r)'
    PROVE  RowsOwned'
<1> USE NoneAssumption DEF IInv, RowsOwned, IdempotencyTypeOK
<1>1. \A q \in Requests : AskKnown(q)' /\ HandlerOwns(q)'
  BY DEF AskKnown, HandlerOwns, RowOf, Handling
<1>2. \A q \in Requests : ClearsExpired(q)'
  <2> SUFFICES ASSUME NEW q \in Requests, q # r, phase'[q] = "clear" PROVE ClearsExpired(q)'
    BY DEF ClearsExpired
  <2>1. phase[q] = "clear" /\ stale[q] # r
    BY DEF ClearsExpired
  <2> QED BY <2>1 DEF ClearsExpired, IsStale, RowOf
<1>3. \A q \in Requests : ExecutedOwns(q)'
  BY DEF ExecutedOwns, RowOf
<1>4. \A k \in Keys : RowKnown(k)'
  <2> SUFFICES ASSUME NEW k \in Keys, rows[k] # None PROVE RowKnown(k)'
    BY DEF RowKnown
  <2>1. rows[k].id \in Requests /\ rows[k].id # r
    BY RowOwner
  <2>2. RowKnown(k) /\ rows'[k] = rows[k] /\ committed \subseteq committed'
    OBVIOUS
  <2> QED BY <2>1, <2>2, RowStays
<1>5. \A e \in effects' : EffectOwns(e)'
  <2> SUFFICES ASSUME NEW e \in effects PROVE EffectOwns(e)'
    OBVIOUS
  <2>1. e.by \in Requests /\ e.by # r
    BY DEF EffectOwns, Effect
  <2> QED BY <2>1 DEF EffectOwns
<1> QED BY <1>1, <1>2, <1>3, <1>4, <1>5

LEMMA RecheckOwned ==
    ASSUME IInv, NEW r \in Requests, Recheck(r) \/ RefuseDuplicate(r)
    PROVE  RowsOwned'
<1>1. CASE Recheck(r)
  <2>1. ask[r].key \in Keys
    BY <1>1, AskTyped DEF Recheck
  <2>2. PICK k : k = ask[r].key
    OBVIOUS
  <2>3. /\ phase' = [phase EXCEPT ![r] = IF Expired(k) THEN "clear" ELSE "insert"]
        /\ stale' = [stale EXCEPT ![r] = IF Expired(k) THEN rows[k].id ELSE None]
        /\ UNCHANGED <<ask, rows, effects, committed, lapsed>> /\ phase[r] = "recheck"
    BY <1>1, <2>2 DEF Recheck, Goto
  <2>4. Expired(k) =>
          /\ rows[k].id \in Requests /\ phase[rows[k].id] = "answered" /\ ~rows[k].live
    BY <2>1, <2>2, RowOwner DEF Expired, IInv, RowsOwned, RowKnown, Handling
  <2>5. ClearsExpired(r)'
    BY <2>2, <2>3, <2>4 DEF ClearsExpired, IsStale, RowOf, IInv, IdempotencyTypeOK
  <2> QED BY <2>3, <2>5, GoesOwned DEF IInv, IdempotencyTypeOK
<1>2. CASE RefuseDuplicate(r)
  <2>1. /\ phase' = [phase EXCEPT ![r] = "answered"] /\ phase[r] = "insert"
        /\ UNCHANGED <<ask, stale, rows, effects, committed, lapsed>>
    BY <1>2 DEF RefuseDuplicate, Answer, Goto
  <2>2. ClearsExpired(r)'
    BY <2>1 DEF ClearsExpired, IInv, IdempotencyTypeOK
  <2> QED BY <2>1, <2>2, GoesOwned DEF IInv, IdempotencyTypeOK
<1> QED BY <1>1, <1>2

\* Only a row that has expired is cleared, and it has neither a handler nor an
\* effect (idempotency.service.ts:39).
LEMMA ClearOwned ==
    ASSUME IInv, NEW r \in Requests, Clear(r)
    PROVE  RowsOwned'
<1>0. PICK k0 : k0 = ask[r].key
  OBVIOUS
<1>1. phase[r] = "clear" /\ k0 \in Keys
  BY <1>0, AskTyped DEF Clear
<1> USE NoneAssumption DEF IInv, RowsOwned, IdempotencyTypeOK
<1>2. /\ phase'[r] = "insert" /\ \A q \in Requests : q # r => phase'[q] = phase[q]
      /\ \A k \in Keys : rows'[k] = rows[k] \/ (rows'[k] = None /\ k = k0 /\ IsStale(r))
      /\ UNCHANGED <<ask, stale, effects, committed, lapsed>>
  BY <1>0, <1>1 DEF Clear, Goto
<1>3. IsStale(r) =>
        /\ rows[k0] # None /\ rows[k0].id = stale[r] /\ phase[stale[r]] = "answered"
        /\ ~rows[k0].live
  BY <1>0, <1>1 DEF ClearsExpired, IsStale, RowOf
<1>4. \A q \in Requests : AskKnown(q)'
  BY <1>1, <1>2 DEF AskKnown
<1>5. \A q \in Requests : HandlerOwns(q)'
  <2> SUFFICES ASSUME NEW q \in Requests, Handling(q)' PROVE HandlerOwns(q)'
    BY DEF HandlerOwns
  <2>1. /\ phase[q] \in {"handling", "committed"} /\ RowOf(q) # None /\ RowOf(q).id = q
    BY <1>2 DEF HandlerOwns, Handling
  <2>2. ask[q].key \in Keys
    BY <2>1, AskTyped
  <2> QED BY <1>2, <1>3, <2>1, <2>2 DEF HandlerOwns, RowOf
<1>6. \A q \in Requests : ClearsExpired(q)'
  <2> SUFFICES ASSUME NEW q \in Requests, phase'[q] = "clear" PROVE ClearsExpired(q)'
    BY DEF ClearsExpired
  <2>1. q # r /\ phase[q] = "clear" /\ stale[q] # r
    BY <1>1, <1>2 DEF ClearsExpired
  <2>2. ask[q].key \in Keys
    BY <2>1, AskTyped
  <2> QED BY <1>1, <1>2, <2>1, <2>2 DEF ClearsExpired, IsStale, RowOf
<1>7. \A q \in Requests : ExecutedOwns(q)'
  <2> SUFFICES ASSUME NEW q \in Requests PROVE ExecutedOwns(q)'
    OBVIOUS
  <2>1. q \in committed => q # r /\ ask[q].key \in Keys
    BY <1>1, AskTyped DEF ExecutedOwns
  <2> QED BY <1>1, <1>2, <1>3, <2>1 DEF ExecutedOwns, RowOf
<1>8. \A k \in Keys : RowKnown(k)'
  <2> SUFFICES ASSUME NEW k \in Keys, rows'[k] # None PROVE RowKnown(k)'
    BY DEF RowKnown
  <2>1. rows'[k] = rows[k] /\ RowKnown(k) /\ committed \subseteq committed'
    BY <1>2
  <2>2. rows[k].id \in Requests /\ rows[k].id # r
    BY <1>1, <2>1, RowOwner
  <2> QED BY <1>2, <2>1, <2>2, RowStays
<1>9. \A e \in effects' : EffectOwns(e)'
  <2> SUFFICES ASSUME NEW e \in effects PROVE EffectOwns(e)'
    BY <1>2
  <2>1. e.by \in Requests /\ e.key \in Keys /\ e.by # r
    BY <1>1 DEF EffectOwns, Effect
  <2> QED BY <1>2, <1>3, <2>1 DEF EffectOwns
<1> QED BY <1>2, <1>4, <1>5, <1>6, <1>7, <1>8, <1>9

\* A request that is handled goes on to its commit or to its answer: it keeps
\* its row, and at the answer it leaves it to one effect.
LEMMA HandledOwned ==
    ASSUME IInv, NEW r \in Requests, Handle(r)
    PROVE  RowsOwned'
<1>0. PICK k0 : k0 = ask[r].key
  OBVIOUS
<1>1. Handling(r) /\ phase[r] # "new" /\ k0 \in Keys
  BY <1>0, AskTyped DEF Handle, ServiceCommits, Succeed, Fail, Handling
<1> USE NoneAssumption DEF IInv, RowsOwned, IdempotencyTypeOK
<1>2. /\ rows[k0] # None /\ rows[k0].id = r /\ rows[k0].live
      /\ rows[k0].status = "PROCESSING"
  <2>1. HandlerOwns(r) /\ RowKnown(k0)
    BY <1>1
  <2>2. rows[k0] # None /\ rows[k0].id = r
    BY <2>1, <1>0, <1>1 DEF HandlerOwns, RowOf
  <2> QED BY <2>1, <2>2, <1>1 DEF RowKnown
<1>3. /\ phase'[r] \in {"committed", "answered"}
      /\ \A q \in Requests : q # r => phase'[q] = phase[q]
      /\ UNCHANGED <<ask, stale, rows, lapsed>>
      /\ committed' = committed \/ (committed' = committed \union {r} /\ phase'[r] = "committed")
      /\ phase'[r] = "committed" => r \in committed' /\ effects' = effects
  BY DEF Handle, ServiceCommits, Succeed, Fail, Goto, Answer
<1>4. \A e \in effects : e.by \in Requests /\ e.by # r
  BY <1>1 DEF EffectOwns, Effect, Handling
<1>5. \A e \in effects' : e \in effects \/
        /\ e.by = r /\ e.key = k0 /\ phase'[r] = "answered"
        /\ e.kind = "complete" => r \in committed'
        /\ e.kind = "delete" => LostAcks \/ r \notin committed'
  <2>1. CASE ServiceCommits(r)
    BY <2>1 DEF ServiceCommits
  <2>2. CASE Succeed(r, {})
    BY <2>2, <1>0 DEF Succeed, Spawn, Answer, Goto, ExecutedOwns
  <2>3. CASE Fail(r)
    BY <2>3, <1>0 DEF Fail, Spawn, Answer, Goto, ExecutedOwns
  <2> QED BY <2>1, <2>2, <2>3 DEF Handle
<1>6. (\A e, f \in effects : e.by = f.by => e = f)'
  <2>1. CASE ServiceCommits(r)
    BY <2>1 DEF ServiceCommits
  <2>2. CASE Succeed(r, {})
    BY <2>2, <1>4 DEF Succeed, Spawn
  <2>3. CASE Fail(r)
    BY <2>3, <1>4 DEF Fail, Spawn
  <2> QED BY <2>1, <2>2, <2>3 DEF Handle
<1>7. \A e \in effects' : EffectOwns(e)'
  <2>1. ASSUME NEW e \in effects PROVE EffectOwns(e)'
    BY <2>1, <1>3, <1>4 DEF EffectOwns
  <2>2. ASSUME NEW e \in effects', e \notin effects PROVE EffectOwns(e)'
    BY <2>2, <1>2, <1>3, <1>5 DEF EffectOwns
  <2> QED BY <2>1, <2>2
<1>8. \A q \in Requests : AskKnown(q)' /\ HandlerOwns(q)'
  BY <1>0, <1>1, <1>2, <1>3 DEF AskKnown, HandlerOwns, RowOf, Handling
<1>9. \A q \in Requests : ClearsExpired(q)'
  <2> SUFFICES ASSUME NEW q \in Requests, phase'[q] = "clear" PROVE ClearsExpired(q)'
    BY DEF ClearsExpired
  <2>1. q # r /\ phase[q] = "clear" /\ stale[q] # r
    BY <1>1, <1>3 DEF ClearsExpired, Handling
  <2> QED BY <1>3, <2>1 DEF ClearsExpired, IsStale, RowOf
<1>10. \A q \in Requests : ExecutedOwns(q)'
  <2>1. ExecutedOwns(r)'
    BY <1>0, <1>1, <1>2, <1>3 DEF ExecutedOwns, RowOf
  <2>2. ASSUME NEW q \in Requests, q # r PROVE ExecutedOwns(q)'
    BY <2>2, <1>3 DEF ExecutedOwns, RowOf
  <2> QED BY <2>1, <2>2
<1>11. \A k \in Keys : RowKnown(k)'
  <2> SUFFICES ASSUME NEW k \in Keys, rows[k] # None PROVE RowKnown(k)'
    BY <1>3 DEF RowKnown
  <2>1. rows'[k] = rows[k] /\ RowKnown(k) /\ committed \subseteq committed'
    BY <1>3
  <2>2. rows[k].id \in Requests
    BY RowOwner
  <2> QED BY <1>1, <1>3, <2>1, <2>2, RowStays
<1> QED BY <1>6, <1>7, <1>8, <1>9, <1>10, <1>11

\* The effect that lands is the only one of its key, and its row is its own
\* (idempotency.service.ts:57-86).
LEMMA LandOwned ==
    ASSUME IInv, NEW e \in effects, Land(e)
    PROVE  RowsOwned'
<1> USE NoneAssumption DEF IInv, RowsOwned, IdempotencyTypeOK
<1>1. /\ e.key \in Keys /\ e.by \in Requests /\ EffectOwns(e) /\ rows[e.key] \in KeyRow
  BY DEF Effect, EffectOwns
<1>2. PICK k0 \in Keys, q0 \in Requests : k0 = e.key /\ q0 = e.by
  BY <1>1
<1>3. /\ \A k \in Keys : k # k0 => rows'[k] = rows[k]
      /\ UNCHANGED <<phase, ask, stale, committed, lapsed>>
      /\ effects' = effects \ {e}
      /\ \/ /\ e.kind = "complete" /\ rows'[k0] # None /\ rows'[k0].id = q0
            /\ rows'[k0].live /\ rows'[k0].status = "COMPLETED" /\ rows'[k0].cached = q0
            /\ rows'[k0].body = rows[k0].body
         \/ e.kind = "delete" /\ rows'[k0] = None
  <2>1. CASE Complete(e)
    <3>1. rows' = [rows EXCEPT ![k0].status = "COMPLETED", ![k0].cached = q0]
      BY <2>1, <1>1, <1>2 DEF Complete, EffectOwns
    <3>2. rows'[k0] \in KeyRow
      BY <3>1, <1>1, <1>2 DEF KeyRow
    <3>3. /\ rows'[k0].id = rows[k0].id /\ rows'[k0].live = rows[k0].live
          /\ rows'[k0].status = "COMPLETED" /\ rows'[k0].cached = q0
          /\ rows'[k0].body = rows[k0].body
      BY <3>1, <1>1, <1>2 DEF KeyRow
    <3> QED BY <2>1, <3>1, <3>2, <3>3, <1>1, <1>2 DEF Land, Complete, EffectOwns
  <2>2. CASE Delete(e)
    BY <2>2, <1>2 DEF Land, Delete
  <2> QED BY <2>1, <2>2 DEF Land
<1>4. /\ rows[k0] # None /\ rows[k0].id = q0 /\ rows[k0].live /\ phase[q0] = "answered"
      /\ e.kind = "complete" => q0 \in committed
      /\ e.kind = "delete" => LostAcks \/ q0 \notin committed
  BY <1>1, <1>2 DEF EffectOwns
<1>5. \A q \in Requests : AskKnown(q)'
  BY <1>3 DEF AskKnown
<1>6. \A q \in Requests : HandlerOwns(q)'
  <2> SUFFICES ASSUME NEW q \in Requests, Handling(q)' PROVE HandlerOwns(q)'
    BY DEF HandlerOwns
  <2>1. /\ phase[q] \in {"handling", "committed"} /\ RowOf(q) # None /\ RowOf(q).id = q
    BY <1>3 DEF HandlerOwns, Handling
  <2>2. ask[q].key \in Keys /\ ask[q].key # k0
    BY <1>4, <2>1, AskTyped DEF RowOf
  <2> QED BY <1>3, <2>1, <2>2 DEF HandlerOwns, RowOf
<1>7. \A q \in Requests : ClearsExpired(q)'
  <2> SUFFICES ASSUME NEW q \in Requests, phase[q] = "clear" PROVE ClearsExpired(q)'
    BY <1>3 DEF ClearsExpired
  <2>1. ask[q].key \in Keys
    BY AskTyped
  <2> QED BY <1>3, <1>4, <2>1 DEF ClearsExpired, IsStale, RowOf
<1>8. \A q \in Requests : ExecutedOwns(q)'
  <2> SUFFICES ASSUME NEW q \in Requests PROVE ExecutedOwns(q)'
    OBVIOUS
  <2>1. q \in committed => ask[q].key \in Keys
    BY AskTyped DEF ExecutedOwns
  <2> QED BY <1>3, <1>4, <2>1 DEF ExecutedOwns, RowOf
<1>9. \A k \in Keys : RowKnown(k)'
  <2>1. ASSUME NEW k \in Keys, k # k0 PROVE RowKnown(k)'
    BY <2>1, <1>3, RowStays
  <2>2. RowKnown(k0)'
    <3>1. ask[q0] = [key |-> k0, body |-> rows[k0].body]
      BY <1>4 DEF RowKnown
    <3> QED BY <1>3, <1>4, <3>1 DEF RowKnown, Handling
  <2> QED BY <2>1, <2>2
<1>10. \A f \in effects' : EffectOwns(f)'
  <2> SUFFICES ASSUME NEW f \in effects, f # e PROVE EffectOwns(f)'
    BY <1>3
  <2>1. f.key \in Keys /\ f.key # k0
    BY <1>2, <1>4 DEF EffectOwns, Effect
  <2> QED BY <1>3, <2>1 DEF EffectOwns
<1> QED BY <1>3, <1>5, <1>6, <1>7, <1>8, <1>9, <1>10

-----------------------------------------------------------------------------
\* Time ends what has no handler and no effect left.
LEMMA ExpireOwned ==
    ASSUME IInv, NEW k0 \in Keys, Expire(k0)
    PROVE  RowsOwned'
<1> USE NoneAssumption DEF IInv, RowsOwned, IdempotencyTypeOK
<1>1. /\ rows[k0] # None /\ rows[k0] \in KeyRow /\ phase[rows[k0].id] = "answered"
      /\ \A e \in effects : e.key # k0
  BY DEF Expire, Valid
<1>2. /\ UNCHANGED <<phase, ask, stale, effects, committed>>
      /\ \A k \in Keys : k # k0 => rows'[k] = rows[k]
      /\ rows'[k0] \in KeyRow /\ rows'[k0] # None /\ ~rows'[k0].live
      /\ rows'[k0].id = rows[k0].id /\ rows'[k0].body = rows[k0].body
      /\ rows'[k0].status = rows[k0].status /\ rows'[k0].cached = rows[k0].cached
      /\ lapsed \subseteq lapsed'
      /\ \A q \in Requests : ask[q] # None /\ ask[q].key = k0 /\ phase[q] = "answered" => q \in lapsed'
  BY <1>1 DEF Expire, KeyRow, With
<1>3. \A q \in Requests : AskKnown(q)'
  BY <1>2 DEF AskKnown
<1>4. \A q \in Requests : HandlerOwns(q)'
  <2> SUFFICES ASSUME NEW q \in Requests, Handling(q) PROVE HandlerOwns(q)'
    BY <1>2 DEF HandlerOwns, Handling
  <2>1. RowOf(q) # None /\ RowOf(q).id = q /\ ask[q].key \in Keys
    BY AskTyped DEF HandlerOwns, Handling
  <2> QED BY <1>1, <1>2, <2>1 DEF HandlerOwns, RowOf, Handling
<1>5. \A q \in Requests : ClearsExpired(q)'
  <2> SUFFICES ASSUME NEW q \in Requests, phase[q] = "clear" PROVE ClearsExpired(q)'
    BY <1>2 DEF ClearsExpired
  <2>1. ask[q].key \in Keys
    BY AskTyped
  <2> QED BY <1>1, <1>2, <2>1 DEF ClearsExpired, IsStale, RowOf
<1>6. \A q \in Requests : ExecutedOwns(q)'
  <2> SUFFICES ASSUME NEW q \in Requests PROVE ExecutedOwns(q)'
    OBVIOUS
  <2>1. q \in committed => ask[q] # None /\ ask[q].key \in Keys
    BY AskTyped DEF ExecutedOwns, AskKnown
  <2>2. CASE q \in committed /\ ask[q].key = k0
    <3>1. LostAcks \/ q \in lapsed \/ rows[k0].id = q
      BY <2>2 DEF ExecutedOwns, RowOf
    <3> QED BY <1>1, <1>2, <2>1, <2>2, <3>1 DEF ExecutedOwns
  <2>3. CASE ~(q \in committed /\ ask[q].key = k0)
    BY <1>2, <2>1, <2>3 DEF ExecutedOwns, RowOf
  <2> QED BY <2>2, <2>3
<1>7. \A k \in Keys : RowKnown(k)'
  <2>1. ASSUME NEW k \in Keys, k # k0 PROVE RowKnown(k)'
    BY <2>1, <1>2, RowStays
  <2>2. RowKnown(k0)'
    BY <1>1, <1>2 DEF RowKnown, Handling
  <2> QED BY <2>1, <2>2
<1>8. \A e \in effects' : EffectOwns(e)'
  <2> SUFFICES ASSUME NEW e \in effects PROVE EffectOwns(e)'
    BY <1>2
  <2>1. e.key \in Keys /\ e.key # k0
    BY <1>1 DEF Effect
  <2> QED BY <1>2, <2>1 DEF EffectOwns
<1> QED BY <1>2, <1>3, <1>4, <1>5, <1>6, <1>7, <1>8

\* A crash leaves every row where it is, whoever it belongs to.
LEMMA CrashOwned ==
    ASSUME IInv, Crash
    PROVE  RowsOwned'
<1> USE NoneAssumption DEF IInv, RowsOwned, IdempotencyTypeOK
<1>1. /\ UNCHANGED <<ask, stale, rows, committed, lapsed>> /\ effects' = {}
      /\ \A r \in Requests :
           phase'[r] = IF phase[r] \in InFlight THEN "answered" ELSE phase[r]
  BY DEF Crash, Dies
<1>2. \A r \in Requests : phase'[r] \in {"new", "answered"}
  BY <1>1
<1>3. \A r \in Requests : AskKnown(r)'
  BY <1>1 DEF AskKnown, InFlight
<1>4. \A r \in Requests : HandlerOwns(r)' /\ ClearsExpired(r)'
  BY <1>2 DEF HandlerOwns, ClearsExpired, Handling
<1>5. \A r \in Requests : ExecutedOwns(r)'
  BY <1>1, <1>2 DEF ExecutedOwns, RowOf, InFlight
<1>6. \A k \in Keys : RowKnown(k)'
  <2> SUFFICES ASSUME NEW k \in Keys, rows[k] # None PROVE RowKnown(k)'
    BY <1>1 DEF RowKnown
  <2>1. rows[k].id \in Requests
    BY RowOwner
  <2> QED BY <1>1, <1>2, <2>1 DEF RowKnown, Handling, InFlight
<1> QED BY <1>1, <1>3, <1>4, <1>5, <1>6

LEMMA IdleOwned ==
    ASSUME IInv, UNCHANGED keyVars
    PROVE  RowsOwned'
BY DEF IInv, keyVars, RowsOwned, AskKnown, RowKnown, HandlerOwns, EffectOwns,
       ClearsExpired, ExecutedOwns, RowOf, IsStale, Handling

LEMMA RowsInit == IdempotencyInit => IInv
<1> SUFFICES ASSUME IdempotencyInit PROVE IInv
  OBVIOUS
<1>1. IdempotencyTypeOK
  BY IdempotencyAssumption DEF IdempotencyInit, IdempotencyTypeOK
<1>2. RowsOwned
  BY DEF IdempotencyInit, RowsOwned, AskKnown, RowKnown, HandlerOwns, ClearsExpired,
         ExecutedOwns, Handling
<1> QED BY <1>1, <1>2 DEF IInv

LEMMA RowsStep == IInv /\ [IdempotencyNext]_keyVars => IInv'
<1> SUFFICES ASSUME IInv, [IdempotencyNext]_keyVars PROVE IInv'
  OBVIOUS
<1>1. ASSUME NEW r \in Requests, NEW k \in Keys, NEW b \in Bodies, Lookup(r, k, b)
      PROVE  IInv'
  BY <1>1, ArriveTyped, ArriveOwned DEF IInv
<1>2. ASSUME NEW r \in Requests, CreateKey(r) PROVE IInv'
  BY <1>2, CreateKeyTyped, RecheckOwned, ClearOwned, InsertOwned DEF IInv, CreateKey
<1>3. ASSUME NEW r \in Requests, Handle(r) PROVE IInv'
  BY <1>3, HandleTyped, HandledOwned DEF IInv
<1>4. ASSUME NEW e \in effects, Land(e) PROVE IInv'
  BY <1>4, LandTyped, LandOwned DEF IInv
<1>5. ASSUME NEW k \in Keys, Expire(k) PROVE IInv'
  BY <1>5, WorldTyped, ExpireOwned DEF IInv
<1>6. CASE Crash
  BY <1>6, WorldTyped, CrashOwned DEF IInv
<1>7. CASE UNCHANGED keyVars
  BY <1>7, WorldTyped, IdleOwned DEF IInv
<1> QED BY <1>1, <1>2, <1>3, <1>4, <1>5, <1>6, <1>7 DEF IdempotencyNext

LEMMA RowsInvariant == IdempotencySpec => []IInv
<1> QED BY RowsInit, RowsStep, PTL DEF IdempotencySpec

-----------------------------------------------------------------------------
\* Every variable of the middleware keeps its type (idempotency.service.ts,
\* idempotency.middleware.ts and the wrapper in helpers.ts:28-53).
THEOREM KeysTyped == IdempotencySpec => []IdempotencyTypeOK
<1>1. IInv => IdempotencyTypeOK
  BY DEF IInv
<1> QED BY <1>1, RowsInvariant, PTL

\* From its insert until the effect of its answer has landed the row of a key
\* belongs to one request, whatever the interleaving of the statements of
\* createKey, completeKey and deleteKey, and across crashes.
THEOREM RowsAlwaysOwned == IdempotencySpec => []RowsOwned
<1>1. IInv => RowsOwned
  BY DEF IInv
<1> QED BY <1>1, RowsInvariant, PTL

\* Two requests with one key are never in their handlers at the same time:
\* each of them owns the row of the key, and the row has one owner.
THEOREM OneHandlerPerKey == IdempotencySpec => []OneHandler
<1>1. IInv => OneHandler
  BY DEF IInv, RowsOwned, HandlerOwns, OneHandler, SameKey, RowOf
<1> QED BY <1>1, RowsInvariant, PTL

\* When no acknowledgement of a COMMIT is lost, a request is executed at most
\* once until its key expires: what was executed keeps the row of its key.
THEOREM ExecutedAtMostOnce ==
    ASSUME LostAcks = FALSE
    PROVE  IdempotencySpec => []ExecutedOnce
<1>1. IInv => ExecutedOnce
  <2> SUFFICES ASSUME IInv, NEW q \in committed \ lapsed, NEW r \in committed \ lapsed,
                      SameKey(q, r)
               PROVE  q = r
    BY DEF ExecutedOnce
  <2>1. q \in Requests /\ r \in Requests
    BY DEF IInv, IdempotencyTypeOK
  <2>2. RowOf(q).id = q /\ RowOf(r).id = r
    BY <2>1 DEF IInv, RowsOwned, ExecutedOwns
  <2> QED BY <2>2 DEF SameKey, RowOf
<1> QED BY <1>1, RowsInvariant, PTL

\* What was asked and what was committed is never forgotten, and only Replay
\* answers with a cached result.
LEMMA Remembered ==
    ASSUME IInv, [IdempotencyNext]_keyVars, NEW r \in Requests
    PROVE  /\ committed \subseteq committed' /\ (ask[r] # None => ask'[r] = ask[r])
           /\ \/ reply'[r] = reply[r] \/ reply'[r].kind # "replay"
              \/ \E k \in Keys, b \in Bodies : Replay(r, k, b)
<1> USE DEF IInv, IdempotencyTypeOK, RowsOwned, AskKnown
<1>1. ASSUME NEW q \in Requests, NEW k \in Keys, NEW b \in Bodies, Lookup(q, k, b)
      PROVE  /\ committed \subseteq committed' /\ (ask[r] # None => ask'[r] = ask[r])
             /\ \/ reply'[r] = reply[r] \/ reply'[r].kind # "replay" \/ Replay(r, k, b)
  BY <1>1 DEF Lookup, Pass, RefuseKey, Replay, Arrives, Answer
<1>2. ASSUME NEW q \in Requests, CreateKey(q)
      PROVE  /\ UNCHANGED <<committed, ask>>
             /\ reply'[r] = reply[r] \/ reply'[r].kind # "replay"
  BY <1>2 DEF CreateKey, Recheck, Clear, Insert, RefuseDuplicate, Answer
<1>3. ASSUME NEW q \in Requests, Handle(q)
      PROVE  /\ committed \subseteq committed' /\ UNCHANGED ask
             /\ reply'[r] = reply[r] \/ reply'[r].kind # "replay"
  BY <1>3 DEF Handle, ServiceCommits, Succeed, Fail, Answer
<1>4. ASSUME (\E e \in effects : Land(e)) \/ (\E k \in Keys : Expire(k)) \/ UNCHANGED keyVars
      PROVE  UNCHANGED <<committed, ask, reply>>
  BY <1>4 DEF Land, Expire, keyVars
<1>5. CASE Crash
  BY <1>5 DEF Crash
<1> QED BY <1>1, <1>2, <1>3, <1>4, <1>5 DEF IdempotencyNext

\* A replayed answer is that of the owner of the row, and stays it.
LEMMA RepliesStep == IInv /\ ReplayFaithful /\ [IdempotencyNext]_keyVars => ReplayFaithful'
<1> SUFFICES ASSUME IInv, ReplayFaithful, [IdempotencyNext]_keyVars,
                    NEW r \in Requests, reply'[r] # None, reply'[r].kind = "replay"
             PROVE  reply'[r].from \in committed' /\ ask'[reply'[r].from] = ask'[r]
  BY DEF ReplayFaithful
<1>1. /\ committed \subseteq committed'
      /\ \A q \in Requests : ask[q] # None => ask'[q] = ask[q]
  <2>1. ASSUME NEW q \in Requests PROVE ask[q] # None => ask'[q] = ask[q]
    BY Remembered
  <2>2. committed \subseteq committed'
    BY Remembered
  <2> QED BY <2>1, <2>2
<1>2. CASE reply'[r] = reply[r]
  <2>1. PICK q : q = reply[r].from
    OBVIOUS
  <2>2. q \in committed /\ ask[q] = ask[r]
    BY <1>2, <2>1 DEF ReplayFaithful
  <2>3. q \in Requests /\ ask[q] # None
    BY <2>2 DEF IInv, IdempotencyTypeOK, RowsOwned, ExecutedOwns, AskKnown
  <2> QED BY <1>1, <1>2, <2>1, <2>2, <2>3
<1>3. ASSUME NEW k \in Keys, NEW b \in Bodies, Replay(r, k, b)
      PROVE  reply'[r].from \in committed' /\ ask'[reply'[r].from] = ask'[r]
  <2>1. PICK q : q = rows[k].id
    OBVIOUS
  <2>2. /\ rows[k] \in KeyRow /\ rows[k].status = "COMPLETED" /\ rows[k].body = b
        /\ rows[k] # None
    BY <1>3 DEF Replay, Valid, MustRefuse, KeyRow, IInv, IdempotencyTypeOK
  <2>3. q \in Requests /\ ask[q] = [key |-> k, body |-> b] /\ rows[k].cached = q /\ q \in committed
    BY <2>1, <2>2 DEF RowKnown, KeyRow, IInv, RowsOwned
  <2>4. ask[q] # None
    BY <2>3, NoneAssumption
  <2>5. reply'[r].from = q /\ ask'[r] = [key |-> k, body |-> b]
    BY <1>3, <2>3 DEF Replay, Arrives, Answer, IInv, IdempotencyTypeOK
  <2> QED BY <1>1, <2>3, <2>4, <2>5
<1> QED BY <1>2, <1>3, Remembered

\* A cached answer is always the answer of a committed request with this key
\* and this body (idempotency.middleware.ts:38-50).
THEOREM ReplaysFaithful == IdempotencySpec => []ReplayFaithful
<1>1. IdempotencyInit => ReplayFaithful
  BY DEF IdempotencyInit, ReplayFaithful
<1> QED BY <1>1, RowsInvariant, RepliesStep, PTL DEF IdempotencySpec

-----------------------------------------------------------------------------
\* The wrapper tells its client of a success after the commit only.
DoneCommitted ==
    \A r \in Requests : reply[r] # None /\ reply[r].kind = "done" => r \in committed

LEMMA DoneStep == IInv /\ DoneCommitted /\ [IdempotencyNext]_keyVars => DoneCommitted'
<1> SUFFICES ASSUME IInv, DoneCommitted, [IdempotencyNext]_keyVars,
                    NEW r \in Requests, reply'[r] # None, reply'[r].kind = "done"
             PROVE  r \in committed'
  BY DEF DoneCommitted
<1>1. committed \subseteq committed'
  BY Remembered
<1>2. /\ reply \in [Requests -> Reply \union {None}]
      /\ phase[r] = "committed" => r \in committed
  BY DEF IInv, IdempotencyTypeOK, RowsOwned, ExecutedOwns
<1>3. reply'[r] = reply[r] \/ phase[r] = "committed"
  <2>1. ASSUME NEW q \in Requests, NEW k \in Keys, NEW b \in Bodies, Lookup(q, k, b)
        PROVE  reply'[r] = reply[r]
    BY <1>2, <2>1 DEF Lookup, Pass, RefuseKey, Replay, Arrives, Answer
  <2>2. ASSUME NEW q \in Requests, CreateKey(q) PROVE reply'[r] = reply[r]
    BY <1>2, <2>2 DEF CreateKey, Recheck, Clear, Insert, RefuseDuplicate, Answer
  <2>3. ASSUME NEW q \in Requests, Handle(q)
        PROVE  reply'[r] = reply[r] \/ phase[r] = "committed"
    BY <1>2, <2>3 DEF Handle, ServiceCommits, Succeed, Fail, Answer
  <2>4. ASSUME (\E e \in effects : Land(e)) \/ (\E k \in Keys : Expire(k)) \/ UNCHANGED keyVars
        PROVE  reply' = reply
    BY <2>4 DEF Land, Expire, keyVars
  <2>5. CASE Crash
    BY <2>5 DEF Crash
  <2> QED BY <2>1, <2>2, <2>3, <2>4, <2>5 DEF IdempotencyNext
<1> QED BY <1>1, <1>2, <1>3 DEF DoneCommitted

=============================================================================
