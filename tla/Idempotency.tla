---------------------------- MODULE Idempotency -----------------------------
(***************************************************************************)
(* The idempotency middleware and service, and the wrapper around every    *)
(* controller that changes money (helpers.ts).  A request passes through   *)
(*    lookup -> recheck -> (clear) -> insert -> handler -> answer          *)
(* where each arrow is an awaited statement that runs outside any database *)
(* transaction, so that other requests run in between.  What the wrapper   *)
(* writes after the handler is not awaited: it is an effect that happens   *)
(* some time later, or never when the process dies first.                  *)
(***************************************************************************)
EXTENDS Naturals, FiniteSets

CONSTANTS
    Requests,     \* HTTP requests that may ever be made
    Keys,         \* pairs of a user and an Idempotency-Key
    Bodies,       \* request bodies, told apart by their SHA-256 hash
    None,
    LostAcks,     \* may a COMMIT succeed and yet be reported as failed?
    MaxCrashes    \* bound: how often the process dies

ASSUME IdempotencyAssumption ==
    /\ None \notin Requests
    /\ LostAcks \in BOOLEAN
    /\ MaxCrashes \in Nat

VARIABLES
    phase,      \* where a request is
    ask,        \* the key and the body of a request that has arrived
    stale,      \* the id of the expired row that createKey has found
    reply,      \* what the client has been answered
    rows,       \* idempotency_keys: at most one row per user and key
    effects,    \* statements of completeKey and deleteKey under way
    committed,  \* the requests whose handler has committed its work
    lapsed,     \* the requests whose key has expired since they were made
    crashes

keyVars == <<phase, ask, stale, reply, rows, effects, committed, lapsed, crashes>>

\* A row is identified by the request that inserted it (its id).  cached is
\* the request whose result the column response holds.
KeyRow == [id : Requests, body : Bodies, status : {"PROCESSING", "COMPLETED"},
           cached : Requests \union {None}, live : BOOLEAN]

Effect == [kind : {"complete", "delete"}, key : Keys, by : Requests]

\* done: the handler's own success; replay: a cached one; conflict: 409 of the
\* middleware; failed: error of the handler; duplicate: 500 on the unique
\* index (user_id, key); lost: the process died.
Reply == [kind : {"done", "failed", "conflict", "duplicate", "lost"}, from : {None}]
           \union [kind : {"replay"}, from : Requests \union {None}]

ASSUME NoneAssumption ==
    None \notin KeyRow /\ None \notin Reply /\ None \notin [key : Keys, body : Bodies]

InFlight == {"recheck", "clear", "insert", "handling", "committed"}

IdempotencyTypeOK ==
    /\ phase \in [Requests -> InFlight \union {"new", "answered"}]
    /\ ask \in [Requests -> [key : Keys, body : Bodies] \union {None}]
    /\ stale \in [Requests -> Requests \union {None}]
    /\ reply \in [Requests -> Reply \union {None}]
    /\ rows \in [Keys -> KeyRow \union {None}]
    /\ effects \subseteq Effect
    /\ committed \subseteq Requests /\ lapsed \subseteq Requests
    /\ crashes \in 0 .. MaxCrashes

IdempotencyInit ==
    /\ phase = [r \in Requests |-> "new"]
    /\ ask = [r \in Requests |-> None]
    /\ stale = [r \in Requests |-> None]
    /\ reply = [r \in Requests |-> None]
    /\ rows = [k \in Keys |-> None]
    /\ effects = {} /\ committed = {} /\ lapsed = {}
    /\ crashes = 0

-----------------------------------------------------------------------------
Goto(r, p) == phase' = [phase EXCEPT ![r] = p]

Answer(r, kind, from) ==
    /\ Goto(r, "answered")
    /\ reply' = [reply EXCEPT ![r] = [kind |-> kind, from |-> from]]

\* Mutant: the condition expires_at > now is dropped.
ValidForEver(k) == rows[k] # None

\* The row of r's key, and whether createKey or getExistingKey sees it.
RowOf(r) == rows[ask[r].key]
Valid(k) == rows[k] # None /\ rows[k].live
Expired(k) == rows[k] # None /\ ~rows[k].live

(* The middleware, lines 31 to 50: getExistingKey and what follows from it. *)
Arrives(r, k, b) ==
    /\ phase[r] = "new"
    /\ ask' = [ask EXCEPT ![r] = [key |-> k, body |-> b]]
    /\ UNCHANGED <<stale, rows, effects, committed, lapsed, crashes>>

Pass(r, k, b) ==
    /\ Arrives(r, k, b)
    /\ ~Valid(k)
    /\ Goto(r, "recheck")
    /\ UNCHANGED reply

\* Mutants: the hash is not compared, or the status is not tested.
RefuseOnlyProcessing(k, b) == rows[k].status = "PROCESSING"
RefuseOnlyOtherBody(k, b) == rows[k].body # b

\* 409: another body, or the first request is still being processed.
MustRefuse(k, b) == rows[k].body # b \/ rows[k].status = "PROCESSING"

RefuseKey(r, k, b) ==
    /\ Arrives(r, k, b)
    /\ Valid(k) /\ MustRefuse(k, b)
    /\ Answer(r, "conflict", None)

Replay(r, k, b) ==
    /\ Arrives(r, k, b)
    /\ Valid(k) /\ ~MustRefuse(k, b)
    /\ Answer(r, "replay", rows[k].cached)

Lookup(r, k, b) == Pass(r, k, b) \/ RefuseKey(r, k, b) \/ Replay(r, k, b)

(* createKey: three statements. *)
Recheck(r) ==
    LET k == ask[r].key
    IN  /\ phase[r] = "recheck"
        /\ Goto(r, IF Expired(k) THEN "clear" ELSE "insert")
        /\ stale' = [stale EXCEPT ![r] = IF Expired(k) THEN rows[k].id ELSE None]
        /\ UNCHANGED <<ask, reply, rows, effects, committed, lapsed, crashes>>

\* Mutant: the expired row is deleted by user and key.
IsAnyRow(r) == RowOf(r) # None

\* The expired row is deleted by its id.
IsStale(r) == RowOf(r) # None /\ RowOf(r).id = stale[r]

Clear(r) ==
    /\ phase[r] = "clear"
    /\ Goto(r, "insert")
    /\ rows' = IF IsStale(r) THEN [rows EXCEPT ![ask[r].key] = None] ELSE rows
    /\ UNCHANGED <<ask, stale, reply, effects, committed, lapsed, crashes>>

\* Mutant: the index of migration 20260404162638 is missing.
CanAlwaysInsert(k) == TRUE

\* The unique index (user_id, key).
CanInsert(k) == rows[k] = None

Insert(r) ==
    /\ phase[r] = "insert"
    /\ CanInsert(ask[r].key)
    /\ rows' = [rows EXCEPT ![ask[r].key] =
         [id |-> r, body |-> ask[r].body, status |-> "PROCESSING",
          cached |-> None, live |-> TRUE]]
    /\ Goto(r, "handling")
    /\ UNCHANGED <<ask, stale, reply, effects, committed, lapsed, crashes>>

\* ER_DUP_ENTRY is not recognised by APIError.from, which answers 500.
RefuseDuplicate(r) ==
    /\ phase[r] = "insert"
    /\ ~CanInsert(ask[r].key)
    /\ Answer(r, "duplicate", None)
    /\ UNCHANGED <<ask, stale, rows, effects, committed, lapsed, crashes>>

-----------------------------------------------------------------------------
(* The controller and its wrapper *)

\* The service commits; the handler has not returned yet.
ServiceCommits(r) ==
    /\ phase[r] = "handling"
    /\ Goto(r, "committed")
    /\ committed' = committed \union {r}
    /\ UNCHANGED <<ask, stale, reply, rows, effects, lapsed, crashes>>

Spawn(kind, keys, r) ==
    effects' = effects \union {[kind |-> kind, key |-> k, by |-> r] : k \in keys}

\* completeKey is called and not awaited, and the client is answered.
\* confirmDeposit completes a second key, that of the owner of the deposit.
Succeed(r, also) ==
    /\ phase[r] = "committed"
    /\ Spawn("complete", {ask[r].key} \union also, r)
    /\ Answer(r, "done", None)
    /\ UNCHANGED <<ask, stale, rows, committed, lapsed, crashes>>

\* deleteKey is called and not awaited, and the error goes to the client.
Fail(r) ==
    /\ phase[r] = "handling" \/ (LostAcks /\ phase[r] = "committed")
    /\ Spawn("delete", {ask[r].key}, r)
    /\ Answer(r, "failed", None)
    /\ UNCHANGED <<ask, stale, rows, committed, lapsed, crashes>>

\* UPDATE ... WHERE user_id AND key: whichever row that is now.
Complete(e) ==
    /\ e.kind = "complete"
    /\ rows' = IF rows[e.key] = None THEN rows
               ELSE [rows EXCEPT ![e.key].status = "COMPLETED", ![e.key].cached = e.by]

\* Mutant: the row is kept and marked.
DeleteByMarking(e) ==
    /\ e.kind = "delete"
    /\ rows' = IF rows[e.key] = None THEN rows ELSE [rows EXCEPT ![e.key].status = "FAILED"]

Delete(e) ==
    /\ e.kind = "delete"
    /\ rows' = [rows EXCEPT ![e.key] = None]

Land(e) ==
    /\ e \in effects
    /\ Complete(e) \/ Delete(e)
    /\ effects' = effects \ {e}
    /\ UNCHANGED <<phase, ask, stale, reply, committed, lapsed, crashes>>

-----------------------------------------------------------------------------
(* Time and crashes *)

With(k) == {r \in Requests : ask[r] # None /\ ask[r].key = k}

\* 24 hours pass: no handler and no statement takes that long.
Expire(k) ==
    /\ Valid(k)
    /\ phase[rows[k].id] = "answered"
    /\ \A e \in effects : e.key # k
    /\ rows' = [rows EXCEPT ![k].live = FALSE]
    /\ lapsed' = lapsed \union {r \in With(k) : phase[r] = "answered"}
    /\ UNCHANGED <<phase, ask, stale, reply, effects, committed, crashes>>

\* The process dies.  Rows stay as they are; nothing else survives.
Dies(r) == phase[r] \in InFlight
Crash ==
    /\ crashes < MaxCrashes
    /\ \E r \in Requests : Dies(r) \/ effects # {}
    /\ crashes' = crashes + 1
    /\ phase' = [r \in Requests |-> IF Dies(r) THEN "answered" ELSE phase[r]]
    /\ reply' = [r \in Requests |->
                   IF Dies(r) THEN [kind |-> "lost", from |-> None] ELSE reply[r]]
    /\ effects' = {}
    /\ UNCHANGED <<ask, stale, rows, committed, lapsed>>

-----------------------------------------------------------------------------
CreateKey(r) == Recheck(r) \/ Clear(r) \/ Insert(r) \/ RefuseDuplicate(r)
Handle(r) == ServiceCommits(r) \/ Succeed(r, {}) \/ Fail(r)

IdempotencyNext ==
    \/ \E r \in Requests :
         \/ \E k \in Keys, b \in Bodies : Lookup(r, k, b)
         \/ CreateKey(r) \/ Handle(r)
    \/ \E e \in effects : Land(e)
    \/ \E k \in Keys : Expire(k)
    \/ Crash

IdempotencySpec == IdempotencyInit /\ [][IdempotencyNext]_keyVars

\* Statements run, handlers return, and 24 hours do pass.
IdempotencyFairSpec ==
    /\ IdempotencySpec
    /\ \A r \in Requests : WF_keyVars(CreateKey(r) \/ Handle(r))
    /\ \A k \in Keys : WF_keyVars(\E e \in effects : e.key = k /\ Land(e))
    /\ \A k \in Keys : WF_keyVars(Expire(k))

-----------------------------------------------------------------------------
(* Properties *)

SameKey(q, r) == ask[q].key = ask[r].key
Handling(r) == phase[r] \in {"handling", "committed"}

\* Two requests with one key are never handled at the same time, also when
\* both of them find and clear the same expired row.
OneHandler == \A q, r \in Requests : Handling(q) /\ Handling(r) /\ SameKey(q, r) => q = r

\* Until its key expires a request is executed once, however often it is sent:
\* after an error, next to itself, and across a crash between the commit of
\* the money and the completion of the key.
ExecutedOnce ==
    \A q, r \in committed \ lapsed : SameKey(q, r) => q = r

\* A cached answer is the answer of a committed request with this key and body.
ReplayFaithful ==
    \A r \in Requests : reply[r] # None /\ reply[r].kind = "replay" =>
        /\ reply[r].from \in committed
        /\ ask[reply[r].from] = ask[r]

\* No key refuses its user for ever: one that is being processed is completed
\* or deleted, or expires when the process died before it could be.
KeyReleased ==
    \A k \in Keys :
        (Valid(k) /\ rows[k].status = "PROCESSING") ~> (~Valid(k) \/ rows[k].status = "COMPLETED")

-----------------------------------------------------------------------------
(* Why these hold: whose a row is, from its insert to the end of the answer. *)

\* A request has a key from the moment it arrives.
AskKnown(r) == phase[r] = "new" <=> ask[r] = None

\* A row belongs to the request that inserted it, and has its result or none.
RowKnown(k) ==
    rows[k] # None =>
        LET q == rows[k].id
        IN  /\ ask[q] = [key |-> k, body |-> rows[k].body]
            /\ Handling(q) \/ phase[q] = "answered"
            /\ Handling(q) => rows[k].live /\ rows[k].status = "PROCESSING"
            /\ rows[k].status = "COMPLETED" => rows[k].cached = q /\ q \in committed

\* While a request is handled, and until its effect lands, the row is its own.
HandlerOwns(r) == Handling(r) => RowOf(r) # None /\ RowOf(r).id = r

EffectOwns(e) ==
    /\ rows[e.key] # None /\ rows[e.key].id = e.by
    /\ rows[e.key].live /\ rows[e.key].status = "PROCESSING"
    /\ phase[e.by] = "answered"
    /\ e.kind = "complete" => e.by \in committed
    /\ e.kind = "delete" => LostAcks \/ e.by \notin committed

\* What createKey is about to delete by its id has expired.
ClearsExpired(r) ==
    phase[r] = "clear" =>
        /\ stale[r] \in Requests /\ phase[stale[r]] = "answered"
        /\ IsStale(r) => ~RowOf(r).live

\* The row of what was executed keeps its key until it expires.
ExecutedOwns(r) ==
    /\ r \in committed => phase[r] \in {"committed", "answered"}
    /\ phase[r] = "committed" => r \in committed
    /\ r \in committed \ lapsed => LostAcks \/ (RowOf(r) # None /\ RowOf(r).id = r /\ RowOf(r).live)

\* From the insert until its effect has landed the row of a key belongs to one
\* request, through expired rows that several requests clear at once, effects
\* that land late and a process that dies in between.
RowsOwned ==
    /\ \A r \in Requests : AskKnown(r) /\ HandlerOwns(r) /\ ClearsExpired(r) /\ ExecutedOwns(r)
    /\ \A k \in Keys : RowKnown(k)
    /\ \A e \in effects : EffectOwns(e)
    /\ \A e, f \in effects : e.by = f.by => e = f

-----------------------------------------------------------------------------
\* README, 6: "Key exists, hash matches -> return the cached response (safe
\* replay)": a request sent again after it was answered is not refused.
RetryIsReplayed ==
    [][\A q, r \in Requests :
         (/\ reply[r] = None /\ reply'[r] # None /\ reply'[r].kind = "conflict"
          /\ reply[q] # None /\ reply[q].kind = "done" /\ q \notin lapsed)
         => ask[q] # ask'[r]]_keyVars

=============================================================================
