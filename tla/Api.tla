-------------------------------- MODULE Api ---------------------------------
(***************************************************************************)
(* The HTTP endpoints: a request passes the idempotency middleware, its    *)
(* controller calls one service of Payments, and the wrapper answers it.   *)
(* The middleware's statements run outside the service's transaction, so   *)
(* the two components share no state but the request they serve.           *)
(***************************************************************************)
EXTENDS Bookkeeping

CONSTANTS
    Callers,     \* authenticated users, as req.user.id
    Names,       \* values of the Idempotency-Key header
    Calls,       \* what may be sent, how often it may be, and by whom
    LostAcks, MaxCrashes

VARIABLES phase, ask, stale, reply, rows, effects, committed, lapsed, crashes

\* A confirmation has its reference as key (deposit.route.ts and
\* withdrawal.route.ts overwrite the header); other calls bring their own.
Keys == Callers \X (TxnIds \union Names)

\* z.coerce.boolean(): every string that is not empty is true.
Coerced(report) ==
    IF report = None THEN None ELSE report.type = "string" \/ report.says

\* validate() puts what zod made of the body in its place.
Validated(b) == [b EXCEPT !.report = Coerced(@)]

\* The hash is taken of the validated body.  It does not cover the path, but
\* the bodies of two endpoints have different fields.
Bodies == {Validated(c.body) : c \in Calls}

Keyed == INSTANCE Idempotency

keyState == <<phase, ask, stale, reply, rows, effects, committed, lapsed, crashes>>
apiVars == <<vars, keyState>>

\* What a client sends.  The field success is missing, a boolean or a string.
Report == [type : {"boolean", "string"}, says : BOOLEAN]
Confirmations == {"confirmDeposit", "confirmWithdrawal"}
CallBody ==
    [op : {"deposit", "withdraw", "transfer"} \union Confirmations,
     user : Users, peer : Users \union {Stranger}, amount : Amounts,
     txn : TxnIds \union {None}, report : Report \union {None}]

\* Every user may send requests, and a confirmation is named by its reference.
ASSUME CallsAssumption ==
    /\ Users \subseteq Callers
    /\ \A c \in Calls :
         /\ c.caller \in Callers /\ c.name \in TxnIds \union Names
         /\ c.body \in CallBody
         /\ c.body.op \in Confirmations => c.body.txn \in TxnIds /\ c.name = c.body.txn

\* Those of Idempotency, for these keys and bodies.
ASSUME KeyedAssumption ==
    /\ LostAcks \in BOOLEAN /\ MaxCrashes \in Nat
    /\ None \notin Requests
    /\ None \notin Keyed!KeyRow /\ None \notin Keyed!Reply
    /\ None \notin [key : Keys, body : Bodies]

\* The model starts from a state that these services have left: HOLDING has
\* what the pending withdrawals wait for, and what is refunded has failed.
ASSUME EscrowAssumption ==
    OpeningBalance[HOLDING] =
        MapThenSumSet(LAMBDA t : OpeningTxns[t].amount,
            {t \in DOMAIN OpeningTxns :
                OpeningTxns[t].type = "WITHDRAWAL" /\ OpeningTxns[t].status = "PENDING"})
ASSUME ReversalsAssumption ==
    \A s, t \in DOMAIN OpeningTxns :
        /\ OpeningTxns[s].type = "REVERSAL" /\ OpeningTxns[s].parent = t
        /\ OpeningTxns[t].type = "WITHDRAWAL"
        => OpeningTxns[t].status = "FAILED"

ApiInit == Init /\ Keyed!IdempotencyInit

KeysUnchanged == UNCHANGED keyState

\* The controller calls the service once, with what the body says.
Serves(r, b) ==
    \/ b.op = "withdraw" /\ InitiateWithdrawal(r, b.user, b.amount)
    \/ b.op = "transfer" /\ InitiateTransfer(r, b.user, b.peer, b.amount)
    \/ b.op = "transfer" /\ b.user = b.peer /\ RefuseSelfTransfer(r)
    \/ b.op = "confirmDeposit" /\ ConfirmDeposit(r, b.txn)
    \/ b.op = "confirmWithdrawal" /\ b.report /\ Settle(r, b.txn)
    \/ b.op = "confirmWithdrawal" /\ ~b.report /\ Reverse(r, b.txn)
    \/ b.op \in {"confirmDeposit", "confirmWithdrawal"} /\ RefuseConfirmation(r, b.txn)

CallService(r) ==
    /\ phase[r] = "handling"
    /\ Serves(r, ask[r].body)
    /\ KeysUnchanged

\* initiateDeposit commits in one step.
CallInitiateDeposit(r) ==
    /\ ask[r] # None /\ ask[r].body.op = "deposit"
    /\ InitiateDeposit(r, ask[r].body.user, ask[r].body.amount)
    /\ Keyed!ServiceCommits(r)

RunService(r) ==
    \/ (Statement(r) \/ Victim(r) \/ Abort(r)) /\ KeysUnchanged
    \/ Commit(r) /\ Keyed!ServiceCommits(r)

\* confirmDeposit.controller completes the key of the deposit's owner as well.
OwnersKey(r) ==
    IF ask[r].body.op = "confirmDeposit" THEN {<<job[r].user, ask[r].key[2]>>} ELSE {}

\* Mutant: the wrapper does not throw the error on, so nobody answers it.
AnswerCallSwallowing(r) ==
    /\ pc[r] = "ok"
    /\ Keyed!Succeed(r, OwnersKey(r))
    /\ UNCHANGED vars

AnswerCall(r) ==
    /\ pc[r] \in Answers
    /\ Keyed!Succeed(r, OwnersKey(r)) \/ Keyed!Fail(r)
    /\ UNCHANGED vars

\* The process dies: MySQL rolls every open transaction back.
ServerDies ==
    LET Rolled(f, x) == [r \in Requests |-> IF Active(r) THEN x ELSE f[r]]
    IN  /\ Keyed!Crash
        /\ pc' = Rolled(pc, "error")
        /\ held' = Rolled(held, {})
        /\ txnLock' = Rolled(txnLock, "none")
        /\ todo' = Rolled(todo, << >>)
        /\ seen' = Rolled(seen, Unread)
        /\ UNCHANGED <<db, job>>

Send(r) ==
    /\ \E c \in Calls : Keyed!Lookup(r, <<c.caller, c.name>>, Validated(c.body))
    /\ UNCHANGED vars

CreateKey(r) == Keyed!CreateKey(r) /\ UNCHANGED vars

KeyTable ==
    /\ (\E e \in effects : Keyed!Land(e)) \/ (\E k \in Keys : Keyed!Expire(k))
    /\ UNCHANGED vars

ApiNext ==
    \/ \E r \in Requests :
         \/ Send(r) \/ CreateKey(r)
         \/ CallService(r) \/ CallInitiateDeposit(r)
         \/ RunService(r) \/ AnswerCall(r)
    \/ KeyTable
    \/ ServerDies

ApiSpec == ApiInit /\ [][ApiNext]_apiVars

\* A request that passed the middleware goes on by itself: every statement is
\* run, every deadlock broken, every handler returns.  Nobody is obliged to
\* send a request, no statement to fail, and no fired effect to land.
Goes(r) ==
    \/ CreateKey(r) \/ CallService(r) \/ CallInitiateDeposit(r) \/ AnswerCall(r)
    \/ Statement(r) /\ KeysUnchanged
    \/ Commit(r) /\ Keyed!ServiceCommits(r)

ApiFairSpec ==
    /\ ApiSpec
    /\ \A r \in Requests : WF_apiVars(Goes(r)) /\ WF_apiVars(Victim(r) /\ KeysUnchanged)

-----------------------------------------------------------------------------
(* What the properties below need of those who send requests: no endpoint   *)
(* asks for it.  MCTwoCallers and MCWrongEndpoint show what happens without. *)

\* A transaction is confirmed by one caller, the payment gateway, and nobody
\* else takes its reference for an Idempotency-Key.
OneConfirmer(calls) ==
    \A c, d \in calls : c.body.op \in Confirmations /\ d.name = c.name => d.caller = c.caller

\* Withdrawals are confirmed as withdrawals, and nothing else is.
WithdrawalIds ==
    {t \in DOMAIN OpeningTxns : OpeningTxns[t].type = "WITHDRAWAL"} \union (Requests \X {"WD"})
RightEndpoints(calls) ==
    \A c \in calls :
        /\ c.body.op = "confirmDeposit" => c.body.txn \notin WithdrawalIds
        /\ c.body.op = "confirmWithdrawal" => c.body.txn \in WithdrawalIds

-----------------------------------------------------------------------------
(* Properties *)

PendingWithdrawals ==
    {t \in TxnIds : txns[t] # None /\ txns[t].type = "WITHDRAWAL" /\ txns[t].status = "PENDING"}

\* HOLDING is the escrow "while a withdrawal is pending bank settlement"
\* (README, 1): it holds exactly the pending withdrawals, through retries,
\* deadlocks, crashes and racing confirmations.
Escrow == balance[HOLDING] = MapThenSumSet(LAMBDA t : txns[t].amount, PendingWithdrawals)

Confirms(r) == job[r] # None /\ job[r].txn # None

\* A transaction is confirmed once, whatever the gateway sends again: the
\* unlocked test of its status (deposit.service.ts:60, withdrawal.service.ts:110)
\* is made safe by the reference serving as idempotency key.
ConfirmedOnce ==
    \A q, r \in Requests :
        pc[q] = "ok" /\ pc[r] = "ok" /\ Confirms(q) /\ Confirms(r) /\ job[q].txn = job[r].txn
            => q = r

\* A transaction that is not pending never changes again.
StatusFinal ==
    [][\A t \in TxnIds : txns[t] # None /\ txns[t].status # "PENDING" => txns'[t] = txns[t]]_txns

\* A withdrawal has failed exactly if it has been reversed (README, 7): never
\* both settled and refunded, never failed without its refund.
FailedIffReversed ==
    \A t \in TxnIds : txns[t] # None /\ txns[t].type = "WITHDRAWAL" =>
        (txns[t].status = "FAILED" <=>
            \E s \in TxnIds : txns[s] # None /\ txns[s].type = "REVERSAL" /\ txns[s].parent = t)

\* The client is told of a success only for work that was committed, and of
\* a cached one only for the same call.
AnswersTrue ==
    \A r \in Requests :
        /\ reply[r] # None /\ reply[r].kind = "done" => pc[r] = "ok"
        /\ reply[r] # None /\ reply[r].kind = "replay" =>
             /\ reply[r].from # None /\ pc[reply[r].from] = "ok"
             /\ ask[reply[r].from].body = ask[r].body

\* Every request that got past the middleware is answered, through its key's
\* statements, the locks of its service and the wrapper, or its process died.
EveryCallAnswered ==
    \A r \in Requests : phase[r] \in Keyed!InFlight ~> phase[r] = "answered"

=============================================================================
