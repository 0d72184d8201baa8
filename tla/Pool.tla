-------------------------------- MODULE Pool --------------------------------
(***************************************************************************)
(* The connections that the services of Payments run on: db.transaction    *)
(* takes one from Knex's pool before the first statement, every statement  *)
(* of the service is sent on it (each repository call is given trx), and   *)
(* it goes back when the transaction ends.  Who finds none waits in a      *)
(* queue, and is refused when that takes too long.  InnoDB sees which      *)
(* transactions wait for each other's locks, but not who waits here.       *)
(***************************************************************************)
EXTENDS Payments

CONSTANT PoolSize   \* pool.max of knexfile.ts

ASSUME PoolAssumption == PoolSize \in Nat \ {0}

VARIABLES
    queue,      \* the requests that wait for a connection, in their order
    connected   \* the requests that have one

pool == <<queue, connected>>
poolVars == <<vars, pool>>

Queued(r) == \E i \in DOMAIN queue : queue[i] = r

PoolInit == Init /\ queue = << >> /\ connected = {}

\* db.transaction, called by every service.
Transaction(r) ==
    /\ pc[r] = "new" /\ ~Queued(r) /\ r \notin connected
    /\ queue' = Append(queue, r)
    /\ UNCHANGED <<connected, vars>>

Acquire ==
    /\ queue # << >> /\ Cardinality(connected) < PoolSize
    /\ connected' = connected \union {Head(queue)}
    /\ queue' = Tail(queue)
    /\ UNCHANGED vars

\* acquireConnectionTimeout: the callback is never called.
AcquireTimesOut(r) ==
    /\ Queued(r)
    /\ queue' = SelectSeq(queue, LAMBDA q : q # r)
    /\ Rollback(r, "error")
    /\ UNCHANGED connected

\* Mutant: a statement before the commit is sent without trx, and so needs a
\* second connection.
MaySendUnscoped(r) ==
    r \in connected /\ (pc[r] = "commit" => Cardinality(connected) < PoolSize)

\* A statement is sent on the connection of its own transaction.
MaySend(r) == r \in connected

Released(r) == connected' = IF pc'[r] \in Answers THEN connected \ {r} ELSE connected

Run(r) ==
    /\ MaySend(r)
    /\ Open(r) \/ Proceed(r)
    /\ Released(r)
    /\ UNCHANGED queue

\* The one refusal that needs no connection.
RefuseUnconnected(r) ==
    /\ ~Queued(r) /\ r \notin connected
    /\ RefuseSelfTransfer(r)
    /\ UNCHANGED pool

Fail(r) ==
    /\ Victim(r) \/ Abort(r)
    /\ Released(r)
    /\ UNCHANGED queue

\* A deadlock is broken, whichever of its transactions is rolled back.
BreakCircle(r) == Victim(r) /\ Released(r) /\ UNCHANGED queue

PoolNext ==
    \/ Acquire
    \/ \E r \in Requests :
         \/ Transaction(r) \/ AcquireTimesOut(r) \/ RefuseUnconnected(r)
         \/ Run(r) \/ Fail(r)

\* A free connection is handed out, and connected requests go on as in
\* Payments.  Nobody is obliged to time out, or to fail.
PoolSpec ==
    /\ PoolInit /\ [][PoolNext]_poolVars
    /\ WF_poolVars(Acquire)
    /\ \A r \in Requests : WF_poolVars(Run(r)) /\ WF_poolVars(BreakCircle(r))

-----------------------------------------------------------------------------
(* Properties *)

\* The pool is never taken up by requests that all wait: one of them can go on,
\* or wait in a circle that InnoDB sees and breaks.  A service that needed a
\* second connection would let them wait for each other unseen.
PoolNeverWedged ==
    connected # {} =>
        \E r \in connected :
            \/ Granted(r) /\ MaySend(r)
            \/ \E S \in SUBSET connected : r \in S /\ Circle(S)

=============================================================================
