----------------------------- MODULE MCProgress -----------------------------
(* Progress, of services on a pool of connections and of calls of the API.    *)
(* A behaviour has one of them: three services that share two connections, or *)
(* two calls.  There is one user with a withdrawal pending.                    *)
EXTENDS Pool, MCApi

CONSTANT Unsent   \* the request that is no call of the API (a bound)

VARIABLE running

progressVars == <<running, poolVars, keyState>>

ProgressTxns == Opening("WD") :> Pending("WITHDRAWAL")

\* Two reports on one withdrawal with different keys, and a new withdrawal.
ProgressCalls ==
    {[Reported("boolean", FALSE) EXCEPT !.caller = c] : c \in {Gateway, Owner}} \union
    {Initiate("withdraw", ClientKey)}

ProgressInit ==
    /\ running \in {"services", "calls"}
    /\ PoolInit /\ Keyed!IdempotencyInit

Services(A) == running = "services" /\ A /\ UNCHANGED <<running, keyState>>
Of(A) == running = "calls" /\ A /\ UNCHANGED <<running, pool>>

ProgressNext ==
    \/ Services(PoolNext)
    \/ Of(ApiNext /\ phase'[Unsent] = "new")

\* The fairness of PoolSpec or of ApiFairSpec, whichever is running.
ProgressSpec ==
    /\ ProgressInit /\ [][ProgressNext]_progressVars
    /\ WF_progressVars(Services(Acquire))
    /\ \A r \in Requests :
         /\ WF_progressVars(Services(Run(r)) \/ Of(Goes(r)))
         /\ WF_progressVars(Services(BreakCircle(r)) \/ Of(Victim(r) /\ KeysUnchanged))

=============================================================================
